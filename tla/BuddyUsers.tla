----------------------------- MODULE BuddyUsers -----------------------------
(***************************************************************************)
(* Buddy under any use that follows its rules: a user holds at most one    *)
(* block and frees it with the order it asked for.                         *)
(***************************************************************************)
EXTENDS Buddy

CONSTANTS Users,        \* who may hold a block
          Orders,       \* the orders they ask for
          Frees,        \* whether they give blocks back
          Nothing       \* a user holds no block

ASSUME UsersConstants ==
    /\ Orders \subseteq Nat
    /\ Frees \in BOOLEAN
    /\ Nothing \notin [page : Nat, order : Nat]

VARIABLE owned          \* ghost: the block each user was given

usersVars == <<buddyVars, owned>>

UsersInit == BuddyInit /\ owned = [u \in Users |-> Nothing]

UserAllocates(u, order) ==
    /\ owned[u] = Nothing
    /\ AllocPages(order)
    /\ owned' = [owned EXCEPT ![u] = [page |-> AllocatedPage(bitmap, order), order |-> order]]

UserRefused(u, order) ==
    /\ owned[u] = Nothing
    /\ NoRoom(order)
    /\ UNCHANGED usersVars

UserFrees(u) ==
    /\ Frees
    /\ owned[u] # Nothing
    /\ FreePages(owned[u].page, owned[u].order)
    /\ owned' = [owned EXCEPT ![u] = Nothing]

UsersNext ==
    \E u \in Users :
        \/ \E order \in Orders : UserAllocates(u, order) \/ UserRefused(u, order)
        \/ UserFrees(u)

UsersSpec == UsersInit /\ [][UsersNext]_usersVars

-----------------------------------------------------------------------------
Owners == {u \in Users : owned[u] # Nothing}

PagesOf(u) == Block(owned[u].page, owned[u].order)

(* Every block handed out lies in the region given to init and is aligned   *)
(* to its size, whatever was allocated, split, freed and merged before,     *)
(* although merging may clear the bit of a buddy outside the region.        *)
BlocksInRegion ==
    \A u \in Owners : /\ PagesOf(u) \subseteq Pages
                      /\ owned[u].page % Shl[owned[u].order] = 0

(* A block belongs to one user: no page is handed out twice. *)
LiveBlocksDisjoint ==
    \A u, v \in Owners : u # v => PagesOf(u) \cap PagesOf(v) = {}

(* As long as only single pages are asked for and none is given back, no    *)
(* page is handed out twice, also in a region with more pages than bits.    *)
SinglePagesDisjoint == plain => LiveBlocksDisjoint

(* Nor is a page lost then: when alloc_pages can give no single page any    *)
(* more, all pages that the bitmap can describe are held.                   *)
ExhaustedMeansHeld ==
    plain /\ UsableOrders(bitmap, 0) = {} =>
        \A p \in Pages : p < BITMAP_SIZE => \E u \in Owners : p \in PagesOf(u)
=============================================================================
