---------------------------- MODULE BuddyProofs ----------------------------
(***************************************************************************)
(* Theorems about the page allocator: the invariants that TLC checks on a  *)
(* region of five pages hold for every region, bitmap and set of users.    *)
(***************************************************************************)
EXTENDS BuddyUsers, NumberProofs

-----------------------------------------------------------------------------
LEMMA LowestIn ==
    ASSUME NEW S \in SUBSET Nat, S # {}
    PROVE  Lowest(S) \in S /\ \A j \in S : Lowest(S) <= j
  BY Least DEF Lowest

LEMMA MaxOrderType == max_order \in 0 .. MAX_ORDER
<1> DEFINE S == {o \in 0 .. MAX_ORDER : Shl[o] >= TotalPages}
<1>1. CASE S = {}
  <2>1. max_order = MAX_ORDER
    BY <1>1 DEF max_order
  <2> QED BY <2>1, BuddyConstants
<1>2. CASE S # {}
  <2>1. S \in SUBSET Nat
    BY BuddyConstants
  <2>2. PICK o \in S : \A p \in S : o <= p
    BY <1>2, <2>1, Least
  <2>3. /\ o \in 0 .. MAX_ORDER /\ Shl[o] >= TotalPages
        /\ \A p \in 0 .. MAX_ORDER : Shl[p] >= TotalPages => o <= p
    BY <2>2
  <2> QED BY <2>3 DEF max_order
<1> QED BY <1>1, <1>2

LEMMA FreeBlockIn ==
    ASSUME NEW b, NEW o \in Nat, FreeBlocks(b, o) # {}
    PROVE  /\ find_free(b, o) \in Nat
           /\ find_free(b, o) < TotalPages \div Shl[o]
           /\ is_free(b, o, find_free(b, o))
<1>1. FreeBlocks(b, o) \in SUBSET Nat
  BY DEF FreeBlocks
<1>2. find_free(b, o) \in FreeBlocks(b, o)
  BY <1>1, LowestIn DEF find_free
<1> QED BY <1>2 DEF FreeBlocks

LEMMA OrderFound ==
    ASSUME NEW b, NEW o \in Nat, UsableOrders(b, o) # {}
    PROVE  /\ Lowest(UsableOrders(b, o)) \in o .. max_order
           /\ FreeBlocks(b, Lowest(UsableOrders(b, o))) # {}
           /\ \A p \in UsableOrders(b, o) : Lowest(UsableOrders(b, o)) <= p
<1>1. UsableOrders(b, o) \in SUBSET Nat
  BY MaxOrderType, BuddyConstants DEF UsableOrders
<1>2. /\ Lowest(UsableOrders(b, o)) \in UsableOrders(b, o)
      /\ \A p \in UsableOrders(b, o) : Lowest(UsableOrders(b, o)) <= p
  BY <1>1, LowestIn
<1> QED BY <1>2 DEF UsableOrders

(* A block that starts at a multiple of its size and ends in the region. *)
Fits(page, order) ==
    /\ page + Shl[order] <= TotalPages
    /\ \E q \in Nat : page = q * Shl[order]

LEMMA FoundFits ==
    ASSUME NEW b, NEW order \in Nat, UsableOrders(b, order) # {}
    PROVE  AllocatedPage(b, order) \in Nat /\ Fits(AllocatedPage(b, order), order)
<1>1. PICK s \in Nat : s = Lowest(UsableOrders(b, order)) /\ order <= s /\ FreeBlocks(b, s) # {}
  BY OrderFound, MaxOrderType, BuddyConstants
<1>2. PICK i \in Nat : i = find_free(b, s) /\ i < TotalPages \div Shl[s]
  BY <1>1, FreeBlockIn
<1>3. PICK d \in Nat \ {0} : d = Shl[s]
  BY ShlPositive
<1>4. PICK e \in Nat \ {0} : e = Shl[order]
  BY ShlPositive
<1>5. i * d + d <= TotalPages
  BY <1>2, <1>3, BuddyConstants, DivRoom
<1>6. PICK q \in Nat \ {0} : d = q * e
  BY <1>1, <1>3, <1>4, ShlDivides
<1>7. e <= d
  BY <1>6
<1>8. i * d = (i * q) * e /\ i * q \in Nat /\ i * d \in Nat
  BY <1>6
<1>9. AllocatedPage(b, order) = i * d
  BY <1>1, <1>2, <1>3 DEF AllocatedPage
<1> QED BY <1>4, <1>5, <1>7, <1>8, <1>9, BuddyConstants DEF Fits

(* Inductive: whatever the bitmap has become, a block is given out only     *)
(* from the blocks that lie in the region.                                  *)
BlockType == [page : Nat, order : Nat]

BlocksInv ==
    /\ owned \in [Users -> BlockType \cup {Nothing}]
    /\ \A c \in Users : owned[c] # Nothing => Fits(owned[c].page, owned[c].order)

LEMMA BlocksInit == UsersInit => BlocksInv
  BY DEF UsersInit, BuddyInit, BlocksInv

LEMMA BlocksStep == BlocksInv /\ [UsersNext]_usersVars => BlocksInv'
<1> SUFFICES ASSUME BlocksInv, [UsersNext]_usersVars PROVE BlocksInv'
  OBVIOUS
<1>1. ASSUME NEW c \in Users, NEW order \in Orders, UserAllocates(c, order) PROVE BlocksInv'
  <2>1. order \in Nat /\ UsableOrders(bitmap, order) # {}
    BY <1>1, UsersConstants DEF UserAllocates, AllocPages, NoRoom
  <2>2. PICK p \in Nat : p = AllocatedPage(bitmap, order) /\ Fits(p, order)
    BY <2>1, FoundFits
  <2>3. owned' = [owned EXCEPT ![c] = [page |-> p, order |-> order]]
    BY <1>1, <2>2 DEF UserAllocates, AllocPages, NoRoom
  <2> QED BY <2>1, <2>2, <2>3 DEF BlocksInv, BlockType
<1>2. ASSUME NEW c \in Users, UserFrees(c) PROVE BlocksInv'
  BY <1>2 DEF UserFrees, FreePages, BlocksInv
<1>3. CASE UNCHANGED usersVars
  BY <1>3 DEF usersVars, buddyVars, BlocksInv
<1> QED BY <1>1, <1>2, <1>3 DEF UsersNext, UserRefused

(* For every region, bitmap size and set of users, whatever was split,      *)
(* freed and merged before: a block that alloc_pages returns lies in the    *)
(* region and is aligned to its size.                                       *)
THEOREM BlocksStayInRegion == UsersSpec => []BlocksInRegion
<1>1. BlocksInv => BlocksInRegion
  <2> SUFFICES ASSUME BlocksInv, NEW c \in Owners
               PROVE  /\ PagesOf(c) \subseteq Pages
                      /\ owned[c].page % Shl[owned[c].order] = 0
    BY DEF BlocksInRegion
  <2>1. PICK p \in Nat, o \in Nat : p = owned[c].page /\ o = owned[c].order /\ Fits(p, o)
    BY DEF Owners, BlocksInv, BlockType
  <2>2. PICK d \in Nat \ {0} : d = Shl[o]
    BY ShlPositive
  <2>3. PICK q \in Nat : p = q * d /\ p + d <= TotalPages
    BY <2>1, <2>2 DEF Fits
  <2>4. p % d = 0
    BY <2>3, MulMod
  <2>5. p .. p + d - 1 \subseteq Pages
    BY <2>3, BuddyConstants DEF Pages
  <2> QED BY <2>1, <2>2, <2>4, <2>5 DEF PagesOf, Block
<1> QED BY <1>1, BlocksInit, BlocksStep, PTL DEF UsersSpec

-----------------------------------------------------------------------------
(* While no single page is free, no larger block is: the bit of a larger    *)
(* block is also the bit of a page of the region.                           *)
LEMMA ProductBound ==
    ASSUME NEW t \in Nat, NEW i \in Nat, NEW d \in Nat \ {0}, i * d + d <= t
    PROVE  d - 1 + i \in Nat /\ d - 1 + i < t
<1>1. (i + 1) * d <= t /\ i * d \in Nat
  OBVIOUS
<1>2. i + d <= (i + 1) * d
  <2>1. i <= i * d
    OBVIOUS
  <2> QED BY <2>1
<1> QED BY <1>1, <1>2

LEMMA ZeroOrder ==
    ASSUME NEW p \in Nat
    PROVE  bit_index(0, p) = p /\ TotalPages \div Shl[0] = TotalPages
<1>1. Shl[0] = 1
  BY ShlFacts
<1>2. 1 - 1 + p = p /\ TotalPages \div 1 = TotalPages
  BY BuddyConstants
<1> QED BY <1>1, <1>2 DEF bit_index

LEMMA BitmapSize == BITMAP_SIZE \in Nat
  BY ShlPositive, BuddyConstants DEF BITMAP_SIZE

LEMMA SinglesFirst ==
    ASSUME NEW b, NEW o \in Nat, FreeBlocks(b, o) # {}
    PROVE  FreeBlocks(b, 0) # {}
<1>1. PICK i \in Nat : i < TotalPages \div Shl[o] /\ is_free(b, o, i)
  BY FreeBlockIn
<1>2. PICK d \in Nat \ {0} : d = Shl[o]
  BY ShlPositive
<1>3. i * d + d <= TotalPages
  BY <1>1, <1>2, BuddyConstants, DivRoom
<1>4. PICK p \in Nat : p = bit_index(o, i) /\ p < TotalPages
  BY <1>2, <1>3, BuddyConstants, ProductBound DEF bit_index
<1>5. p < BITMAP_SIZE /\ p \notin b
  BY <1>1, <1>4 DEF is_free
<1>6. bit_index(0, p) = p /\ TotalPages \div Shl[0] = TotalPages /\ p \in 0 .. TotalPages
  BY <1>4, ZeroOrder, BuddyConstants
<1>7. p \in FreeBlocks(b, 0)
  BY <1>4, <1>5, <1>6 DEF FreeBlocks, is_free
<1> QED BY <1>7

(* So a single page is always found at order 0, and only its bit is set.    *)
LEMMA SingleFound ==
    ASSUME NEW b, UsableOrders(b, 0) # {}
    PROVE  \E p \in Nat : /\ AllocatedPage(b, 0) = p
                          /\ p < BITMAP_SIZE /\ p \notin b
                          /\ Allocated(b, 0) = b \cup {p}
<1>0. 0 \in Nat /\ max_order \in Nat
  BY MaxOrderType, BuddyConstants
<1>1. PICK s \in Nat : /\ s = Lowest(UsableOrders(b, 0)) /\ FreeBlocks(b, s) # {}
                       /\ \A p \in UsableOrders(b, 0) : s <= p
  BY <1>0, OrderFound
<1>2. 0 \in UsableOrders(b, 0)
  <2>1. FreeBlocks(b, 0) # {}
    BY <1>1, SinglesFirst
  <2> QED BY <1>0, <2>1 DEF UsableOrders
<1>3. s = 0
  BY <1>1, <1>2
<1>4. PICK p \in Nat : p = find_free(b, 0) /\ is_free(b, 0, p)
  BY <1>1, <1>3, FreeBlockIn
<1>5. bit_index(0, p) = p /\ p < BITMAP_SIZE /\ p \notin b
  BY <1>4, ZeroOrder DEF is_free
<1>6. AllocatedPage(b, 0) = p
  <2>1. AllocatedPage(b, 0) = p * Shl[0]
    BY <1>1, <1>3, <1>4 DEF AllocatedPage
  <2> QED BY <2>1, ShlFacts
<1>7. Allocated(b, 0) = b \cup {p}
  <2>1. Allocated(b, 0) =
          mark_allocated(b, 0, p) \ {bit_index(o, p * Shl[0 - o] + 1) : o \in 0 .. 0 - 1}
    BY <1>1, <1>3, <1>4 DEF Allocated
  <2>2. 0 .. 0 - 1 = {}
    OBVIOUS
  <2>3. mark_allocated(b, 0, p) = b \cup {p}
    BY <1>5 DEF mark_allocated, set_bit
  <2> QED BY <2>1, <2>2, <2>3
<1> QED BY <1>5, <1>6, <1>7

(* Inductive: until a page is given back or a larger block is asked for,    *)
(* the bits that are set are the pages that are held, each by one user.     *)
PlainInv ==
    plain => /\ \A c \in Owners : owned[c].order = 0 /\ owned[c].page \in bitmap
             /\ \A p \in bitmap : p \in Nat /\ \E c \in Owners : owned[c].page = p
             /\ \A c, d \in Owners : owned[c].page = owned[d].page => c = d

LEMMA PlainInit == UsersInit => PlainInv
  BY DEF UsersInit, BuddyInit, PlainInv, Owners

LEMMA PlainStep == BlocksInv /\ PlainInv /\ [UsersNext]_usersVars => PlainInv'
<1> SUFFICES ASSUME BlocksInv, PlainInv, [UsersNext]_usersVars PROVE PlainInv'
  OBVIOUS
<1>1. ASSUME NEW c \in Users, NEW order \in Orders, UserAllocates(c, order) PROVE PlainInv'
  <2> SUFFICES ASSUME plain' PROVE PlainInv'
    BY DEF PlainInv
  <2>1. plain /\ order = 0
    BY <1>1 DEF UserAllocates, AllocPages, NoRoom
  <2>2. UsableOrders(bitmap, 0) # {} /\ owned[c] = Nothing
    BY <1>1, <2>1 DEF UserAllocates, AllocPages, NoRoom
  <2>3. PICK p \in Nat : /\ AllocatedPage(bitmap, 0) = p
                         /\ p \notin bitmap /\ Allocated(bitmap, 0) = bitmap \cup {p}
    BY <2>2, SingleFound
  <2>4. bitmap' = bitmap \cup {p} /\ owned' = [owned EXCEPT ![c] = [page |-> p, order |-> 0]]
    BY <1>1, <2>1, <2>3 DEF UserAllocates, AllocPages, NoRoom
  <2>5. Nothing # [page |-> p, order |-> 0]
    BY UsersConstants
  <2>6. /\ c \notin Owners /\ Owners' = Owners \cup {c}
        /\ owned'[c].page = p /\ owned'[c].order = 0
        /\ \A d \in Owners : owned'[d] = owned[d]
    BY <2>2, <2>4, <2>5 DEF Owners, BlocksInv
  <2>7. /\ \A d \in Owners : owned[d].order = 0 /\ owned[d].page \in bitmap
        /\ \A q \in bitmap : q \in Nat /\ \E d \in Owners : owned[d].page = q
        /\ \A d, e \in Owners : owned[d].page = owned[e].page => d = e
    BY <2>1 DEF PlainInv
  <2>8. \A d \in Owners' : owned'[d].order = 0 /\ owned'[d].page \in bitmap'
    BY <2>4, <2>6, <2>7
  <2>9. \A q \in bitmap' : q \in Nat /\ \E d \in Owners' : owned'[d].page = q
    BY <2>4, <2>6, <2>7
  <2>10. \A d, e \in Owners' : owned'[d].page = owned'[e].page => d = e
    BY <2>3, <2>6, <2>7
  <2> QED BY <2>8, <2>9, <2>10 DEF PlainInv
<1>2. ASSUME NEW c \in Users, UserFrees(c) PROVE PlainInv'
  BY <1>2 DEF UserFrees, FreePages, PlainInv
<1>3. CASE UNCHANGED usersVars
  BY <1>3 DEF usersVars, buddyVars, PlainInv, Owners
<1> QED BY <1>1, <1>2, <1>3 DEF UsersNext, UserRefused

LEMMA PlainAlways == UsersSpec => [](BlocksInv /\ PlainInv)
  BY BlocksInit, BlocksStep, PlainInit, PlainStep, PTL DEF UsersSpec

(* As long as only single pages are asked for and none is given back,       *)
(* alloc_pages hands out no page twice, although the bits of all orders     *)
(* share one bitmap.                                                        *)
THEOREM SinglePagesAreDisjoint == UsersSpec => []SinglePagesDisjoint
<1>1. BlocksInv /\ PlainInv => SinglePagesDisjoint
  <2> SUFFICES ASSUME BlocksInv, PlainInv, plain,
                      NEW c \in Owners, NEW d \in Owners, c # d
               PROVE  PagesOf(c) \cap PagesOf(d) = {}
    BY DEF SinglePagesDisjoint, LiveBlocksDisjoint
  <2>1. /\ owned[c].order = 0 /\ owned[d].order = 0
        /\ owned[c].page # owned[d].page
    BY DEF PlainInv
  <2>2. owned[c].page \in Nat /\ owned[d].page \in Nat
    BY DEF BlocksInv, BlockType, Owners
  <2>3. PagesOf(c) = {owned[c].page} /\ PagesOf(d) = {owned[d].page}
    <3>1. \A q \in Nat : q .. q + 1 - 1 = {q}
      OBVIOUS
    <3>2. /\ PagesOf(c) = owned[c].page .. owned[c].page + 1 - 1
          /\ PagesOf(d) = owned[d].page .. owned[d].page + 1 - 1
      BY <2>1, ShlFacts DEF PagesOf, Block
    <3> QED BY <2>2, <3>1, <3>2
  <2> QED BY <2>1, <2>3
<1> QED BY <1>1, PlainAlways, PTL

(* Nor does it lose one: when it has no single page left, every page that   *)
(* the bitmap has a bit for is owned.                                        *)
THEOREM ExhaustedIsHeld == UsersSpec => []ExhaustedMeansHeld
<1>1. BlocksInv /\ PlainInv => ExhaustedMeansHeld
  <2> SUFFICES ASSUME BlocksInv, PlainInv, plain, UsableOrders(bitmap, 0) = {},
                      NEW p \in Pages, p < BITMAP_SIZE
               PROVE  \E c \in Owners : p \in PagesOf(c)
    BY DEF ExhaustedMeansHeld
  <2>0. p \in Nat /\ p \in 0 .. TotalPages /\ p < TotalPages
    BY BuddyConstants DEF Pages
  <2>1. FreeBlocks(bitmap, 0) = {}
    BY MaxOrderType, BuddyConstants DEF UsableOrders
  <2>2. p \in bitmap
    BY <2>0, <2>1, ZeroOrder DEF FreeBlocks, is_free
  <2>3. PICK c \in Owners : owned[c].page = p /\ owned[c].order = 0
    BY <2>2 DEF PlainInv
  <2>4. p \in PagesOf(c)
    BY <2>0, <2>3, ShlFacts DEF PagesOf, Block
  <2> QED BY <2>4
<1> QED BY <1>1, PlainAlways, PTL
=============================================================================
