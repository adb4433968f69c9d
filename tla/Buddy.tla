------------------------------- MODULE Buddy -------------------------------
(***************************************************************************)
(* The page allocator of src/kern/mm/buddy.rs: one bitmap for the blocks   *)
(* of every order.  Pages are counted from base.  Who asks for blocks is   *)
(* left to the modules that extend this one: BuddyUsers, where anybody     *)
(* asks for anything, and Kmem, where kmalloc does.                        *)
(***************************************************************************)
EXTENDS Naturals, FiniteSets, SequencesExt, Shift

CONSTANTS TotalPages,   \* size / PAGE_SIZE of the region given to init
          MAX_ORDER     \* the bitmap has 2^MAX_ORDER bits

ASSUME BuddyConstants == TotalPages \in Nat /\ MAX_ORDER \in Nat

VARIABLES bitmap,       \* the bits that are set: allocated
          plain         \* ghost: only single pages asked for, none given back

buddyVars == <<bitmap, plain>>

Pages == 0 .. TotalPages - 1

(* The pages of a block. *)
Block(page, order) == page .. page + Shl[order] - 1

Lowest(S) == CHOOSE i \in S : \A j \in S : i <= j

BITMAP_SIZE == Shl[MAX_ORDER]

(* init(): the order of the smallest block that covers the region, at most  *)
(* MAX_ORDER.                                                               *)
max_order ==
    IF \E o \in 0 .. MAX_ORDER : Shl[o] >= TotalPages
    THEN CHOOSE o \in 0 .. MAX_ORDER :
            /\ Shl[o] >= TotalPages
            /\ \A p \in 0 .. MAX_ORDER : Shl[p] >= TotalPages => o <= p
    ELSE MAX_ORDER

BuddyInit == bitmap = {} /\ plain = TRUE

-----------------------------------------------------------------------------
(* The bit of block idx of an order. *)
bit_index(order, idx) == Shl[order] - 1 + idx

(* set_bit and clear_bit ignore, and get_bit reads as set, what lies beyond *)
(* the bitmap.                                                              *)
set_bit(b, bit) == IF bit < BITMAP_SIZE THEN b \cup {bit} ELSE b

clear_bit(b, bit) == b \ {bit}

(* Mutant: get_bit reads bits beyond the bitmap as clear. *)
is_free_Unbounded(b, order, idx) == bit_index(order, idx) \notin b

is_free(b, order, idx) ==
    /\ bit_index(order, idx) < BITMAP_SIZE
    /\ bit_index(order, idx) \notin b

mark_allocated(b, order, idx) == set_bit(b, bit_index(order, idx))

mark_free(b, order, idx) == clear_bit(b, bit_index(order, idx))

(* Mutant: the number of blocks of an order is rounded up. *)
FreeBlocks_RoundUp(b, order) ==
    {idx \in 0 .. (TotalPages + Shl[order] - 1) \div Shl[order] - 1 : is_free(b, order, idx)}

(* Mutant: the scan starts at block 1. *)
FreeBlocks_FromOne(b, order) ==
    {idx \in 1 .. TotalPages : idx < TotalPages \div Shl[order] /\ is_free(b, order, idx)}

(* The blocks of an order that find_free scans and finds free. *)
FreeBlocks(b, order) ==
    {idx \in 0 .. TotalPages : idx < TotalPages \div Shl[order] /\ is_free(b, order, idx)}

find_free(b, order) == Lowest(FreeBlocks(b, order))

(* The orders at which alloc_pages finds a block, from the wanted one up. *)
UsableOrders(b, order) == {o \in order .. max_order : FreeBlocks(b, o) # {}}

(* The bitmap after the lowest usable order s gave up its first free block: *)
(* that block is marked, and on the way down from s to order the right half *)
(* of each split is marked free.                                            *)
Allocated(b, order) ==
    LET s == Lowest(UsableOrders(b, order))
        idx == find_free(b, s)
        halves == {bit_index(o, idx * Shl[s - o] + 1) : o \in order .. s - 1}
    IN  mark_allocated(b, s, idx) \ halves

(* The page that alloc_pages returns. *)
AllocatedPage(b, order) ==
    LET s == Lowest(UsableOrders(b, order))
    IN  find_free(b, s) * Shl[s]

(* idx ^ 1 *)
buddy_of(idx) == IF idx % 2 = 0 THEN idx + 1 ELSE idx - 1

(* One turn of the loop in free_pages: merge with a free buddy, or stop. *)
Merge(acc, order) ==
    IF acc.go /\ is_free(acc.bits, order, buddy_of(acc.idx))
    THEN [bits |-> mark_free(mark_allocated(
                     mark_allocated(acc.bits, order, acc.idx),
                     order, buddy_of(acc.idx)), order + 1, acc.idx \div 2),
          idx |-> acc.idx \div 2, go |-> TRUE]
    ELSE [acc EXCEPT !.go = FALSE]

(* The bitmap after free_pages. *)
Freed(b, page, order) ==
    LET idx == page \div Shl[order]
        merge == [k \in 1 .. max_order - order |-> order + k - 1]
    IN  FoldLeft(Merge, [bits |-> mark_free(b, order, idx), idx |-> idx, go |-> TRUE],
                 merge).bits

-----------------------------------------------------------------------------
(* alloc_pages(order) returns None. *)
NoRoom(order) == order > max_order \/ UsableOrders(bitmap, order) = {}

(* alloc_pages(order) returns the block at AllocatedPage. *)
AllocPages(order) ==
    /\ ~NoRoom(order)
    /\ bitmap' = Allocated(bitmap, order)
    /\ plain' = (plain /\ order = 0)

(* free_pages(addr, order). *)
FreePages(page, order) ==
    /\ bitmap' = Freed(bitmap, page, order)
    /\ plain' = FALSE
=============================================================================
