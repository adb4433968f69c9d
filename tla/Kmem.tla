-------------------------------- MODULE Kmem --------------------------------
(***************************************************************************)
(* kmalloc, kmalloc_aligned and kfree of src/kern/mem.rs over the slab     *)
(* caches of src/kern/mm/slab.rs, over the page allocator of Buddy.        *)
(*                                                                         *)
(* Addresses and sizes are counted in units of the smallest object, so a   *)
(* page is PAGE_SIZE units.                                                *)
(***************************************************************************)
EXTENDS Buddy

CONSTANTS PAGE_SIZE,
          SLAB_SIZES,           \* object sizes of the caches, ascending
          MAX_SLABS_PER_SIZE,
          Callers,              \* each holds at most one allocation
          Sizes,                \* sizes asked of kmalloc
          AlignedSizes,         \* sizes asked of kmalloc_aligned
          NoBlock

Caches == 1 .. Len(SLAB_SIZES)
SlabMax == SLAB_SIZES[Len(SLAB_SIZES)]    \* the 2048 of kmalloc and kfree

ASSUME KmemConstants ==
    /\ PAGE_SIZE \in Nat \ {0}
    /\ MAX_SLABS_PER_SIZE \in Nat \ {0}
    /\ SLAB_SIZES \in Seq(1 .. PAGE_SIZE) /\ SLAB_SIZES # <<>>
    /\ \A k, l \in Caches : k <= l => SLAB_SIZES[k] <= SLAB_SIZES[l]
    /\ Sizes \subseteq Nat /\ AlignedSizes \subseteq Nat
    /\ NoBlock \notin [addr : Nat, size : Nat]

VARIABLES caches,   \* the pages of each cache: [base, bitmap]
          held,     \* ghost: the allocation of each caller: [addr, size]
          pool,     \* ghost: the pages that were not given out, or given back
          clean     \* ghost: the page allocator gave out only pages of the pool

vars == <<buddyVars, caches, held, pool, clean>>

Init ==
    /\ BuddyInit
    /\ pool = Pages
    /\ clean = TRUE
    /\ caches = [k \in Caches |-> <<>>]
    /\ held = [c \in Callers |-> NoBlock]

-----------------------------------------------------------------------------
(* SlabPage *)
Capacity(k) == PAGE_SIZE \div SLAB_SIZES[k]

Objects(k) == 0 .. Capacity(k) - 1

is_full(k, pg) == Objects(k) \subseteq pg.bitmap

is_empty(pg) == pg.bitmap = {}

(* SlabPage::alloc takes the lowest clear bit below capacity. *)
FreeObject(k, pg) == Lowest(Objects(k) \ pg.bitmap)

ObjectAddr(k, pg, i) == pg.base * PAGE_SIZE + i * SLAB_SIZES[k]

contains(k, pg, addr) ==
    addr \in pg.base * PAGE_SIZE .. pg.base * PAGE_SIZE + Capacity(k) * SLAB_SIZES[k] - 1

(* SlabAllocator::alloc uses the first cache whose objects are big enough. *)
CacheFor(size) == Lowest({k \in Caches : SLAB_SIZES[k] >= size})

NonFull(k) == {i \in 1 .. Len(caches[k]) : ~is_full(k, caches[k][i])}

-----------------------------------------------------------------------------
(* Mutant: kmalloc rounds the page count down. *)
OrderOf_RoundDown(size) == Lowest({o \in 0 .. size : Shl[o] >= size \div PAGE_SIZE})

(* The page order kmalloc, kmalloc_aligned and kfree compute from a size. *)
OrderOf(size) ==
    Lowest({o \in 0 .. size : Shl[o] >= (size + PAGE_SIZE - 1) \div PAGE_SIZE})

(* alloc_pages and free_pages, and what they mean for the pool. *)
GetPages(order) ==
    LET block == Block(AllocatedPage(bitmap, order), order)
    IN  /\ AllocPages(order)
        /\ pool' = pool \ block
        /\ clean' = (clean /\ block \subseteq pool)

PutPages(page, order) ==
    /\ FreePages(page, order)
    /\ pool' = pool \cup Block(page, order)
    /\ UNCHANGED clean

Give(c, a, size) == held' = [held EXCEPT ![c] = [addr |-> a, size |-> size]]

(* kmalloc from a slab page that has room. *)
KmallocObject(c, size) ==
    /\ held[c] = NoBlock
    /\ size \in 1 .. SlabMax
    /\ LET k == CacheFor(size)
           i == Lowest(NonFull(k))
           obj == FreeObject(k, caches[k][i])
       IN  /\ NonFull(k) # {}
           /\ caches' = [caches EXCEPT ![k][i].bitmap = @ \cup {obj}]
           /\ Give(c, ObjectAddr(k, caches[k][i], obj), size)
    /\ UNCHANGED <<buddyVars, pool, clean>>

(* kmalloc from a new slab page: the cache gets it from alloc_one. *)
KmallocNewSlab(c, size) ==
    /\ held[c] = NoBlock
    /\ size \in 1 .. SlabMax
    /\ NonFull(CacheFor(size)) = {}
    /\ Len(caches[CacheFor(size)]) < MAX_SLABS_PER_SIZE
    /\ GetPages(0)
    /\ caches' = [caches EXCEPT ![CacheFor(size)] =
                     Append(@, [base |-> AllocatedPage(bitmap, 0), bitmap |-> {0}])]
    /\ Give(c, AllocatedPage(bitmap, 0) * PAGE_SIZE, size)

(* The slab has nothing for this size: too big, or the cache is at its      *)
(* limit with every page full, or alloc_one failed.                         *)
SlabDeclines(size) ==
    \/ size > SlabMax
    \/ /\ size <= SlabMax
       /\ NonFull(CacheFor(size)) = {}
       /\ \/ Len(caches[CacheFor(size)]) >= MAX_SLABS_PER_SIZE
          \/ NoRoom(0)

TakePages(c, size, order) ==
    /\ GetPages(order)
    /\ Give(c, AllocatedPage(bitmap, order) * PAGE_SIZE, size)
    /\ UNCHANGED caches

(* kmalloc from whole pages. *)
KmallocPages(c, size) ==
    /\ held[c] = NoBlock
    /\ size > 0
    /\ SlabDeclines(size)
    /\ TakePages(c, size, OrderOf(size))

(* kmalloc_aligned(size, 4096): always whole pages. *)
KmallocAligned(c, size) ==
    /\ held[c] = NoBlock
    /\ size > 0
    /\ TakePages(c, size, OrderOf(IF size < PAGE_SIZE THEN PAGE_SIZE ELSE size))

(* kmalloc returns null. *)
KmallocFails(c, size) ==
    /\ held[c] = NoBlock
    /\ \/ size = 0
       \/ SlabDeclines(size) /\ NoRoom(OrderOf(size))
    /\ UNCHANGED vars

(* kmalloc_aligned returns null. *)
KmallocAlignedFails(c, size) ==
    /\ held[c] = NoBlock
    /\ \/ size = 0
       \/ NoRoom(OrderOf(IF size < PAGE_SIZE THEN PAGE_SIZE ELSE size))
    /\ UNCHANGED vars

-----------------------------------------------------------------------------
(* SlabAllocator::free looks for an address in the caches in turn, and in   *)
(* each from its first page on.                                             *)
PagesWith(k, addr) == {i \in 1 .. Len(caches[k]) : contains(k, caches[k][i], addr)}

CachesWith(addr) == {k \in Caches : PagesWith(k, addr) # {}}

HasOtherEmpty(s, i) == \E j \in 1 .. Len(s) : j # i /\ is_empty(s[j])

(* Mutant: the emptied page goes back to the buddy but stays in the cache. *)
CompactAfter_Keeps(s, i) == s

(* SlabCache::compact: the pages above the removed one move down. *)
CompactAfter(s, i) == RemoveAt(s, i)

(* SlabCache::free: clear the bit; an emptied page goes back to the page    *)
(* allocator if the cache keeps another empty page.                         *)
SlabFree(addr, k, i) ==
    LET pg == caches[k][i]
        obj == (addr - pg.base * PAGE_SIZE) \div SLAB_SIZES[k]
        s == [caches[k] EXCEPT ![i].bitmap = @ \ {obj}]
    IN  IF is_empty(s[i]) /\ HasOtherEmpty(s, i)
        THEN /\ caches' = [caches EXCEPT ![k] = CompactAfter(s, i)]
             /\ PutPages(pg.base, 0)
        ELSE /\ caches' = [caches EXCEPT ![k] = s]
             /\ UNCHANGED <<buddyVars, pool, clean>>

(* kfree(ptr, size) with the size that was asked for: an address inside a   *)
(* slab page goes to its cache, everything else to the page allocator.      *)
Kfree(c) ==
    /\ held[c] # NoBlock
    /\ LET addr == held[c].addr
           size == held[c].size
           k == Lowest(CachesWith(addr))
       IN  IF size <= SlabMax /\ CachesWith(addr) # {}
           THEN SlabFree(addr, k, Lowest(PagesWith(k, addr)))
           ELSE PutPages(addr \div PAGE_SIZE, OrderOf(size)) /\ UNCHANGED caches
    /\ held' = [held EXCEPT ![c] = NoBlock]

Next ==
    \E c \in Callers :
        \/ \E size \in Sizes :
              \/ KmallocObject(c, size) \/ KmallocNewSlab(c, size)
              \/ KmallocPages(c, size) \/ KmallocFails(c, size)
        \/ \E size \in AlignedSizes : KmallocAligned(c, size) \/ KmallocAlignedFails(c, size)
        \/ Kfree(c)

Spec == Init /\ [][Next]_vars

-----------------------------------------------------------------------------
Holders == {c \in Callers : held[c] # NoBlock}

Extent(c) == held[c].addr .. held[c].addr + held[c].size - 1

SlabBases == UNION {{caches[k][i].base : i \in 1 .. Len(caches[k])} : k \in Caches}

(* The pages a caller holds outside the slab caches. *)
DirectPages(c) ==
    IF held[c].addr \div PAGE_SIZE \in SlabBases THEN {}
    ELSE Block(held[c].addr \div PAGE_SIZE, OrderOf(held[c].size))

(* What a caller of kmalloc counts on: the memory of two live allocations   *)
(* never overlaps.  It does, as the page allocator may give out a page that *)
(* is still held.                                                           *)
AllocationsApart ==
    \A c, d \in Holders : c # d => Extent(c) \cap Extent(d) = {}

(* As long as the page allocator has given out no page twice, live          *)
(* allocations do not overlap, and they lie in pages that it has given out. *)
(* It gives out none twice as long as it was only asked for single pages    *)
(* and none went back to it: then small objects and pages never overlap.    *)
ObjectsDisjoint ==
    /\ clean => /\ AllocationsApart
                /\ \A c \in Holders : \A a \in Extent(c) : a \div PAGE_SIZE \in Pages \ pool
    /\ plain => clean

(* Nothing leaks and nothing is owned twice above the page allocator, as    *)
(* long as that has given out no page twice: every page is in the pool, in  *)
(* one position of one cache, or in the direct block of one caller; and an  *)
(* object's bit is set exactly while a caller holds it, also after kfree    *)
(* moved the pages of a cache.  A cache keeps at most one empty page, so    *)
(* that once everything is freed each cache holds back at most one.         *)
PagesAccounted ==
    clean =>
        /\ pool \cup SlabBases \cup UNION {DirectPages(c) : c \in Holders} = Pages
        /\ pool \cap SlabBases = {}
        /\ \A c \in Holders : DirectPages(c) \cap (pool \cup SlabBases) = {}
        /\ \A k, l \in Caches : \A i \in 1 .. Len(caches[k]), j \in 1 .. Len(caches[l]) :
              caches[k][i].base = caches[l][j].base => <<k, i>> = <<l, j>>
        /\ \A k \in Caches : \A i \in 1 .. Len(caches[k]) :
              LET pg == caches[k][i]
              IN  pg.bitmap = {o \in Objects(k) :
                                 \E c \in Holders : held[c].addr = ObjectAddr(k, pg, o)}
        /\ \A k \in Caches : \A i, j \in 1 .. Len(caches[k]) :
              is_empty(caches[k][i]) /\ is_empty(caches[k][j]) => i = j
=============================================================================
