----------------------------- MODULE MemProofs -----------------------------
(***************************************************************************)
(* Theorems about src/kern/mem.rs: the slab allocator and kmalloc of Kmem, *)
(* and map_mmio and make_executable of PageTables.  What TLC checks on     *)
(* four pages and on tables of two entries holds for all sizes.            *)
(***************************************************************************)
EXTENDS Kmem, PageTables, BuddyProofs

(***************************************************************************)
(* Kmem                                                                    *)
(***************************************************************************)
LEMMA CacheSizes ==
  /\ PAGE_SIZE \in Nat \ {0} /\ Caches = 1 .. Len(SLAB_SIZES) /\ Len(SLAB_SIZES) \in Nat \ {0}
  /\ SlabMax \in 1 .. PAGE_SIZE /\ Len(SLAB_SIZES) \in Caches
  /\ \A k \in Caches : /\ SLAB_SIZES[k] \in 1 .. PAGE_SIZE /\ SLAB_SIZES[k] <= SlabMax
                       /\ SLAB_SIZES[k] \in Nat \ {0}
<1>1. PAGE_SIZE \in Nat \ {0} /\ SLAB_SIZES \in Seq(1 .. PAGE_SIZE) /\ SLAB_SIZES # <<>>
  BY KmemConstants
<1>2. Len(SLAB_SIZES) \in Nat \ {0}
  BY <1>1
<1>3. \A k \in 1 .. Len(SLAB_SIZES) : SLAB_SIZES[k] \in 1 .. PAGE_SIZE
  BY <1>1
<1>4. \A k \in Caches : SLAB_SIZES[k] <= SLAB_SIZES[Len(SLAB_SIZES)]
  BY <1>2, KmemConstants DEF Caches
<1> QED
  BY <1>1, <1>2, <1>3, <1>4 DEF Caches, SlabMax

(* The objects of a page lie in it, one after the other. *)
LEMMA Capacities ==
  ASSUME NEW k \in Caches
  PROVE  /\ Capacity(k) \in Nat \ {0}
         /\ \A o \in Objects(k) : o \in Nat /\ o * SLAB_SIZES[k] + SLAB_SIZES[k] <= PAGE_SIZE
         /\ 0 \in Objects(k)
         /\ Capacity(k) * SLAB_SIZES[k] \in Nat /\ Capacity(k) * SLAB_SIZES[k] <= PAGE_SIZE
         /\ \A o \in Objects(k) : o * SLAB_SIZES[k] + SLAB_SIZES[k] <= Capacity(k) * SLAB_SIZES[k]
<1>1. PICK s \in Nat \ {0}, p \in Nat \ {0} : s = SLAB_SIZES[k] /\ p = PAGE_SIZE /\ s <= p
  BY CacheSizes
<1>2. PICK n \in Nat : n = p \div s
  OBVIOUS
<1>3. n = Capacity(k)
  BY <1>1, <1>2 DEF Capacity
<1>4. s * n <= p /\ p < s * n + s
  BY <1>2
<1>5. n # 0
  BY <1>1, <1>4
<1>6. n * s \in Nat /\ n * s <= p
  BY <1>4
<1>7. ASSUME NEW o \in 0 .. n - 1 PROVE o \in Nat /\ o * s + s <= n * s /\ o * s + s <= p
  <2>1. (o + 1) * s <= n * s
    OBVIOUS
  <2>2. (o + 1) * s = o * s + s
    OBVIOUS
  <2> QED
    BY <1>6, <2>1, <2>2
<1>8. Objects(k) = 0 .. n - 1
  BY <1>3 DEF Objects
<1> HIDE DEF Objects
<1> QED
  BY <1>1, <1>3, <1>5, <1>6, <1>7, <1>8

(* An address in an object belongs to the page and has the object's index. *)
LEMMA InObject ==
  ASSUME NEW k \in Caches, NEW b \in Nat, NEW o \in Objects(k), NEW d \in 0 .. SLAB_SIZES[k] - 1,
         NEW a, a = b * PAGE_SIZE + o * SLAB_SIZES[k] + d
  PROVE  a \in Nat /\ a \div PAGE_SIZE = b /\ (a - b * PAGE_SIZE) \div SLAB_SIZES[k] = o
<1>1. PICK s \in Nat \ {0}, p \in Nat \ {0} : s = SLAB_SIZES[k] /\ p = PAGE_SIZE
  BY CacheSizes
<1>2. o \in Nat /\ o * s + s <= p /\ d \in Nat /\ d < s
  BY <1>1, Capacities
<1>m. b * p \in Nat /\ \A i \in Nat : i * s \in Nat
  OBVIOUS
<1>3. PICK x \in Nat, y \in Nat : x = b * p /\ y = o * s
  BY <1>2, <1>m
<1>4. p * b <= x + y + d /\ x + y + d < p * b + p
  <2>1. p * b = x
    BY <1>3
  <2> QED
    BY <1>2, <1>3, <2>1
<1>5. (x + y + d) \div p = b
  <2>1. PICK z \in Nat : z = x + y + d /\ p * b <= z /\ z < p * b + p
    BY <1>2, <1>4
  <2>2. z \div p = b
    BY <2>1, Quotient
  <2> QED
    BY <2>1, <2>2
<1>6. x + y + d - x = y + d /\ s * o <= y + d /\ y + d < s * o + s
  BY <1>2, <1>3
<1>7. (y + d) \div s = o
  BY <1>2, <1>6, Quotient
<1>8. (x + y + d - x) \div s = o /\ x + y + d \in Nat
  BY <1>2, <1>6, <1>7
<1>9. a = x + y + d
  BY <1>1, <1>3
<1>10. a \in Nat /\ a \div p = b /\ (a - x) \div s = o
  BY <1>5, <1>8, <1>9
<1> QED
  BY <1>1, <1>3, <1>10

(* The pages of an order hold what was asked for. *)
LEMMA OrderHolds ==
  ASSUME NEW size \in Nat \ {0}
  PROVE  /\ OrderOf(size) \in Nat /\ Shl[OrderOf(size)] \in Nat \ {0}
         /\ size <= Shl[OrderOf(size)] * PAGE_SIZE
         /\ size <= PAGE_SIZE => OrderOf(size) = 0
<1>1. PICK p \in Nat \ {0} : p = PAGE_SIZE
  BY CacheSizes
<1>2. PICK n \in Nat : n = (size + p - 1) \div p
  BY <1>1
<1>3. p * n <= size + p - 1 /\ size + p - 1 < p * n + p
  BY <1>2
<1>4. size <= p * n /\ n <= size /\ (size <= p => n = 1)
  <2>1. size <= p * n
    BY <1>3
  <2>2. n <= size
    <3> SUFFICES ASSUME n >= size + 1 PROVE FALSE
      OBVIOUS
    <3>1. p * n >= p * (size + 1)
      OBVIOUS
    <3>2. p * (size + 1) >= size + p
      <4>1. p * size >= size
        OBVIOUS
      <4> QED
        BY <4>1
    <3> QED
      BY <1>3, <3>1, <3>2
  <2>3. size <= p => n = 1
    <3> SUFFICES ASSUME size <= p PROVE n = 1
      OBVIOUS
    <3>1. p * 1 <= size + p - 1 /\ size + p - 1 < p * 1 + p
      OBVIOUS
    <3> QED
      BY <1>2, <3>1, Quotient
  <2> QED
    BY <2>1, <2>2, <2>3
<1> DEFINE S == {o \in 0 .. size : Shl[o] >= n}
<1>5. OrderOf(size) = Lowest(S)
  BY <1>1, <1>2 DEF OrderOf
<1>6. size \in S /\ S \in SUBSET Nat
  <2>1. Shl[size] > size /\ Shl[size] \in Nat
    BY ShlGrows, ShlFacts
  <2> QED
    BY <1>4, <2>1
<1>7. Lowest(S) \in S /\ \A j \in S : Lowest(S) <= j
  BY <1>6, LowestIn
<1>8. PICK o \in Nat : o = OrderOf(size) /\ Shl[o] >= n /\ Shl[o] \in Nat \ {0}
  <2>1. Lowest(S) \in 0 .. size /\ Shl[Lowest(S)] >= n
    BY <1>7
  <2> HIDE DEF S
  <2> QED
    BY <1>5, <2>1, ShlPositive
<1>9. p * n <= Shl[o] * p
  BY <1>8
<1>10. size <= p => o = 0
  BY <1>4, <1>5, <1>7, <1>8, ShlFacts
<1> QED
  BY <1>1, <1>4, <1>8, <1>9, <1>10

(* The order kmalloc_aligned computes is the one kfree computes. *)
LEMMA AlignedOrder ==
  ASSUME NEW size \in Nat \ {0}
  PROVE  OrderOf(IF size < PAGE_SIZE THEN PAGE_SIZE ELSE size) = OrderOf(size)
BY OrderHolds, CacheSizes

(* An address in a block of pages belongs to one of them. *)
LEMMA InBlock ==
  ASSUME NEW p \in Nat, NEW size \in Nat \ {0}
  PROVE  /\ p \in Block(p, OrderOf(size))
         /\ (p * PAGE_SIZE) \div PAGE_SIZE = p
         /\ \A a \in p * PAGE_SIZE .. p * PAGE_SIZE + size - 1 : a \div PAGE_SIZE \in Block(p, OrderOf(size))
<1>1. PICK s \in Nat \ {0}, n \in Nat \ {0} :
         s = PAGE_SIZE /\ n = Shl[OrderOf(size)] /\ size <= n * s
  BY OrderHolds, CacheSizes
<1>2. (p * s) \div s = p
  <2>1. s * p <= p * s /\ p * s < s * p + s
    OBVIOUS
  <2> QED
    BY <2>1, Quotient
<1>3. ASSUME NEW a \in p * s .. p * s + size - 1 PROVE a \div s \in p .. p + n - 1
  <2>0. p * s \in Nat /\ a \in Nat /\ p * s <= a
    OBVIOUS
  <2>1. PICK q \in Nat : q = a \div s /\ s * q <= a /\ a < s * q + s
    BY <2>0
  <2>2. a < p * s + n * s
    BY <1>1
  <2>3. s * q < s * (p + n) /\ s * p < s * (q + 1)
    BY <2>0, <2>1, <2>2
  <2>4. q < p + n /\ p < q + 1
    BY <2>3
  <2> QED
    BY <2>1, <2>4
<1> QED
  BY <1>1, <1>2, <1>3 DEF Block

-----------------------------------------------------------------------------
(* The pages and the objects in use of a cache, wherever in it they are.    *)
HasBase(s, b) == \E i \in 1 .. Len(s) : s[i].base = b

HasBit(s, b, o) == \E i \in 1 .. Len(s) : s[i].base = b /\ o \in s[i].bitmap

Slab(k, b) == HasBase(caches[k], b)

Bit(k, b, o) == HasBit(caches[k], b, o)

(* A caller whose page is in no cache holds a block of pages, every other   *)
(* one an object.                                                           *)
PageOf(c) == held[c].addr \div PAGE_SIZE

BlockOf(c) == Block(PageOf(c), OrderOf(held[c].size))

Direct(c) == \A k \in Caches : ~Slab(k, PageOf(c))

HoldsBlock(c) ==
    /\ held[c].addr = PageOf(c) * PAGE_SIZE
    /\ BlockOf(c) \subseteq Pages \ pool
    /\ \A k \in Caches, b \in BlockOf(c) : ~Slab(k, b)

HoldsObject(c) ==
    \E k \in Caches, b \in Nat : \E o \in Objects(k) :
        /\ Bit(k, b, o)
        /\ held[c].addr = b * PAGE_SIZE + o * SLAB_SIZES[k]
        /\ held[c].size <= SLAB_SIZES[k]

(* Every page and every object has one owner. *)
SlabsInv ==
    /\ pool \subseteq Pages
    /\ \A k \in Caches : \A b : Slab(k, b) => b \in Pages \ pool
    /\ \A k, l \in Caches : \A b : Slab(k, b) /\ Slab(l, b) => k = l

HeldInv ==
    /\ held \in [Callers -> [addr : Nat, size : Nat] \cup {NoBlock}]
    /\ \A c \in Holders : /\ held[c].size # 0
                          /\ Direct(c) => HoldsBlock(c)
                          /\ ~Direct(c) => HoldsObject(c)

ApartInv ==
    \A c, d \in Holders : c # d =>
        /\ held[c].addr # held[d].addr
        /\ Direct(c) /\ Direct(d) => BlockOf(c) \cap BlockOf(d) = {}

FoundInv ==
    /\ \A k \in Caches : \A b : \A o : Bit(k, b, o) =>
          \E c \in Holders : held[c].addr = b * PAGE_SIZE + o * SLAB_SIZES[k]
    /\ \A p \in Pages : \/ p \in pool
                        \/ \E k \in Caches : Slab(k, p)
                        \/ \E c \in Holders : Direct(c) /\ p \in BlockOf(c)

OwnersInv == SlabsInv /\ HeldInv /\ ApartInv /\ FoundInv

SlabPage == [base : Pages, bitmap : SUBSET Nat]

(* The pages of a cache are different, and at most one of them is empty. *)
GoodCache(k, s) ==
    /\ s \in Seq(SlabPage) /\ Len(s) <= MAX_SLABS_PER_SIZE
    /\ \A i \in 1 .. Len(s) : s[i].bitmap \subseteq Objects(k)
    /\ \A i, j \in 1 .. Len(s) : s[i].base = s[j].base => i = j
    /\ \A i, j \in 1 .. Len(s) : is_empty(s[i]) /\ is_empty(s[j]) => i = j

CachesInv ==
    /\ caches = [k \in Caches |-> caches[k]]
    /\ \A k \in Caches : GoodCache(k, caches[k])

KmemInv == CachesInv /\ OwnersInv

LEMMA Held ==
  ASSUME HeldInv, NEW c \in Holders
  PROVE  /\ held[c].addr \in Nat /\ held[c].size \in Nat \ {0} /\ PageOf(c) \in Nat
         /\ PageOf(c) \in BlockOf(c) /\ c \in Callers
<1>1. held[c] \in [addr : Nat, size : Nat] /\ c \in Callers
  BY DEF HeldInv, Holders
<1>2. held[c].addr \in Nat /\ held[c].size \in Nat \ {0}
  BY <1>1 DEF HeldInv
<1>3. PageOf(c) \in Nat
  <2>1. PICK p \in Nat \ {0}, a \in Nat : p = PAGE_SIZE /\ a = held[c].addr
    BY <1>2, CacheSizes
  <2>2. a \div p \in Nat
    OBVIOUS
  <2> QED
    BY <2>1, <2>2 DEF PageOf
<1> QED
  BY <1>1, <1>2, <1>3, InBlock DEF BlockOf

(* The page of an object that is held. *)
LEMMA ObjectPage ==
  ASSUME NEW k \in Caches, NEW b \in Nat, NEW o \in Objects(k), NEW a,
         a = b * PAGE_SIZE + o * SLAB_SIZES[k]
  PROVE  a \in Nat /\ a \div PAGE_SIZE = b /\ (a - b * PAGE_SIZE) \div SLAB_SIZES[k] = o
<1>1. 0 \in 0 .. SLAB_SIZES[k] - 1
  BY CacheSizes
<1>2. PICK x \in Nat, y \in Nat : x = b * PAGE_SIZE /\ y = o * SLAB_SIZES[k]
  <2>1. PICK s \in Nat, p \in Nat : s = SLAB_SIZES[k] /\ p = PAGE_SIZE
    BY CacheSizes
  <2>2. o \in Nat
    BY Capacities
  <2>3. b * p \in Nat /\ o * s \in Nat
    BY <2>2
  <2> QED
    BY <2>1, <2>3
<1>3. a = b * PAGE_SIZE + o * SLAB_SIZES[k] + 0
  <2>1. x + y = x + y + 0
    OBVIOUS
  <2> QED
    BY <1>2, <2>1
<1> QED
  BY <1>1, <1>3, InObject

(* An object with its index in a page of a cache, held by one caller. *)
LEMMA OneObject ==
  ASSUME OwnersInv, NEW c \in Holders, NEW k \in Caches, NEW b \in Nat, NEW o \in Objects(k),
         held[c].addr = b * PAGE_SIZE + o * SLAB_SIZES[k]
  PROVE  PageOf(c) = b /\ (Slab(k, b) => Bit(k, b, o) /\ held[c].size <= SLAB_SIZES[k])
<1>1. PageOf(c) = b
  BY ObjectPage DEF PageOf
<1>2. ASSUME Slab(k, b) PROVE Bit(k, b, o) /\ held[c].size <= SLAB_SIZES[k]
  <2>1. ~Direct(c)
    BY <1>1, <1>2 DEF Direct
  <2>2. PICK l \in Caches, x \in Nat : \E y \in Objects(l) :
           /\ Bit(l, x, y)
           /\ held[c].addr = x * PAGE_SIZE + y * SLAB_SIZES[l]
           /\ held[c].size <= SLAB_SIZES[l]
    BY <2>1 DEF OwnersInv, HeldInv, HoldsObject
  <2>3. PICK y \in Objects(l) : /\ Bit(l, x, y)
                                /\ held[c].addr = x * PAGE_SIZE + y * SLAB_SIZES[l]
                                /\ held[c].size <= SLAB_SIZES[l]
    BY <2>2
  <2>4. x = b
    BY <1>1, <2>3, ObjectPage DEF PageOf
  <2>5. Slab(l, x)
    BY <2>3 DEF Bit, Slab, HasBit, HasBase
  <2>6. l = k
    BY <1>2, <2>4, <2>5 DEF OwnersInv, SlabsInv
  <2>7. (held[c].addr - b * PAGE_SIZE) \div SLAB_SIZES[k] = o
    BY ObjectPage
  <2>8. (held[c].addr - b * PAGE_SIZE) \div SLAB_SIZES[k] = y
    BY <2>3, <2>4, <2>6, ObjectPage
  <2> QED
    BY <2>3, <2>4, <2>6, <2>7, <2>8
<1> QED
  BY <1>1, <1>2

LEMMA PageType ==
  ASSUME NEW s \in Seq(SlabPage), NEW i \in 1 .. Len(s)
  PROVE  s[i].base \in Pages /\ s[i].base \in Nat /\ s[i].bitmap \in SUBSET Nat /\ s[i] \in SlabPage
<1>1. s[i] \in SlabPage
  OBVIOUS
<1> QED
  BY <1>1 DEF SlabPage, Pages

LEMMA BitType ==
  ASSUME CachesInv, NEW k \in Caches, NEW b, NEW o, Bit(k, b, o)
  PROVE  b \in Nat /\ o \in Objects(k)
<1>0. PICK s : s = caches[k]
  OBVIOUS
<1>1. PICK i \in 1 .. Len(s) : s[i].base = b /\ o \in s[i].bitmap
  BY <1>0 DEF Bit, HasBit
<1>2. s \in Seq(SlabPage) /\ s[i].bitmap \subseteq Objects(k)
  BY <1>0 DEF CachesInv, GoodCache
<1> QED
  BY <1>1, <1>2, PageType

-----------------------------------------------------------------------------
(* A step that gives caller c something, and what it means for the others. *)
Gives(c, a, size) ==
    /\ c \in Callers /\ held[c] = NoBlock /\ size \in Nat \ {0} /\ a \in Nat
    /\ held' = [held EXCEPT ![c] = [addr |-> a, size |-> size]]

LEMMA GivesOne ==
  ASSUME HeldInv, NEW c, NEW a, NEW size, Gives(c, a, size)
  PROVE  /\ held' \in [Callers -> [addr : Nat, size : Nat] \cup {NoBlock}]
         /\ Holders' = Holders \cup {c} /\ c \notin Holders
         /\ held'[c].addr = a /\ held'[c].size = size
         /\ PageOf(c)' = a \div PAGE_SIZE /\ BlockOf(c)' = Block(a \div PAGE_SIZE, OrderOf(size))
         /\ \A d \in Holders : held'[d] = held[d] /\ PageOf(d)' = PageOf(d) /\ BlockOf(d)' = BlockOf(d)
<1>1. PICK r : r = [addr |-> a, size |-> size]
  OBVIOUS
<1>2. r \in [addr : Nat, size : Nat] /\ r # NoBlock /\ r.addr = a /\ r.size = size
  BY <1>1, KmemConstants DEF Gives
<1>3. held' = [held EXCEPT ![c] = r] /\ c \in Callers /\ held[c] = NoBlock
  BY <1>1 DEF Gives
<1>4. held \in [Callers -> [addr : Nat, size : Nat] \cup {NoBlock}]
  BY DEF HeldInv
<1>5. held' \in [Callers -> [addr : Nat, size : Nat] \cup {NoBlock}] /\ held'[c] = r
      /\ \A d \in Callers : d # c => held'[d] = held[d]
  BY <1>2, <1>3, <1>4
<1>6. Holders' = Holders \cup {c} /\ c \notin Holders
  BY <1>2, <1>3, <1>5 DEF Holders
<1>7. \A d \in Holders : held'[d] = held[d]
  BY <1>3, <1>5 DEF Holders
<1> QED
  BY <1>2, <1>5, <1>6, <1>7 DEF PageOf, BlockOf

(* Object o of page b of cache k is given; the page may be new. *)
GivesObject(c, size, k, b, o) ==
    /\ k \in Caches /\ b \in Pages /\ o \in Objects(k) /\ size <= SLAB_SIZES[k]
    /\ Gives(c, b * PAGE_SIZE + o * SLAB_SIZES[k], size)
    /\ b \in pool \/ Slab(k, b)
    /\ ~Bit(k, b, o)
    /\ pool' = pool \ {b}
    /\ \A l \in Caches : \A x : Slab(l, x)' <=> Slab(l, x) \/ (l = k /\ x = b)
    /\ \A l \in Caches : \A x : \A y : Bit(l, x, y)' <=> Bit(l, x, y) \/ (l = k /\ x = b /\ y = o)

LEMMA ObjectGiven ==
  ASSUME OwnersInv, NEW c, NEW size, NEW k, NEW b, NEW o, GivesObject(c, size, k, b, o)
  PROVE  OwnersInv'
<1>0. /\ k \in Caches /\ b \in Pages /\ o \in Objects(k) /\ size <= SLAB_SIZES[k] /\ b \in Nat
      /\ b \in pool \/ Slab(k, b)
      /\ ~Bit(k, b, o)
      /\ pool' = pool \ {b}
  BY DEF GivesObject, Pages
<1>s. \A l \in Caches : \A x : Slab(l, x)' <=> Slab(l, x) \/ (l = k /\ x = b)
  BY DEF GivesObject
<1>b. \A l \in Caches : \A x : \A y : Bit(l, x, y)' <=> Bit(l, x, y) \/ (l = k /\ x = b /\ y = o)
  BY DEF GivesObject
<1>a. PICK a : a = b * PAGE_SIZE + o * SLAB_SIZES[k]
  OBVIOUS
<1>p. a \in Nat /\ a \div PAGE_SIZE = b
  BY <1>0, <1>a, ObjectPage
<1>1. /\ held' \in [Callers -> [addr : Nat, size : Nat] \cup {NoBlock}]
      /\ Holders' = Holders \cup {c} /\ c \notin Holders
      /\ held'[c].addr = a /\ held'[c].size = size /\ size \in Nat \ {0}
      /\ PageOf(c)' = b
      /\ \A d \in Holders : held'[d] = held[d] /\ PageOf(d)' = PageOf(d) /\ BlockOf(d)' = BlockOf(d)
  BY <1>a, <1>p, GivesOne DEF GivesObject, Gives, OwnersInv
<1>2. SlabsInv'
  BY <1>0, <1>s DEF OwnersInv, SlabsInv
<1>3. ASSUME NEW d \in Holders, Direct(d) PROVE b \notin BlockOf(d) /\ HoldsBlock(d)
  BY <1>0, <1>3 DEF OwnersInv, HeldInv, HoldsBlock
<1>4. ASSUME NEW d \in Holders PROVE Direct(d)' <=> Direct(d)
  <2>1. CASE Direct(d)
    <3>1. PageOf(d) # b
      BY <1>3, <2>1, Held DEF OwnersInv
    <3> QED
      BY <1>1, <1>s, <2>1, <3>1 DEF Direct
  <2>2. CASE ~Direct(d)
    BY <1>1, <1>s, <2>2 DEF Direct
  <2> QED
    BY <2>1, <2>2
<1>5. ~Direct(c)'
  BY <1>0, <1>1, <1>s DEF Direct
<1>6. ASSUME NEW d \in Holders, Direct(d) PROVE HoldsBlock(d)'
  <2>1. \A l \in Caches, x \in BlockOf(d) : ~Slab(l, x)'
    BY <1>3, <1>6, <1>s DEF HoldsBlock
  <2>2. BlockOf(d) \subseteq Pages \ pool'
    BY <1>0, <1>3, <1>6 DEF HoldsBlock
  <2> QED
    BY <1>1, <1>3, <1>6, <2>1, <2>2 DEF HoldsBlock
<1>7. ASSUME NEW d \in Holders, ~Direct(d) PROVE HoldsObject(d)'
  <2>1. HoldsObject(d)
    BY <1>7 DEF OwnersInv, HeldInv
  <2> QED
    BY <1>1, <1>b, <2>1 DEF HoldsObject
<1>8. HoldsObject(c)'
  <2>1. Bit(k, b, o)'
    BY <1>0, <1>b
  <2> QED
    BY <1>0, <1>1, <1>a, <2>1 DEF HoldsObject
<1>9. HeldInv'
  <2>1. ASSUME NEW d \in Holders
        PROVE  held'[d].size # 0 /\ (Direct(d)' => HoldsBlock(d)') /\ (~Direct(d)' => HoldsObject(d)')
    BY <1>1, <1>4, <1>6, <1>7 DEF OwnersInv, HeldInv
  <2> QED
    BY <1>1, <1>5, <1>8, <2>1 DEF HeldInv
<1>10. ASSUME NEW d \in Holders PROVE held[d].addr # a
  <2> SUFFICES ASSUME held[d].addr = a PROVE FALSE
    OBVIOUS
  <2>1. PageOf(d) = b /\ (Slab(k, b) => Bit(k, b, o))
    BY <1>0, <1>a, OneObject
  <2>2. b \in pool /\ \A l \in Caches : ~Slab(l, b)
    BY <1>0, <2>1 DEF OwnersInv, SlabsInv
  <2>3. Direct(d)
    BY <2>1, <2>2 DEF Direct
  <2> QED
    BY <1>3, <2>1, <2>3, Held DEF OwnersInv
<1>11. ApartInv'
  <2> SUFFICES ASSUME NEW d \in Holders', NEW e \in Holders', d # e
               PROVE  /\ held'[d].addr # held'[e].addr
                      /\ Direct(d)' /\ Direct(e)' => BlockOf(d)' \cap BlockOf(e)' = {}
    BY DEF ApartInv
  <2>1. CASE d = c
    BY <1>1, <1>5, <1>10, <2>1
  <2>2. CASE e = c
    BY <1>1, <1>5, <1>10, <2>2
  <2>3. CASE d # c /\ e # c
    BY <1>1, <1>4, <2>3 DEF OwnersInv, ApartInv
  <2> QED
    BY <2>1, <2>2, <2>3
<1>12. FoundInv'
  <2>1. ASSUME NEW l \in Caches, NEW x, NEW y, Bit(l, x, y)'
        PROVE  \E d \in Holders' : held'[d].addr = x * PAGE_SIZE + y * SLAB_SIZES[l]
    <3>1. CASE Bit(l, x, y)
      BY <1>1, <3>1 DEF OwnersInv, FoundInv
    <3>2. CASE l = k /\ x = b /\ y = o
      BY <1>1, <1>a, <3>2
    <3> QED
      BY <1>b, <2>1, <3>1, <3>2
  <2>2. ASSUME NEW p \in Pages
        PROVE  \/ p \in pool' \/ \E l \in Caches : Slab(l, p)'
               \/ \E d \in Holders' : Direct(d)' /\ p \in BlockOf(d)'
    <3>1. CASE p = b
      BY <1>0, <1>s, <3>1
    <3>2. CASE p # b
      <4>1. p \in pool \/ (\E l \in Caches : Slab(l, p)) \/ \E d \in Holders : Direct(d) /\ p \in BlockOf(d)
        BY DEF OwnersInv, FoundInv
      <4>2. CASE p \in pool
        BY <1>0, <3>2, <4>2
      <4>3. CASE \E l \in Caches : Slab(l, p)
        BY <1>s, <4>3
      <4>4. CASE \E d \in Holders : Direct(d) /\ p \in BlockOf(d)
        <5>1. PICK d \in Holders : Direct(d) /\ p \in BlockOf(d)
          BY <4>4
        <5>2. d \in Holders' /\ Direct(d)' /\ p \in BlockOf(d)'
          BY <1>1, <1>4, <5>1
        <5> QED
          BY <5>2
      <4> QED
        BY <4>1, <4>2, <4>3, <4>4
    <3> QED
      BY <3>1, <3>2
  <2> QED
    BY <2>1, <2>2 DEF FoundInv
<1> QED
  BY <1>2, <1>9, <1>11, <1>12 DEF OwnersInv

(* A block of pages is given, from page p. *)
GivesBlock(c, size, p) ==
    /\ p \in Nat /\ Block(p, OrderOf(size)) \subseteq pool
    /\ Gives(c, p * PAGE_SIZE, size)
    /\ pool' = pool \ Block(p, OrderOf(size))
    /\ \A l \in Caches : \A x : Slab(l, x)' <=> Slab(l, x)
    /\ \A l \in Caches : \A x : \A y : Bit(l, x, y)' <=> Bit(l, x, y)

LEMMA BlockGiven ==
  ASSUME OwnersInv, NEW c, NEW size, NEW p, GivesBlock(c, size, p)
  PROVE  OwnersInv'
<1>0. p \in Nat /\ Block(p, OrderOf(size)) \subseteq pool /\ pool' = pool \ Block(p, OrderOf(size))
  BY DEF GivesBlock
<1>s. \A l \in Caches : \A x : Slab(l, x)' <=> Slab(l, x)
  BY DEF GivesBlock
<1>b. \A l \in Caches : \A x : \A y : Bit(l, x, y)' <=> Bit(l, x, y)
  BY DEF GivesBlock
<1>a. PICK a, B : a = p * PAGE_SIZE /\ B = Block(p, OrderOf(size))
  OBVIOUS
<1>p. size \in Nat \ {0} /\ a \div PAGE_SIZE = p /\ p \in B
  BY <1>0, <1>a, InBlock DEF GivesBlock, Gives
<1>1. /\ held' \in [Callers -> [addr : Nat, size : Nat] \cup {NoBlock}]
      /\ Holders' = Holders \cup {c} /\ c \notin Holders
      /\ held'[c].addr = a /\ held'[c].size = size
      /\ PageOf(c)' = p /\ BlockOf(c)' = B
      /\ \A d \in Holders : held'[d] = held[d] /\ PageOf(d)' = PageOf(d) /\ BlockOf(d)' = BlockOf(d)
  BY <1>a, <1>p, GivesOne DEF GivesBlock, OwnersInv
<1>2. SlabsInv'
  BY <1>0, <1>s DEF OwnersInv, SlabsInv
<1>3. \A l \in Caches, x \in B : ~Slab(l, x)
  BY <1>0, <1>a DEF OwnersInv, SlabsInv
<1>4. ASSUME NEW d \in Holders PROVE Direct(d)' <=> Direct(d)
  BY <1>1, <1>s DEF Direct
<1>5. Direct(c)' /\ HoldsBlock(c)'
  <2>1. Direct(c)'
    BY <1>1, <1>3, <1>p, <1>s DEF Direct
  <2>2. B \subseteq Pages \ pool'
    BY <1>0, <1>a DEF OwnersInv, SlabsInv
  <2> QED
    BY <1>1, <1>3, <1>a, <1>s, <2>1, <2>2 DEF HoldsBlock
<1>6. ASSUME NEW d \in Holders, Direct(d) PROVE HoldsBlock(d)' /\ BlockOf(d) \cap B = {} /\ HoldsBlock(d)
  <2>1. HoldsBlock(d)
    BY <1>6 DEF OwnersInv, HeldInv
  <2>2. \A l \in Caches, x \in BlockOf(d) : ~Slab(l, x)'
    BY <1>s, <2>1 DEF HoldsBlock
  <2>3. BlockOf(d) \subseteq Pages \ pool'
    BY <1>0, <2>1 DEF HoldsBlock
  <2>4. HoldsBlock(d)'
    BY <1>1, <2>1, <2>2, <2>3 DEF HoldsBlock
  <2> QED
    BY <1>0, <1>a, <2>1, <2>4 DEF HoldsBlock
<1>7. ASSUME NEW d \in Holders, ~Direct(d) PROVE HoldsObject(d)'
  <2>1. HoldsObject(d)
    BY <1>7 DEF OwnersInv, HeldInv
  <2> QED
    BY <1>1, <1>b, <2>1 DEF HoldsObject
<1>8. HeldInv'
  <2>1. ASSUME NEW d \in Holders
        PROVE  held'[d].size # 0 /\ (Direct(d)' => HoldsBlock(d)') /\ (~Direct(d)' => HoldsObject(d)')
    BY <1>1, <1>4, <1>6, <1>7 DEF OwnersInv, HeldInv
  <2> QED
    BY <1>1, <1>5, <1>p, <2>1 DEF HeldInv
<1>9. ASSUME NEW d \in Holders PROVE held[d].addr # a
  <2> SUFFICES ASSUME held[d].addr = a PROVE FALSE
    OBVIOUS
  <2>1. PageOf(d) = p
    BY <1>p DEF PageOf
  <2>2. Direct(d)
    BY <1>3, <1>p, <2>1 DEF Direct
  <2> QED
    BY <1>6, <1>p, <2>1, <2>2, Held DEF OwnersInv
<1>10. ApartInv'
  <2> SUFFICES ASSUME NEW d \in Holders', NEW e \in Holders', d # e
               PROVE  /\ held'[d].addr # held'[e].addr
                      /\ Direct(d)' /\ Direct(e)' => BlockOf(d)' \cap BlockOf(e)' = {}
    BY DEF ApartInv
  <2>1. CASE d = c
    BY <1>1, <1>4, <1>6, <1>9, <2>1
  <2>2. CASE e = c
    BY <1>1, <1>4, <1>6, <1>9, <2>2
  <2>3. CASE d # c /\ e # c
    BY <1>1, <1>4, <2>3 DEF OwnersInv, ApartInv
  <2> QED
    BY <2>1, <2>2, <2>3
<1>11. FoundInv'
  <2>1. ASSUME NEW l \in Caches, NEW x, NEW y, Bit(l, x, y)'
        PROVE  \E d \in Holders' : held'[d].addr = x * PAGE_SIZE + y * SLAB_SIZES[l]
    BY <1>1, <1>b, <2>1 DEF OwnersInv, FoundInv
  <2>2. ASSUME NEW q \in Pages
        PROVE  \/ q \in pool' \/ \E l \in Caches : Slab(l, q)'
               \/ \E d \in Holders' : Direct(d)' /\ q \in BlockOf(d)'
    <3>1. CASE q \in B
      BY <1>1, <1>5, <3>1
    <3>2. CASE q \notin B
      BY <1>0, <1>1, <1>a, <1>s, <1>4, <3>2 DEF OwnersInv, FoundInv
    <3> QED
      BY <3>1, <3>2
  <2> QED
    BY <2>1, <2>2 DEF FoundInv
<1> QED
  BY <1>2, <1>8, <1>10, <1>11 DEF OwnersInv

-----------------------------------------------------------------------------
(* A step that takes back what caller c holds. *)
Returns(c) == c \in Holders /\ held' = [held EXCEPT ![c] = NoBlock]

LEMMA ReturnsOne ==
  ASSUME HeldInv, NEW c, Returns(c)
  PROVE  /\ held' \in [Callers -> [addr : Nat, size : Nat] \cup {NoBlock}]
         /\ Holders' = Holders \ {c}
         /\ \A d \in Holders : d # c => held'[d] = held[d] /\ PageOf(d)' = PageOf(d) /\ BlockOf(d)' = BlockOf(d)
<1>1. held \in [Callers -> [addr : Nat, size : Nat] \cup {NoBlock}]
  BY DEF HeldInv
<1>2. c \in Callers /\ held' = [held EXCEPT ![c] = NoBlock]
  BY DEF Returns, Holders
<1>3. held' \in [Callers -> [addr : Nat, size : Nat] \cup {NoBlock}] /\ held'[c] = NoBlock
      /\ \A d \in Callers : d # c => held'[d] = held[d]
  BY <1>1, <1>2
<1>4. Holders' = Holders \ {c}
  BY <1>3 DEF Holders
<1>5. \A d \in Holders : d # c => held'[d] = held[d]
  BY <1>3 DEF Holders
<1> QED
  BY <1>3, <1>4, <1>5 DEF PageOf, BlockOf

(* Object o of page b of cache k is taken back, and with it the page, if it *)
(* is empty then and the cache gives it up.                                 *)
ReturnsObject(c, k, b, o) ==
    /\ k \in Caches /\ b \in Pages /\ o \in Objects(k)
    /\ Returns(c) /\ Slab(k, b) /\ held[c].addr = b * PAGE_SIZE + o * SLAB_SIZES[k]
    /\ \A l \in Caches : \A x : \A y : Bit(l, x, y)' <=> Bit(l, x, y) /\ ~(l = k /\ x = b /\ y = o)
    /\ \/ pool' = pool /\ \A l \in Caches : \A x : Slab(l, x)' <=> Slab(l, x)
       \/ /\ pool' = pool \cup {b}
          /\ \A l \in Caches : \A x : Slab(l, x)' <=> Slab(l, x) /\ ~(l = k /\ x = b)

LEMMA ObjectReturned ==
  ASSUME CachesInv, OwnersInv, NEW c, NEW k, NEW b, NEW o, ReturnsObject(c, k, b, o),
         \A l \in Caches : \A x : \A y : Bit(l, x, y)' => Slab(l, x)'
  PROVE  OwnersInv'
<1>0. /\ k \in Caches /\ b \in Pages /\ o \in Objects(k) /\ b \in Nat
      /\ Slab(k, b) /\ c \in Holders /\ held[c].addr = b * PAGE_SIZE + o * SLAB_SIZES[k]
  BY DEF ReturnsObject, Pages, Returns
<1>b. \A l \in Caches : \A x : \A y : Bit(l, x, y)' <=> Bit(l, x, y) /\ ~(l = k /\ x = b /\ y = o)
  BY DEF ReturnsObject
<1>s. /\ pool \subseteq pool' /\ pool' \subseteq pool \cup {b}
      /\ \A l \in Caches : \A x : Slab(l, x)' => Slab(l, x)
      /\ \A l \in Caches : \A x : Slab(l, x) => Slab(l, x)' \/ (l = k /\ x = b)
      /\ b \in pool' <=> ~Slab(k, b)'
  <2>1. b \notin pool
    BY <1>0 DEF OwnersInv, SlabsInv
  <2>2. CASE pool' = pool /\ \A l \in Caches : \A x : Slab(l, x)' <=> Slab(l, x)
    BY <1>0, <2>1, <2>2
  <2>3. CASE /\ pool' = pool \cup {b}
             /\ \A l \in Caches : \A x : Slab(l, x)' <=> Slab(l, x) /\ ~(l = k /\ x = b)
    BY <1>0, <2>1, <2>3
  <2> QED
    BY <2>2, <2>3 DEF ReturnsObject
<1>1. /\ held' \in [Callers -> [addr : Nat, size : Nat] \cup {NoBlock}]
      /\ Holders' = Holders \ {c}
      /\ \A d \in Holders : d # c => held'[d] = held[d] /\ PageOf(d)' = PageOf(d) /\ BlockOf(d)' = BlockOf(d)
  BY ReturnsOne DEF ReturnsObject, OwnersInv
<1>2. SlabsInv'
  BY <1>0, <1>s DEF OwnersInv, SlabsInv
<1>3. ASSUME NEW d \in Holders, d # c, ~Direct(d) PROVE HoldsObject(d)' /\ ~Direct(d)'
  <2>1. HoldsObject(d)
    BY <1>3 DEF OwnersInv, HeldInv
  <2>2. PICK l \in Caches, x \in Nat : \E y \in Objects(l) :
           /\ Bit(l, x, y)
           /\ held[d].addr = x * PAGE_SIZE + y * SLAB_SIZES[l]
           /\ held[d].size <= SLAB_SIZES[l]
    BY <2>1 DEF HoldsObject
  <2>3. PICK y \in Objects(l) : /\ Bit(l, x, y)
                                /\ held[d].addr = x * PAGE_SIZE + y * SLAB_SIZES[l]
                                /\ held[d].size <= SLAB_SIZES[l]
    BY <2>2
  <2>4. held[d].addr # held[c].addr
    BY <1>0, <1>3 DEF OwnersInv, ApartInv
  <2>5. Bit(l, x, y)'
    BY <1>0, <1>b, <2>3, <2>4
  <2>6. Slab(l, x)'
    BY <2>5
  <2>7. PageOf(d)' = x
    BY <1>1, <1>3, <2>3, ObjectPage DEF PageOf
  <2>8. HoldsObject(d)'
    BY <1>1, <1>3, <2>3, <2>5 DEF HoldsObject
  <2> QED
    BY <2>6, <2>7, <2>8 DEF Direct
<1>4. ASSUME NEW d \in Holders, d # c, Direct(d) PROVE HoldsBlock(d)' /\ Direct(d)'
  <2>1. HoldsBlock(d)
    BY <1>4 DEF OwnersInv, HeldInv
  <2>2. b \notin BlockOf(d)
    BY <1>0, <2>1 DEF HoldsBlock
  <2>3. BlockOf(d) \subseteq Pages \ pool'
    BY <1>s, <2>1, <2>2 DEF HoldsBlock
  <2>4. \A l \in Caches, x \in BlockOf(d) : ~Slab(l, x)'
    BY <1>s, <2>1 DEF HoldsBlock
  <2>5. HoldsBlock(d)'
    BY <1>1, <1>4, <2>1, <2>3, <2>4 DEF HoldsBlock
  <2>6. Direct(d)'
    BY <1>1, <1>4, <1>s DEF Direct
  <2> QED
    BY <2>5, <2>6
<1>5. HeldInv'
  <2>1. \A d \in Holders' : held'[d].size # 0
    BY <1>1 DEF OwnersInv, HeldInv
  <2> QED
    BY <1>1, <1>3, <1>4, <2>1 DEF HeldInv
<1>6. ApartInv'
  BY <1>1, <1>3, <1>4 DEF OwnersInv, ApartInv
<1>7. FoundInv'
  <2>1. ASSUME NEW l \in Caches, NEW x, NEW y, Bit(l, x, y)'
        PROVE  \E d \in Holders' : held'[d].addr = x * PAGE_SIZE + y * SLAB_SIZES[l]
    <3>1. Bit(l, x, y) /\ ~(l = k /\ x = b /\ y = o)
      BY <1>b, <2>1
    <3>2. PICK d \in Holders : held[d].addr = x * PAGE_SIZE + y * SLAB_SIZES[l]
      BY <3>1 DEF OwnersInv, FoundInv
    <3>3. d # c
      <4> SUFFICES ASSUME d = c PROVE FALSE
        OBVIOUS
      <4>1. x \in Nat /\ y \in Objects(l)
        BY <3>1, BitType
      <4>2. x = b
        BY <1>0, <3>2, <4>1, ObjectPage
      <4>3. Slab(l, x)
        BY <3>1 DEF Bit, Slab, HasBit, HasBase
      <4>4. l = k
        BY <1>0, <4>2, <4>3 DEF OwnersInv, SlabsInv
      <4>5. y = o
        BY <1>0, <3>2, <4>1, <4>2, <4>4, ObjectPage
      <4> QED
        BY <3>1, <4>2, <4>4, <4>5
    <3> QED
      BY <1>1, <3>2, <3>3
  <2>2. ASSUME NEW q \in Pages
        PROVE  \/ q \in pool' \/ \E l \in Caches : Slab(l, q)'
               \/ \E d \in Holders' : Direct(d)' /\ q \in BlockOf(d)'
    <3>1. CASE q = b
      BY <1>0, <1>s, <3>1
    <3>2. CASE q # b
      <4>1. ~Direct(c)
        <5>1. PageOf(c) = b
          BY <1>0, ObjectPage DEF PageOf
        <5> QED
          BY <1>0, <5>1 DEF Direct
      <4> QED
        BY <1>1, <1>s, <1>4, <3>2, <4>1 DEF OwnersInv, FoundInv
    <3> QED
      BY <3>1, <3>2
  <2> QED
    BY <2>1, <2>2 DEF FoundInv
<1> QED
  BY <1>2, <1>5, <1>6, <1>7 DEF OwnersInv

(* A block of pages is taken back. *)
ReturnsBlock(c) ==
    /\ Returns(c) /\ Direct(c)
    /\ pool' = pool \cup BlockOf(c)
    /\ \A l \in Caches : \A x : Slab(l, x)' <=> Slab(l, x)
    /\ \A l \in Caches : \A x : \A y : Bit(l, x, y)' <=> Bit(l, x, y)

LEMMA BlockReturned ==
  ASSUME CachesInv, OwnersInv, NEW c, ReturnsBlock(c)
  PROVE  OwnersInv'
<1>0. c \in Holders /\ Direct(c) /\ HoldsBlock(c) /\ pool' = pool \cup BlockOf(c)
  BY DEF ReturnsBlock, Returns, OwnersInv, HeldInv
<1>s. \A l \in Caches : \A x : Slab(l, x)' <=> Slab(l, x)
  BY DEF ReturnsBlock
<1>b. \A l \in Caches : \A x : \A y : Bit(l, x, y)' <=> Bit(l, x, y)
  BY DEF ReturnsBlock
<1>1. /\ held' \in [Callers -> [addr : Nat, size : Nat] \cup {NoBlock}]
      /\ Holders' = Holders \ {c}
      /\ \A d \in Holders : d # c => held'[d] = held[d] /\ PageOf(d)' = PageOf(d) /\ BlockOf(d)' = BlockOf(d)
  BY ReturnsOne DEF ReturnsBlock, OwnersInv
<1>2. SlabsInv'
  BY <1>0, <1>s DEF OwnersInv, SlabsInv, HoldsBlock
<1>3. ASSUME NEW d \in Holders, d # c, ~Direct(d) PROVE HoldsObject(d)' /\ ~Direct(d)'
  <2>1. HoldsObject(d)
    BY <1>3 DEF OwnersInv, HeldInv
  <2>2. HoldsObject(d)'
    BY <1>1, <1>3, <1>b, <2>1 DEF HoldsObject
  <2> QED
    BY <1>1, <1>3, <1>s, <2>2 DEF Direct
<1>4. ASSUME NEW d \in Holders, d # c, Direct(d) PROVE HoldsBlock(d)' /\ Direct(d)'
  <2>1. HoldsBlock(d) /\ BlockOf(d) \cap BlockOf(c) = {}
    BY <1>0, <1>4 DEF OwnersInv, HeldInv, ApartInv
  <2>2. BlockOf(d) \subseteq Pages \ pool'
    BY <1>0, <2>1 DEF HoldsBlock
  <2>3. \A l \in Caches, x \in BlockOf(d) : ~Slab(l, x)'
    BY <1>s, <2>1 DEF HoldsBlock
  <2>4. HoldsBlock(d)'
    BY <1>1, <1>4, <2>1, <2>2, <2>3 DEF HoldsBlock
  <2> QED
    BY <1>1, <1>4, <1>s, <2>4 DEF Direct
<1>5. HeldInv'
  <2>1. \A d \in Holders' : held'[d].size # 0
    BY <1>1 DEF OwnersInv, HeldInv
  <2> QED
    BY <1>1, <1>3, <1>4, <2>1 DEF HeldInv
<1>6. ApartInv'
  BY <1>1, <1>3, <1>4 DEF OwnersInv, ApartInv
<1>7. FoundInv'
  <2>1. ASSUME NEW l \in Caches, NEW x, NEW y, Bit(l, x, y)'
        PROVE  \E d \in Holders' : held'[d].addr = x * PAGE_SIZE + y * SLAB_SIZES[l]
    <3>1. Bit(l, x, y)
      BY <1>b, <2>1
    <3>2. PICK d \in Holders : held[d].addr = x * PAGE_SIZE + y * SLAB_SIZES[l]
      BY <3>1 DEF OwnersInv, FoundInv
    <3>3. d # c
      <4> SUFFICES ASSUME d = c PROVE FALSE
        OBVIOUS
      <4>1. x \in Nat /\ y \in Objects(l)
        BY <3>1, BitType
      <4>2. PageOf(c) = x
        BY <3>2, <4>1, ObjectPage DEF PageOf
      <4>3. Slab(l, x)
        BY <3>1 DEF Bit, Slab, HasBit, HasBase
      <4> QED
        BY <1>0, <4>2, <4>3 DEF Direct
    <3> QED
      BY <1>1, <3>2, <3>3
  <2>2. ASSUME NEW q \in Pages
        PROVE  \/ q \in pool' \/ \E l \in Caches : Slab(l, q)'
               \/ \E d \in Holders' : Direct(d)' /\ q \in BlockOf(d)'
    <3>1. CASE q \in BlockOf(c)
      BY <1>0, <3>1
    <3>2. CASE q \notin BlockOf(c)
      BY <1>0, <1>1, <1>s, <1>4, <3>2 DEF OwnersInv, FoundInv
    <3> QED
      BY <3>1, <3>2
  <2> QED
    BY <2>1, <2>2 DEF FoundInv
<1> QED
  BY <1>2, <1>5, <1>6, <1>7 DEF OwnersInv

-----------------------------------------------------------------------------
(* One cache is changed. *)
LEMMA PutCache ==
  ASSUME CachesInv, NEW k \in Caches, NEW t, GoodCache(k, t), caches' = [caches EXCEPT ![k] = t]
  PROVE  /\ CachesInv'
         /\ \A x : Slab(k, x)' <=> HasBase(t, x)
         /\ \A x : \A y : Bit(k, x, y)' <=> HasBit(t, x, y)
         /\ \A l \in Caches : l # k => /\ \A x : Slab(l, x)' <=> Slab(l, x)
                                       /\ \A x : \A y : Bit(l, x, y)' <=> Bit(l, x, y)
<1>1. caches = [l \in Caches |-> caches[l]]
  BY DEF CachesInv
<1>2. caches'[k] = t /\ \A l \in Caches : l # k => caches'[l] = caches[l]
  BY <1>1
<1>3. caches' = [l \in Caches |-> caches'[l]]
  BY <1>1
<1>4. CachesInv'
  BY <1>2, <1>3 DEF CachesInv
<1> QED
  BY <1>2, <1>4 DEF Slab, Bit

(* A page of a cache is changed. *)
Replaced(s, t, i, q) ==
    /\ t \in Seq(SlabPage) /\ Len(t) = Len(s) /\ t[i] = q
    /\ \A j \in 1 .. Len(s) : t[j].base = s[j].base /\ (j # i => t[j] = s[j])

LEMMA Replace ==
  ASSUME NEW s \in Seq(SlabPage), NEW i \in 1 .. Len(s), NEW q \in SlabPage, q.base = s[i].base
  PROVE  Replaced(s, ReplaceAt(s, i, q), i, q)
<1>1. PICK t : t = ReplaceAt(s, i, q)
  OBVIOUS
<1>2. t \in Seq(SlabPage) /\ Len(t) = Len(s) /\ t[i] = q /\ \A j \in 1 .. Len(s) : j # i => t[j] = s[j]
  BY <1>1 DEF ReplaceAt
<1>3. Replaced(s, t, i, q)
  BY <1>2 DEF Replaced
<1> QED
  BY <1>1, <1>3

BitSet(s, i, o) == [s EXCEPT ![i].bitmap = @ \cup {o}]

BitCleared(s, i, o) == [s EXCEPT ![i].bitmap = @ \ {o}]

LEMMA SetBit ==
  ASSUME NEW k \in Caches, NEW s, GoodCache(k, s), NEW i \in 1 .. Len(s), NEW o \in Objects(k),
         NEW t, t = BitSet(s, i, o)
  PROVE  /\ GoodCache(k, t)
         /\ \A x : HasBase(t, x) <=> HasBase(s, x)
         /\ \A x : \A y : HasBit(t, x, y) <=> HasBit(s, x, y) \/ (x = s[i].base /\ y = o)
<1>0. s \in Seq(SlabPage) /\ o \in Nat
  BY Capacities DEF GoodCache
<1>1. PICK q : q = [s[i] EXCEPT !.bitmap = @ \cup {o}]
  OBVIOUS
<1>2. q \in SlabPage /\ q.base = s[i].base /\ q.bitmap = s[i].bitmap \cup {o}
  BY <1>0, <1>1, PageType DEF SlabPage
<1>3. t = ReplaceAt(s, i, q)
  BY <1>1 DEF ReplaceAt, BitSet
<1>4. /\ t \in Seq(SlabPage) /\ Len(t) = Len(s) /\ t[i] = q
      /\ \A j \in 1 .. Len(s) : t[j].base = s[j].base /\ (j # i => t[j] = s[j])
  <2>1. s \in Seq(SlabPage) /\ q \in SlabPage /\ q.base = s[i].base
    BY <1>0, <1>2
  <2>2. Replaced(s, ReplaceAt(s, i, q), i, q)
    BY <2>1, Replace
  <2>3. Replaced(s, t, i, q)
    BY <1>3, <2>2
  <2> QED
    BY <2>3 DEF Replaced
<1>5. GoodCache(k, t)
  <2>1. \A j \in 1 .. Len(t) : t[j].bitmap \subseteq Objects(k)
    BY <1>2, <1>4 DEF GoodCache
  <2>2. \A j, m \in 1 .. Len(t) : t[j].base = t[m].base => j = m
    BY <1>4 DEF GoodCache
  <2>3. \A j, m \in 1 .. Len(t) : is_empty(t[j]) /\ is_empty(t[m]) => j = m
    BY <1>2, <1>4 DEF GoodCache, is_empty
  <2> QED
    BY <1>4, <2>1, <2>2, <2>3 DEF GoodCache
<1>6. \A x : HasBase(t, x) <=> HasBase(s, x)
  BY <1>4 DEF HasBase
<1>7. ASSUME NEW x, NEW y PROVE HasBit(t, x, y) <=> HasBit(s, x, y) \/ (x = s[i].base /\ y = o)
  BY <1>2, <1>4 DEF HasBit
<1> QED
  BY <1>5, <1>6, <1>7

NewPage(b) == [base |-> b, bitmap |-> {0}]

Grown(s, b) == Append(s, NewPage(b))

CanGrow(k, s, b) ==
    /\ k \in Caches /\ GoodCache(k, s) /\ Len(s) < MAX_SLABS_PER_SIZE
    /\ \A i \in 1 .. Len(s) : is_full(k, s[i])
    /\ b \in Pages /\ ~HasBase(s, b)

LEMMA AddPage ==
  ASSUME NEW k, NEW s, NEW b, CanGrow(k, s, b), NEW t, t = Grown(s, b)
  PROVE  /\ GoodCache(k, t)
         /\ \A x : HasBase(t, x) <=> HasBase(s, x) \/ x = b
         /\ \A x : \A y : HasBit(t, x, y) <=> HasBit(s, x, y) \/ (x = b /\ y = 0)
<1> USE DEF CanGrow
<1>0. s \in Seq(SlabPage) /\ Len(s) \in Nat /\ MAX_SLABS_PER_SIZE \in Nat /\ 0 \in Objects(k)
  BY Capacities, KmemConstants DEF GoodCache
<1>1. PICK q : q = NewPage(b)
  OBVIOUS
<1>2. q \in SlabPage /\ q.base = b /\ q.bitmap = {0}
  BY <1>1 DEF SlabPage, NewPage
<1>3. /\ t \in Seq(SlabPage) /\ Len(t) = Len(s) + 1 /\ t[Len(s) + 1] = q
      /\ \A j \in 1 .. Len(s) : t[j] = s[j]
  BY <1>0, <1>1, <1>2 DEF Grown
<1>4. \A j \in 1 .. Len(t) : j = Len(s) + 1 \/ j \in 1 .. Len(s)
  BY <1>0, <1>3
<1>5. \A j \in 1 .. Len(s) : s[j].base # b /\ ~is_empty(s[j])
  BY <1>0 DEF HasBase, is_full, is_empty
<1>6. GoodCache(k, t)
  <2>1. \A j \in 1 .. Len(t) : t[j].bitmap \subseteq Objects(k)
    BY <1>0, <1>2, <1>3, <1>4 DEF GoodCache
  <2>2. \A j, m \in 1 .. Len(t) : t[j].base = t[m].base => j = m
    BY <1>2, <1>3, <1>4, <1>5 DEF GoodCache
  <2>3. \A j \in 1 .. Len(t) : ~is_empty(t[j])
    BY <1>2, <1>3, <1>4, <1>5 DEF is_empty
  <2>4. Len(t) <= MAX_SLABS_PER_SIZE
    BY <1>0, <1>3
  <2> QED
    BY <1>3, <2>1, <2>2, <2>3, <2>4 DEF GoodCache
<1>7. Len(s) + 1 \in 1 .. Len(t) /\ 1 .. Len(s) \subseteq 1 .. Len(t)
  BY <1>0, <1>3
<1>8. ASSUME NEW x PROVE HasBase(t, x) <=> HasBase(s, x) \/ x = b
  BY <1>2, <1>3, <1>4, <1>7 DEF HasBase
<1>9. ASSUME NEW x, NEW y PROVE HasBit(t, x, y) <=> HasBit(s, x, y) \/ (x = b /\ y = 0)
  BY <1>2, <1>3, <1>4, <1>7 DEF HasBit
<1> QED
  BY <1>6, <1>8, <1>9

LEMMA ClearBit ==
  ASSUME NEW k \in Caches, NEW s, GoodCache(k, s), NEW i \in 1 .. Len(s), NEW o,
         NEW t, t = BitCleared(s, i, o)
  PROVE  /\ t \in Seq(SlabPage) /\ Len(t) = Len(s) /\ t[i].bitmap = s[i].bitmap \ {o}
         /\ \A j \in 1 .. Len(s) : t[j].base = s[j].base /\ (j # i => t[j] = s[j])
         /\ ~(is_empty(t[i]) /\ HasOtherEmpty(t, i)) => GoodCache(k, t)
         /\ \A x : HasBase(t, x) <=> HasBase(s, x)
         /\ \A x : \A y : HasBit(t, x, y) <=> HasBit(s, x, y) /\ ~(x = s[i].base /\ y = o)
<1>0. s \in Seq(SlabPage)
  BY DEF GoodCache
<1>1. PICK q : q = [s[i] EXCEPT !.bitmap = @ \ {o}]
  OBVIOUS
<1>2. q \in SlabPage /\ q.base = s[i].base /\ q.bitmap = s[i].bitmap \ {o}
  BY <1>0, <1>1, PageType DEF SlabPage
<1>3. t = ReplaceAt(s, i, q)
  BY <1>1 DEF ReplaceAt, BitCleared
<1>4. /\ t \in Seq(SlabPage) /\ Len(t) = Len(s) /\ t[i] = q
      /\ \A j \in 1 .. Len(s) : t[j].base = s[j].base /\ (j # i => t[j] = s[j])
  <2>1. s \in Seq(SlabPage) /\ q \in SlabPage /\ q.base = s[i].base
    BY <1>0, <1>2
  <2>2. Replaced(s, ReplaceAt(s, i, q), i, q)
    BY <2>1, Replace
  <2>3. Replaced(s, t, i, q)
    BY <1>3, <2>2
  <2> QED
    BY <2>3 DEF Replaced
<1>5. ASSUME ~(is_empty(t[i]) /\ HasOtherEmpty(t, i)) PROVE GoodCache(k, t)
  <2>1. \A j \in 1 .. Len(t) : t[j].bitmap \subseteq Objects(k)
    BY <1>2, <1>4 DEF GoodCache
  <2>2. \A j, m \in 1 .. Len(t) : t[j].base = t[m].base => j = m
    BY <1>4 DEF GoodCache
  <2>3. \A j, m \in 1 .. Len(t) : is_empty(t[j]) /\ is_empty(t[m]) => j = m
    BY <1>4, <1>5 DEF GoodCache, HasOtherEmpty
  <2> QED
    BY <1>4, <2>1, <2>2, <2>3 DEF GoodCache
<1>6. \A x : HasBase(t, x) <=> HasBase(s, x)
  BY <1>4 DEF HasBase
<1>7. \A j, m \in 1 .. Len(s) : s[j].base = s[m].base => j = m
  BY DEF GoodCache
<1>8. ASSUME NEW x, NEW y PROVE HasBit(t, x, y) <=> HasBit(s, x, y) /\ ~(x = s[i].base /\ y = o)
  <2>1. ASSUME HasBit(t, x, y) PROVE HasBit(s, x, y) /\ ~(x = s[i].base /\ y = o)
    <3>1. PICK j \in 1 .. Len(t) : t[j].base = x /\ y \in t[j].bitmap
      BY <2>1 DEF HasBit
    <3>2. CASE j = i
      BY <1>2, <1>4, <3>1, <3>2 DEF HasBit
    <3>3. CASE j # i
      BY <1>4, <1>7, <3>1, <3>3 DEF HasBit
    <3> QED
      BY <3>2, <3>3
  <2>2. ASSUME HasBit(s, x, y), ~(x = s[i].base /\ y = o) PROVE HasBit(t, x, y)
    <3>1. PICK j \in 1 .. Len(s) : s[j].base = x /\ y \in s[j].bitmap
      BY <2>2 DEF HasBit
    <3>2. t[j].base = x /\ y \in t[j].bitmap
      BY <1>2, <1>4, <2>2, <3>1
    <3> QED
      BY <1>4, <3>1, <3>2 DEF HasBit
  <2> QED
    BY <2>1, <2>2
<1> QED
  BY <1>2, <1>4, <1>5, <1>6, <1>8

(* SlabCache::compact. *)
LEMMA Removed ==
  ASSUME NEW S, NEW t \in Seq(S), NEW i \in 1 .. Len(t)
  PROVE  /\ RemoveAt(t, i) \in Seq(S) /\ Len(RemoveAt(t, i)) = Len(t) - 1
         /\ \A j \in 1 .. Len(t) - 1 : /\ j < i => RemoveAt(t, i)[j] = t[j]
                                       /\ j >= i => RemoveAt(t, i)[j] = t[j + 1]
<1>0. Len(t) \in Nat /\ i \in Nat /\ 1 <= i /\ i <= Len(t)
  OBVIOUS
<1>1. PICK u, v : u = SubSeq(t, 1, i - 1) /\ v = SubSeq(t, i + 1, Len(t))
  OBVIOUS
<1>2. u \in Seq(S) /\ Len(u) = i - 1 /\ \A j \in 1 .. i - 1 : u[j] = t[j]
  BY <1>0, <1>1
<1>3. v \in Seq(S) /\ Len(v) = Len(t) - i /\ \A j \in 1 .. Len(t) - i : v[j] = t[i + j]
  BY <1>0, <1>1
<1>4. RemoveAt(t, i) = u \o v
  BY <1>1 DEF RemoveAt
<1>5. u \o v \in Seq(S) /\ Len(u \o v) = Len(t) - 1
  <2>0. \A x, y \in Seq(S) : x \o y \in Seq(S) /\ Len(x \o y) = Len(x) + Len(y)
    OBVIOUS
  <2>1. u \o v \in Seq(S) /\ Len(u \o v) = Len(u) + Len(v)
    BY <1>2, <1>3, <2>0
  <2>2. Len(u) + Len(v) = Len(t) - 1
    BY <1>0, <1>2, <1>3
  <2> QED
    BY <2>1, <2>2
<1>6. ASSUME NEW j \in 1 .. Len(t) - 1, j < i PROVE (u \o v)[j] = t[j]
  BY <1>0, <1>2, <1>3, <1>6
<1>7. ASSUME NEW j \in 1 .. Len(t) - 1, j >= i PROVE (u \o v)[j] = t[j + 1]
  <2>1. (u \o v)[j] = v[j - (i - 1)]
    BY <1>0, <1>2, <1>3, <1>7
  <2>2. j - (i - 1) \in 1 .. Len(t) - i /\ i + (j - (i - 1)) = j + 1
    BY <1>0, <1>7
  <2> QED
    BY <1>3, <2>1, <2>2
<1> QED
  BY <1>4, <1>5, <1>6, <1>7

LEMMA DropPage ==
  ASSUME NEW k \in Caches, NEW s, GoodCache(k, s), NEW i \in 1 .. Len(s), NEW o,
         NEW t, t = BitCleared(s, i, o), is_empty(t[i]),
         NEW r, r = CompactAfter(t, i)
  PROVE  /\ GoodCache(k, r)
         /\ \A x : HasBase(r, x) <=> HasBase(s, x) /\ x # s[i].base
         /\ \A x : \A y : HasBit(r, x, y) <=> HasBit(s, x, y) /\ ~(x = s[i].base /\ y = o)
<1>0. /\ s \in Seq(SlabPage) /\ Len(s) \in Nat /\ i \in Nat /\ i >= 1 /\ i <= Len(s)
      /\ MAX_SLABS_PER_SIZE \in Nat /\ Len(s) <= MAX_SLABS_PER_SIZE
  BY KmemConstants DEF GoodCache
<1>1. /\ t \in Seq(SlabPage) /\ Len(t) = Len(s) /\ t[i].bitmap = s[i].bitmap \ {o}
      /\ \A j \in 1 .. Len(s) : t[j].base = s[j].base /\ (j # i => t[j] = s[j])
      /\ \A x : \A y : HasBit(t, x, y) <=> HasBit(s, x, y) /\ ~(x = s[i].base /\ y = o)
  BY ClearBit
<1>a. PICK f : f = [j \in 1 .. Len(s) - 1 |-> IF j < i THEN j ELSE j + 1]
  OBVIOUS
<1>2. /\ r \in Seq(SlabPage) /\ Len(r) = Len(s) - 1
      /\ \A j \in 1 .. Len(s) - 1 : r[j] = t[f[j]]
  <2>1. r = RemoveAt(t, i)
    BY DEF CompactAfter
  <2>2. /\ RemoveAt(t, i) \in Seq(SlabPage) /\ Len(RemoveAt(t, i)) = Len(t) - 1
        /\ \A j \in 1 .. Len(t) - 1 : /\ j < i => RemoveAt(t, i)[j] = t[j]
                                      /\ j >= i => RemoveAt(t, i)[j] = t[j + 1]
    <3>1. t \in Seq(SlabPage) /\ i \in 1 .. Len(t)
      BY <1>1
    <3> QED
      BY <3>1, Removed
  <2>3. ASSUME NEW j \in 1 .. Len(s) - 1 PROVE r[j] = t[f[j]]
    <3>1. j \in 1 .. Len(t) - 1
      BY <1>1
    <3>2. (j < i => f[j] = j) /\ (j >= i => f[j] = j + 1) /\ (j < i \/ j >= i)
      BY <1>0, <1>a
    <3> QED
      BY <2>1, <2>2, <3>1, <3>2
  <2>4. r \in Seq(SlabPage) /\ Len(r) = Len(s) - 1
    BY <1>1, <2>1, <2>2
  <2> QED
    BY <2>3, <2>4
<1>3. \A j \in 1 .. Len(s) - 1 : f[j] \in 1 .. Len(s) /\ f[j] # i
  BY <1>0, <1>a
<1>4. \A j, m \in 1 .. Len(s) - 1 : f[j] = f[m] => j = m
  BY <1>0, <1>a
<1>5. \A j \in 1 .. Len(s) : j # i => \E m \in 1 .. Len(s) - 1 : f[m] = j
  <2> TAKE j \in 1 .. Len(s)
  <2> HAVE j # i
  <2>1. CASE j < i
    <3>1. j \in 1 .. Len(s) - 1 /\ f[j] = j
      BY <1>0, <1>a, <2>1
    <3> QED
      BY <3>1
  <2>2. CASE j > i
    <3>1. j - 1 \in 1 .. Len(s) - 1 /\ f[j - 1] = j
      BY <1>0, <1>a, <2>2
    <3> QED
      BY <3>1
  <2> QED
    BY <1>0, <2>1, <2>2
<1>6. \A j \in 1 .. Len(r) : f[j] \in 1 .. Len(s) /\ f[j] # i /\ r[j] = s[f[j]]
  BY <1>1, <1>2, <1>3
<1>7. GoodCache(k, r)
  <2>1. \A j \in 1 .. Len(r) : r[j].bitmap \subseteq Objects(k)
    BY <1>6 DEF GoodCache
  <2>a. ASSUME NEW j \in 1 .. Len(r), NEW m \in 1 .. Len(r), f[j] = f[m] PROVE j = m
    BY <1>2, <1>4, <2>a
  <2>2. ASSUME NEW j \in 1 .. Len(r), NEW m \in 1 .. Len(r), r[j].base = r[m].base PROVE j = m
    <3>1. f[j] = f[m]
      BY <1>6, <2>2 DEF GoodCache
    <3> QED
      BY <2>a, <3>1
  <2>3. ASSUME NEW j \in 1 .. Len(r), NEW m \in 1 .. Len(r), is_empty(r[j]), is_empty(r[m]) PROVE j = m
    <3>1. f[j] = f[m]
      BY <1>6, <2>3 DEF GoodCache
    <3> QED
      BY <2>a, <3>1
  <2>4. Len(r) <= MAX_SLABS_PER_SIZE
    BY <1>0, <1>2
  <2> QED
    BY <1>2, <2>1, <2>2, <2>3, <2>4 DEF GoodCache
<1>8. ASSUME NEW j \in 1 .. Len(s), j # i PROVE \E m \in 1 .. Len(r) : r[m] = s[j]
  <2>1. PICK m \in 1 .. Len(s) - 1 : f[m] = j
    BY <1>5, <1>8
  <2>2. m \in 1 .. Len(r)
    BY <1>2, <2>1
  <2>3. r[m] = s[f[m]]
    BY <1>6, <2>2
  <2> QED
    BY <2>1, <2>2, <2>3
<1>9. \A j, m \in 1 .. Len(s) : s[j].base = s[m].base => j = m
  BY DEF GoodCache
<1>10. ASSUME NEW x PROVE HasBase(r, x) <=> HasBase(s, x) /\ x # s[i].base
  <2>1. HasBase(r, x) => HasBase(s, x) /\ x # s[i].base
    BY <1>6, <1>9 DEF HasBase
  <2>2. HasBase(s, x) /\ x # s[i].base => HasBase(r, x)
    BY <1>8 DEF HasBase
  <2> QED
    BY <2>1, <2>2
<1>11. ASSUME NEW x, NEW y PROVE HasBit(r, x, y) <=> HasBit(s, x, y) /\ ~(x = s[i].base /\ y = o)
  <2>1. HasBit(r, x, y) => HasBit(s, x, y) /\ ~(x = s[i].base /\ y = o)
    BY <1>6, <1>9 DEF HasBit
  <2>2. ASSUME HasBit(s, x, y), ~(x = s[i].base /\ y = o) PROVE HasBit(r, x, y)
    <3>1. PICK j \in 1 .. Len(s) : t[j].base = x /\ y \in t[j].bitmap
      BY <1>1, <2>2 DEF HasBit
    <3>2. j # i
      BY <3>1 DEF is_empty
    <3>3. s[j].base = x /\ y \in s[j].bitmap
      BY <1>1, <3>1, <3>2
    <3> QED
      BY <1>8, <3>2, <3>3 DEF HasBit
  <2> QED
    BY <2>1, <2>2
<1> QED
  BY <1>7, <1>10, <1>11

-----------------------------------------------------------------------------
LEMMA CacheFits ==
  ASSUME NEW size \in 1 .. SlabMax
  PROVE  CacheFor(size) \in Caches /\ size <= SLAB_SIZES[CacheFor(size)] /\ size \in Nat \ {0}
<1>1. PICK S : S = {k \in Caches : SLAB_SIZES[k] >= size}
  OBVIOUS
<1>2. S \in SUBSET Nat /\ Len(SLAB_SIZES) \in S /\ size \in Nat \ {0}
  BY <1>1, CacheSizes DEF SlabMax
<1>3. Lowest(S) \in S
  BY <1>2, LowestIn
<1>4. CacheFor(size) = Lowest(S)
  BY <1>1 DEF CacheFor
<1> QED
  BY <1>1, <1>2, <1>3, <1>4, CacheSizes

LEMMA StepObject ==
  ASSUME KmemInv, NEW c \in Callers, NEW size, KmallocObject(c, size)
  PROVE  KmemInv'
<1>0. CachesInv /\ OwnersInv
  BY DEF KmemInv
<1>1. PICK k, s : k = CacheFor(size) /\ s = caches[k]
  OBVIOUS
<1>2. PICK i : i = Lowest(NonFull(k))
  OBVIOUS
<1>3. PICK o, b : o = FreeObject(k, s[i]) /\ b = s[i].base
  OBVIOUS
<1>4. /\ held[c] = NoBlock /\ size \in 1 .. SlabMax /\ NonFull(k) # {} /\ pool' = pool
      /\ caches' = [caches EXCEPT ![k][i].bitmap = @ \cup {o}]
      /\ Give(c, ObjectAddr(k, s[i], o), size)
  BY <1>1, <1>2, <1>3 DEF KmallocObject
<1>5. k \in Caches /\ size <= SLAB_SIZES[k] /\ size \in Nat \ {0} /\ GoodCache(k, s)
  BY <1>0, <1>1, <1>4, CacheFits DEF CachesInv
<1>6. i \in 1 .. Len(s) /\ ~is_full(k, s[i])
  <2>1. NonFull(k) \in SUBSET Nat
    BY DEF NonFull
  <2>2. i \in NonFull(k)
    BY <1>2, <1>4, <2>1, LowestIn
  <2> QED
    BY <1>1, <2>2 DEF NonFull
<1>7. o \in Objects(k) /\ o \notin s[i].bitmap
  <2>1. Objects(k) \ s[i].bitmap \in SUBSET Nat /\ Objects(k) \ s[i].bitmap # {}
    BY <1>5, <1>6, Capacities DEF is_full
  <2> QED
    BY <1>3, <2>1, LowestIn DEF FreeObject
<1>8. b \in Pages /\ b \in Nat
  BY <1>3, <1>5, <1>6, PageType DEF GoodCache
<1>9. PICK t : t = BitSet(s, i, o)
  OBVIOUS
<1>10. caches' = [caches EXCEPT ![k] = t]
  BY <1>1, <1>4, <1>9 DEF BitSet
<1>11. /\ GoodCache(k, t)
       /\ \A x : HasBase(t, x) <=> HasBase(s, x)
       /\ \A x : \A y : HasBit(t, x, y) <=> HasBit(s, x, y) \/ (x = b /\ y = o)
  BY <1>3, <1>5, <1>6, <1>7, <1>9, SetBit
<1>12. /\ CachesInv'
       /\ \A x : Slab(k, x)' <=> HasBase(t, x)
       /\ \A x : \A y : Bit(k, x, y)' <=> HasBit(t, x, y)
       /\ \A l \in Caches : l # k => /\ \A x : Slab(l, x)' <=> Slab(l, x)
                                     /\ \A x : \A y : Bit(l, x, y)' <=> Bit(l, x, y)
  BY <1>0, <1>5, <1>10, <1>11, PutCache
<1>13. Slab(k, b) /\ ~Bit(k, b, o)
  <2>1. \A j \in 1 .. Len(s) : s[j].base = b => j = i
    BY <1>3, <1>5, <1>6 DEF GoodCache
  <2>2. HasBase(s, b) /\ ~HasBit(s, b, o)
    BY <1>3, <1>6, <1>7, <2>1 DEF HasBase, HasBit
  <2> QED
    BY <1>1, <2>2 DEF Slab, Bit
<1>14. Gives(c, b * PAGE_SIZE + o * SLAB_SIZES[k], size)
  <2>1. b * PAGE_SIZE + o * SLAB_SIZES[k] \in Nat
    BY <1>5, <1>7, <1>8, ObjectPage
  <2> QED
    BY <1>3, <1>4, <1>5, <2>1 DEF Gives, Give, ObjectAddr
<1>15. pool' = pool \ {b}
  BY <1>0, <1>4, <1>5, <1>13 DEF OwnersInv, SlabsInv
<1>16. \A l \in Caches : \A x : Slab(l, x)' <=> Slab(l, x) \/ (l = k /\ x = b)
  BY <1>1, <1>11, <1>12, <1>13 DEF Slab
<1>17. \A l \in Caches : \A x : \A y : Bit(l, x, y)' <=> Bit(l, x, y) \/ (l = k /\ x = b /\ y = o)
  BY <1>1, <1>11, <1>12 DEF Bit
<1>18. GivesObject(c, size, k, b, o)
  BY <1>5, <1>7, <1>8, <1>13, <1>14, <1>15, <1>16, <1>17 DEF GivesObject
<1> QED
  BY <1>0, <1>12, <1>18, ObjectGiven DEF KmemInv

(* What alloc_pages returns is a page of the region. *)
LEMMA GotPages ==
  ASSUME NEW order \in Nat, GetPages(order)
  PROVE  /\ AllocatedPage(bitmap, order) \in Nat
         /\ AllocatedPage(bitmap, order) + Shl[order] <= TotalPages
         /\ UsableOrders(bitmap, order) # {}
<1>1. UsableOrders(bitmap, order) # {}
  BY DEF GetPages, AllocPages, NoRoom
<1> QED
  BY <1>1, FoundFits DEF Fits

LEMMA OnePage ==
  ASSUME NEW p \in Nat
  PROVE  Block(p, 0) = {p}
<1>1. p .. p + 1 - 1 = {p}
  OBVIOUS
<1> QED
  BY <1>1, ShlFacts DEF Block

LEMMA StepNewSlab ==
  ASSUME KmemInv, clean', NEW c \in Callers, NEW size, KmallocNewSlab(c, size)
  PROVE  KmemInv'
<1>0. CachesInv /\ OwnersInv
  BY DEF KmemInv
<1>1. PICK k, s : k = CacheFor(size) /\ s = caches[k]
  OBVIOUS
<1>2. PICK b \in pool :
         /\ b \in Nat /\ pool' = pool \ {b}
         /\ caches' = [caches EXCEPT ![k] = Append(@, [base |-> b, bitmap |-> {0}])]
         /\ Give(c, b * PAGE_SIZE, size)
  <2>1. GetPages(0)
    BY DEF KmallocNewSlab
  <2>2. PICK b \in Nat : b = AllocatedPage(bitmap, 0)
    BY <2>1, GotPages
  <2>3. Block(b, 0) = {b}
    BY OnePage
  <2>4. b \in pool /\ pool' = pool \ {b}
    BY <2>1, <2>2, <2>3 DEF GetPages
  <2> QED
    BY <1>1, <2>2, <2>4 DEF KmallocNewSlab
<1>3. /\ held[c] = NoBlock /\ size \in 1 .. SlabMax /\ NonFull(k) = {} /\ Len(s) < MAX_SLABS_PER_SIZE
  BY <1>1 DEF KmallocNewSlab
<1>4. k \in Caches /\ size <= SLAB_SIZES[k] /\ size \in Nat \ {0} /\ GoodCache(k, s)
  BY <1>0, <1>1, <1>3, CacheFits DEF CachesInv
<1>5. b \in pool /\ b \in Pages /\ b \in Nat /\ 0 \in Objects(k)
  BY <1>0, <1>2, <1>4, Capacities DEF OwnersInv, SlabsInv
<1>6. \A i \in 1 .. Len(s) : is_full(k, s[i])
  BY <1>1, <1>3 DEF NonFull
<1>7. \A l \in Caches : ~Slab(l, b)
  BY <1>0, <1>5 DEF OwnersInv, SlabsInv
<1>8. ~HasBase(s, b)
  BY <1>1, <1>4, <1>7 DEF Slab
<1>9. PICK t : t = Grown(s, b)
  OBVIOUS
<1>10. caches' = [caches EXCEPT ![k] = t]
  BY <1>1, <1>2, <1>9 DEF NewPage, Grown
<1>11. /\ GoodCache(k, t)
       /\ \A x : HasBase(t, x) <=> HasBase(s, x) \/ x = b
       /\ \A x : \A y : HasBit(t, x, y) <=> HasBit(s, x, y) \/ (x = b /\ y = 0)
  <2>1. CanGrow(k, s, b)
    BY <1>3, <1>4, <1>5, <1>6, <1>8 DEF CanGrow
  <2> QED
    BY <1>9, <2>1, AddPage
<1>12. /\ CachesInv'
       /\ \A x : Slab(k, x)' <=> HasBase(t, x)
       /\ \A x : \A y : Bit(k, x, y)' <=> HasBit(t, x, y)
       /\ \A l \in Caches : l # k => /\ \A x : Slab(l, x)' <=> Slab(l, x)
                                     /\ \A x : \A y : Bit(l, x, y)' <=> Bit(l, x, y)
  BY <1>0, <1>4, <1>10, <1>11, PutCache
<1>13. ~Bit(k, b, 0)
  BY <1>4, <1>7 DEF Bit, Slab, HasBit, HasBase
<1>14. Gives(c, b * PAGE_SIZE + 0 * SLAB_SIZES[k], size)
  <2>1. b * PAGE_SIZE + 0 * SLAB_SIZES[k] \in Nat
    BY <1>4, <1>5, ObjectPage
  <2>2. b * PAGE_SIZE + 0 * SLAB_SIZES[k] = b * PAGE_SIZE
    <3>1. PICK x \in Nat, y \in Nat : x = SLAB_SIZES[k] /\ y = PAGE_SIZE
      BY <1>4, CacheSizes
    <3>2. b * y + 0 * x = b * y
      BY <1>5
    <3> QED
      BY <3>1, <3>2
  <2> QED
    BY <1>2, <1>3, <1>4, <2>1, <2>2 DEF Gives, Give
<1>15. \A l \in Caches : \A x : Slab(l, x)' <=> Slab(l, x) \/ (l = k /\ x = b)
  BY <1>1, <1>11, <1>12 DEF Slab
<1>16. \A l \in Caches : \A x : \A y : Bit(l, x, y)' <=> Bit(l, x, y) \/ (l = k /\ x = b /\ y = 0)
  BY <1>1, <1>11, <1>12 DEF Bit
<1>17. GivesObject(c, size, k, b, 0)
  BY <1>2, <1>4, <1>5, <1>13, <1>14, <1>15, <1>16 DEF GivesObject
<1> QED
  BY <1>0, <1>12, <1>17, ObjectGiven DEF KmemInv

(* Whole pages, for kmalloc and for kmalloc_aligned. *)
LEMMA StepPages ==
  ASSUME KmemInv, clean', NEW c \in Callers, NEW size \in Nat \ {0}, held[c] = NoBlock,
         NEW order, order = OrderOf(size), TakePages(c, size, order)
  PROVE  KmemInv'
<1>0. CachesInv /\ OwnersInv
  BY DEF KmemInv
<1>a. GetPages(order) /\ order \in Nat
  BY OrderHolds DEF TakePages
<1>1. PICK p \in Nat :
         /\ pool' = pool \ Block(p, order) /\ Block(p, order) \subseteq pool
         /\ Give(c, p * PAGE_SIZE, size)
  <2>1. PICK p \in Nat : p = AllocatedPage(bitmap, order)
    BY <1>a, GotPages
  <2> QED
    BY <1>a, <2>1 DEF GetPages, TakePages
<1>2. p \in Nat /\ Block(p, OrderOf(size)) \subseteq pool
  BY <1>1
<1>3. caches' = caches
  BY DEF TakePages
<1>4. \A l \in Caches : \A x : Slab(l, x)' <=> Slab(l, x)
  BY <1>3 DEF Slab
<1>5. \A l \in Caches : \A x : \A y : Bit(l, x, y)' <=> Bit(l, x, y)
  BY <1>3 DEF Bit
<1>6. p * PAGE_SIZE \in Nat
  <2>1. PICK y \in Nat : y = PAGE_SIZE
    BY CacheSizes
  <2>2. p * y \in Nat
    BY <1>2
  <2> QED
    BY <2>1, <2>2
<1>7. GivesBlock(c, size, p)
  BY <1>1, <1>2, <1>4, <1>5, <1>6 DEF GivesBlock, Gives, Give
<1>8. CachesInv'
  BY <1>0, <1>3 DEF CachesInv
<1> QED
  BY <1>0, <1>7, <1>8, BlockGiven DEF KmemInv

-----------------------------------------------------------------------------
(* kfree looks an address up in the pages of the caches: it finds the page  *)
(* of an object, and nothing for a block of pages.                          *)
LEMMA Contained ==
  ASSUME KmemInv, NEW c \in Holders, NEW k \in Caches, NEW i \in 1 .. Len(caches[k])
  PROVE  contains(k, caches[k][i], held[c].addr) => caches[k][i].base = PageOf(c)
<1>1. PICK b \in Nat : b = caches[k][i].base
  <2>1. PICK s : s = caches[k]
    OBVIOUS
  <2>2. s \in Seq(SlabPage) /\ i \in 1 .. Len(s)
    BY <2>1 DEF KmemInv, CachesInv, GoodCache
  <2>3. s[i].base \in Nat
    BY <2>2, PageType
  <2> QED
    BY <2>1, <2>3
<1>2. PICK p \in Nat \ {0}, n \in Nat : p = PAGE_SIZE /\ n = Capacity(k) * SLAB_SIZES[k] /\ n <= p
  BY Capacities, CacheSizes
<1>3. PICK a \in Nat : a = held[c].addr
  BY Held DEF KmemInv, OwnersInv
<1>4. ASSUME a \in b * p .. b * p + n - 1 PROVE a \div p = b
  <2>1. PICK z \in Nat : z = b * p /\ z = p * b
    OBVIOUS
  <2>2. p * b <= a /\ a < p * b + p
    BY <1>2, <1>4, <2>1
  <2> QED
    BY <2>2, Quotient
<1> QED
  BY <1>1, <1>2, <1>3, <1>4 DEF contains, PageOf

LEMMA NotInCaches ==
  ASSUME KmemInv, NEW c \in Holders, Direct(c)
  PROVE  CachesWith(held[c].addr) = {}
<1> SUFFICES ASSUME NEW k \in Caches, NEW i \in PagesWith(k, held[c].addr) PROVE FALSE
  BY DEF CachesWith
<1>1. i \in 1 .. Len(caches[k]) /\ contains(k, caches[k][i], held[c].addr)
  BY DEF PagesWith
<1>2. caches[k][i].base = PageOf(c)
  BY <1>1, Contained
<1> QED
  BY <1>1, <1>2 DEF Direct, Slab, HasBase

LEMMA InCaches ==
  ASSUME KmemInv, NEW c \in Holders, ~Direct(c)
  PROVE  /\ held[c].size <= SlabMax /\ CachesWith(held[c].addr) # {}
         /\ \A k \in Caches : \A i \in PagesWith(k, held[c].addr) :
               \E o \in Objects(k) :
                  held[c].addr = caches[k][i].base * PAGE_SIZE + o * SLAB_SIZES[k]
<1>0. CachesInv /\ OwnersInv
  BY DEF KmemInv
<1>1. PICK k \in Caches, b \in Nat : \E o \in Objects(k) :
         /\ Bit(k, b, o)
         /\ held[c].addr = b * PAGE_SIZE + o * SLAB_SIZES[k]
         /\ held[c].size <= SLAB_SIZES[k]
  BY <1>0 DEF OwnersInv, HeldInv, HoldsObject
<1>2. PICK o \in Objects(k) : /\ Bit(k, b, o)
                              /\ held[c].addr = b * PAGE_SIZE + o * SLAB_SIZES[k]
                              /\ held[c].size <= SLAB_SIZES[k]
  BY <1>1
<1>3. PICK s : s = caches[k]
  OBVIOUS
<1>4. PICK i \in 1 .. Len(s) : s[i].base = b
  BY <1>2, <1>3 DEF Bit, HasBit
<1>6. held[c].size <= SlabMax
  <2>1. held[c].size \in Nat
    BY <1>0, Held DEF OwnersInv
  <2> QED
    BY <1>2, <2>1, CacheSizes
<1>7. PageOf(c) = b
  BY <1>2, ObjectPage DEF PageOf
<1>8. contains(k, s[i], held[c].addr)
  <2>1. PICK z \in Nat, x \in Nat, w \in Nat, n \in Nat :
           z = b * PAGE_SIZE /\ x = o * SLAB_SIZES[k] /\ w = SLAB_SIZES[k] /\ w # 0
           /\ n = Capacity(k) * SLAB_SIZES[k]
    <3>1. PICK p \in Nat, w \in Nat \ {0} : p = PAGE_SIZE /\ w = SLAB_SIZES[k]
      BY CacheSizes
    <3>2. o \in Nat /\ Capacity(k) * SLAB_SIZES[k] \in Nat
      BY Capacities
    <3>3. b * p \in Nat /\ o * w \in Nat
      BY <3>2
    <3> QED
      BY <3>1, <3>2, <3>3
  <2>2. x + w <= n
    BY <2>1, Capacities
  <2>a. w # 0
    BY <2>1
  <2>3. z + x \in z .. z + n - 1
    BY <2>2, <2>a
  <2> QED
    BY <1>2, <1>4, <2>1, <2>3 DEF contains
<1>9. k \in CachesWith(held[c].addr)
  BY <1>3, <1>4, <1>8 DEF CachesWith, PagesWith
<1>10. ASSUME NEW l \in Caches, NEW j \in PagesWith(l, held[c].addr)
       PROVE  l = k /\ caches[l][j].base = b
  <2>1. j \in 1 .. Len(caches[l]) /\ contains(l, caches[l][j], held[c].addr)
    BY DEF PagesWith
  <2>2. caches[l][j].base = b
    BY <1>7, <2>1, Contained
  <2>3. Slab(l, b) /\ Slab(k, b)
    BY <1>3, <1>4, <2>1, <2>2 DEF Slab, HasBase
  <2>4. l = k
    BY <1>0, <2>3 DEF OwnersInv, SlabsInv
  <2> QED
    BY <2>2, <2>4
<1> QED
  BY <1>2, <1>6, <1>9, <1>10

(* SlabCache::free. *)
LEMMA StepSlabFree ==
  ASSUME KmemInv, NEW c \in Holders, held' = [held EXCEPT ![c] = NoBlock],
         NEW k \in Caches, NEW i \in 1 .. Len(caches[k]), NEW o \in Objects(k),
         held[c].addr = caches[k][i].base * PAGE_SIZE + o * SLAB_SIZES[k],
         SlabFree(held[c].addr, k, i)
  PROVE  KmemInv'
<1>0. CachesInv /\ OwnersInv
  BY DEF KmemInv
<1>1. PICK s, b : s = caches[k] /\ b = s[i].base
  OBVIOUS
<1>2. GoodCache(k, s) /\ s \in Seq(SlabPage) /\ i \in 1 .. Len(s)
  BY <1>0, <1>1 DEF CachesInv, GoodCache
<1>3. b \in Pages /\ b \in Nat
  BY <1>1, <1>2, PageType
<1>4. held[c].addr = b * PAGE_SIZE + o * SLAB_SIZES[k]
      /\ (held[c].addr - b * PAGE_SIZE) \div SLAB_SIZES[k] = o
  BY <1>1, <1>3, ObjectPage
<1>5. PICK t : t = BitCleared(s, i, o)
  OBVIOUS
<1>6. IF is_empty(t[i]) /\ HasOtherEmpty(t, i)
      THEN caches' = [caches EXCEPT ![k] = CompactAfter(t, i)] /\ pool' = pool \cup {b}
      ELSE caches' = [caches EXCEPT ![k] = t] /\ pool' = pool
  <2>1. Block(b, 0) = {b}
    BY <1>3, OnePage
  <2> QED
    BY <1>1, <1>4, <1>5, <2>1 DEF SlabFree, BitCleared, PutPages
<1>7. Slab(k, b) /\ Returns(c)
  BY <1>1, <1>2 DEF Slab, HasBase, Returns
<1>8. CASE is_empty(t[i]) /\ HasOtherEmpty(t, i)
  <2>1. PICK r : r = CompactAfter(t, i)
    OBVIOUS
  <2>2. /\ GoodCache(k, r)
        /\ \A x : HasBase(r, x) <=> HasBase(s, x) /\ x # b
        /\ \A x : \A y : HasBit(r, x, y) <=> HasBit(s, x, y) /\ ~(x = b /\ y = o)
    BY <1>1, <1>2, <1>5, <1>8, <2>1, DropPage
  <2>3. caches' = [caches EXCEPT ![k] = r] /\ pool' = pool \cup {b}
    BY <1>6, <1>8, <2>1
  <2>4. /\ CachesInv'
        /\ \A x : Slab(k, x)' <=> HasBase(r, x)
        /\ \A x : \A y : Bit(k, x, y)' <=> HasBit(r, x, y)
        /\ \A l \in Caches : l # k => /\ \A x : Slab(l, x)' <=> Slab(l, x)
                                      /\ \A x : \A y : Bit(l, x, y)' <=> Bit(l, x, y)
    BY <1>0, <2>2, <2>3, PutCache
  <2>5. \A l \in Caches : \A x : Slab(l, x)' <=> Slab(l, x) /\ ~(l = k /\ x = b)
    BY <1>1, <2>2, <2>4 DEF Slab
  <2>6. \A l \in Caches : \A x : \A y : Bit(l, x, y)' <=> Bit(l, x, y) /\ ~(l = k /\ x = b /\ y = o)
    BY <1>1, <2>2, <2>4 DEF Bit
  <2>7. ReturnsObject(c, k, b, o)
    BY <1>3, <1>4, <1>7, <2>3, <2>5, <2>6 DEF ReturnsObject
  <2>8. \A l \in Caches : \A x : \A y : Bit(l, x, y)' => Slab(l, x)'
    BY DEF Bit, Slab, HasBit, HasBase
  <2>9. OwnersInv'
    BY <1>0, <2>7, <2>8, ObjectReturned
  <2> QED
    BY <2>4, <2>9 DEF KmemInv
<1>9. CASE ~(is_empty(t[i]) /\ HasOtherEmpty(t, i))
  <2>2. /\ GoodCache(k, t)
        /\ \A x : HasBase(t, x) <=> HasBase(s, x)
        /\ \A x : \A y : HasBit(t, x, y) <=> HasBit(s, x, y) /\ ~(x = b /\ y = o)
    BY <1>1, <1>2, <1>5, <1>9, ClearBit
  <2>3. caches' = [caches EXCEPT ![k] = t] /\ pool' = pool
    BY <1>6, <1>9
  <2>4. /\ CachesInv'
        /\ \A x : Slab(k, x)' <=> HasBase(t, x)
        /\ \A x : \A y : Bit(k, x, y)' <=> HasBit(t, x, y)
        /\ \A l \in Caches : l # k => /\ \A x : Slab(l, x)' <=> Slab(l, x)
                                      /\ \A x : \A y : Bit(l, x, y)' <=> Bit(l, x, y)
    BY <1>0, <2>2, <2>3, PutCache
  <2>5. \A l \in Caches : \A x : Slab(l, x)' <=> Slab(l, x)
    BY <1>1, <2>2, <2>4 DEF Slab
  <2>6. \A l \in Caches : \A x : \A y : Bit(l, x, y)' <=> Bit(l, x, y) /\ ~(l = k /\ x = b /\ y = o)
    BY <1>1, <2>2, <2>4 DEF Bit
  <2>7. ReturnsObject(c, k, b, o)
    BY <1>3, <1>4, <1>7, <2>3, <2>5, <2>6 DEF ReturnsObject
  <2>8. \A l \in Caches : \A x : \A y : Bit(l, x, y)' => Slab(l, x)'
    BY DEF Bit, Slab, HasBit, HasBase
  <2>9. OwnersInv'
    BY <1>0, <2>7, <2>8, ObjectReturned
  <2> QED
    BY <2>4, <2>9 DEF KmemInv
<1> QED
  BY <1>8, <1>9

LEMMA StepFree ==
  ASSUME KmemInv, NEW c \in Callers, Kfree(c)
  PROVE  KmemInv'
<1>0. CachesInv /\ OwnersInv
  BY DEF KmemInv
<1>1. c \in Holders /\ held' = [held EXCEPT ![c] = NoBlock]
  BY DEF Kfree, Holders
<1>2. CASE ~Direct(c)
  <2>1. /\ held[c].size <= SlabMax /\ CachesWith(held[c].addr) # {}
        /\ \A k \in Caches : \A i \in PagesWith(k, held[c].addr) :
              \E o \in Objects(k) :
                 held[c].addr = caches[k][i].base * PAGE_SIZE + o * SLAB_SIZES[k]
    BY <1>1, <1>2, InCaches
  <2>2. PICK k \in CachesWith(held[c].addr) : k = Lowest(CachesWith(held[c].addr))
    <3>1. CachesWith(held[c].addr) \in SUBSET Nat
      BY CacheSizes DEF CachesWith
    <3> QED
      BY <2>1, <3>1, LowestIn
  <2>3. k \in Caches /\ PagesWith(k, held[c].addr) # {}
    BY DEF CachesWith
  <2>a. PICK i \in PagesWith(k, held[c].addr) : i = Lowest(PagesWith(k, held[c].addr))
    <3>1. PagesWith(k, held[c].addr) \in SUBSET Nat
      BY DEF PagesWith
    <3> QED
      BY <2>3, <3>1, LowestIn
  <2>b. i \in 1 .. Len(caches[k]) /\ SlabFree(held[c].addr, k, i)
    BY <2>1, <2>2, <2>a DEF Kfree, PagesWith
  <2>4. PICK o \in Objects(k) : held[c].addr = caches[k][i].base * PAGE_SIZE + o * SLAB_SIZES[k]
    BY <2>1, <2>3
  <2> QED
    BY <1>1, <2>3, <2>4, <2>b, StepSlabFree
<1>3. CASE Direct(c)
  <2>1. CachesWith(held[c].addr) = {}
    BY <1>1, <1>3, NotInCaches
  <2>2. pool' = pool \cup BlockOf(c) /\ caches' = caches
    BY <2>1 DEF Kfree, PutPages, BlockOf, PageOf
  <2>3. \A l \in Caches : \A x : Slab(l, x)' <=> Slab(l, x)
    BY <2>2 DEF Slab
  <2>4. \A l \in Caches : \A x : \A y : Bit(l, x, y)' <=> Bit(l, x, y)
    BY <2>2 DEF Bit
  <2>5. ReturnsBlock(c)
    BY <1>1, <1>3, <2>2, <2>3, <2>4 DEF ReturnsBlock, Returns
  <2>6. CachesInv'
    BY <1>0, <2>2 DEF CachesInv
  <2> QED
    BY <1>0, <2>5, <2>6, BlockReturned DEF KmemInv
<1> QED
  BY <1>2, <1>3

-----------------------------------------------------------------------------
LEMMA KmemStart == Init => KmemInv
<1> SUFFICES ASSUME Init PROVE KmemInv
  OBVIOUS
<1>1. /\ pool = Pages /\ caches = [k \in Caches |-> <<>>] /\ held = [c \in Callers |-> NoBlock]
  BY DEF Init
<1>2. \A k \in Caches : caches[k] = <<>>
  BY <1>1
<1>3. Holders = {}
  BY <1>1 DEF Holders
<1>4. \A k \in Caches : GoodCache(k, <<>>)
  BY KmemConstants DEF GoodCache
<1>5. \A k \in Caches : \A b : ~Slab(k, b) /\ \A o : ~Bit(k, b, o)
  BY <1>2 DEF Slab, Bit, HasBase, HasBit
<1>6. CachesInv
  BY <1>1, <1>2, <1>4 DEF CachesInv
<1>7. SlabsInv /\ ApartInv
  BY <1>1, <1>3, <1>5 DEF SlabsInv, ApartInv
<1>8. HeldInv
  BY <1>1, <1>3 DEF HeldInv
<1>9. FoundInv
  BY <1>1, <1>5 DEF FoundInv
<1> QED
  BY <1>6, <1>7, <1>8, <1>9 DEF KmemInv, OwnersInv

LEMMA KmemFrame ==
  ASSUME KmemInv, UNCHANGED vars
  PROVE  KmemInv'
<1>1. pool' = pool /\ caches' = caches /\ held' = held
  BY DEF vars
<1>2. /\ \A k, b : Slab(k, b)' = Slab(k, b)
      /\ \A k, b, o : Bit(k, b, o)' = Bit(k, b, o)
      /\ Holders' = Holders
      /\ \A c : PageOf(c)' = PageOf(c) /\ BlockOf(c)' = BlockOf(c)
  BY <1>1 DEF Slab, Bit, Holders, PageOf, BlockOf
<1>3. \A c : Direct(c)' = Direct(c) /\ HoldsBlock(c)' = HoldsBlock(c) /\ HoldsObject(c)' = HoldsObject(c)
  BY <1>1, <1>2 DEF Direct, HoldsBlock, HoldsObject
<1>4. CachesInv'
  BY <1>1 DEF KmemInv, CachesInv
<1>5. SlabsInv'
  BY <1>1, <1>2 DEF KmemInv, OwnersInv, SlabsInv
<1>6. HeldInv'
  BY <1>1, <1>2, <1>3 DEF KmemInv, OwnersInv, HeldInv
<1>7. ApartInv'
  BY <1>1, <1>2, <1>3 DEF KmemInv, OwnersInv, ApartInv
<1>8. FoundInv'
  BY <1>1, <1>2, <1>3 DEF KmemInv, OwnersInv, FoundInv
<1> QED
  BY <1>4, <1>5, <1>6, <1>7, <1>8 DEF KmemInv, OwnersInv

LEMMA KmemStep == KmemInv /\ clean' /\ [Next]_vars => KmemInv'
<1> SUFFICES ASSUME KmemInv, clean', [Next]_vars PROVE KmemInv'
  OBVIOUS
<1>1. CASE UNCHANGED vars
  BY <1>1, KmemFrame
<1>2. ASSUME NEW c \in Callers, NEW size \in Sizes,
             \/ KmallocObject(c, size) \/ KmallocNewSlab(c, size)
             \/ KmallocPages(c, size) \/ KmallocFails(c, size)
      PROVE  KmemInv'
  <2>1. CASE KmallocObject(c, size)
    BY <2>1, StepObject
  <2>2. CASE KmallocNewSlab(c, size)
    BY <2>2, StepNewSlab
  <2>3. CASE KmallocPages(c, size)
    <3>1. size \in Nat \ {0} /\ held[c] = NoBlock /\ TakePages(c, size, OrderOf(size))
      BY <2>3, KmemConstants DEF KmallocPages
    <3> QED
      BY <3>1, StepPages
  <2>4. CASE KmallocFails(c, size)
    BY <2>4, KmemFrame DEF KmallocFails
  <2> QED
    BY <1>2, <2>1, <2>2, <2>3, <2>4
<1>3. ASSUME NEW c \in Callers, NEW size \in AlignedSizes,
             KmallocAligned(c, size) \/ KmallocAlignedFails(c, size)
      PROVE  KmemInv'
  <2>1. CASE KmallocAligned(c, size)
    <3>1. size \in Nat \ {0} /\ held[c] = NoBlock
      BY <2>1, KmemConstants DEF KmallocAligned
    <3>2. PICK order : order = OrderOf(IF size < PAGE_SIZE THEN PAGE_SIZE ELSE size) /\ TakePages(c, size, order)
      BY <2>1 DEF KmallocAligned
    <3>3. order = OrderOf(size)
      BY <3>1, <3>2, AlignedOrder
    <3> QED
      BY <3>1, <3>2, <3>3, StepPages
  <2>2. CASE KmallocAlignedFails(c, size)
    BY <2>2, KmemFrame DEF KmallocAlignedFails
  <2> QED
    BY <1>3, <2>1, <2>2
<1>4. ASSUME NEW c \in Callers, Kfree(c) PROVE KmemInv'
  BY <1>4, StepFree
<1> QED
  BY <1>1, <1>2, <1>3, <1>4 DEF Next

(* A page that was given out twice is never forgotten. *)
LEMMA CleanFalls == [Next]_vars => (clean' => clean)
<1> USE DEF GetPages, PutPages
<1>1. CASE UNCHANGED vars
  BY <1>1 DEF vars
<1>2. ASSUME NEW c, NEW size, KmallocObject(c, size) \/ KmallocNewSlab(c, size) PROVE clean' => clean
  BY <1>2 DEF KmallocObject, KmallocNewSlab
<1>3. ASSUME NEW c, NEW size, KmallocPages(c, size) \/ KmallocAligned(c, size) PROVE clean' => clean
  BY <1>3 DEF KmallocPages, KmallocAligned, TakePages
<1>4. ASSUME NEW c, NEW size, KmallocFails(c, size) \/ KmallocAlignedFails(c, size) PROVE clean' => clean
  BY <1>4 DEF KmallocFails, KmallocAlignedFails, vars
<1>5. ASSUME NEW c, Kfree(c) PROVE clean' => clean
  BY <1>5 DEF Kfree, SlabFree
<1> QED
  BY <1>1, <1>2, <1>3, <1>4, <1>5 DEF Next

(* While only single pages were asked for and none was given back, a page   *)
(* whose bit is clear is in the pool.                                       *)
SinglesInv == plain => clean /\ \A p \in Pages : p \notin bitmap => p \in pool

LEMMA SinglesGet ==
  ASSUME SinglesInv, NEW order, order \in Nat, GetPages(order)
  PROVE  SinglesInv'
<1> SUFFICES ASSUME plain' PROVE SinglesInv'
  BY DEF SinglesInv
<1>1. plain /\ order = 0
  BY DEF GetPages, AllocPages
<1>2. PICK p \in Nat : /\ p = AllocatedPage(bitmap, 0) /\ p \notin bitmap
                       /\ Allocated(bitmap, 0) = bitmap \cup {p}
  BY <1>1, GotPages, SingleFound
<1>3. p \in Pages
  BY <1>1, <1>2, GotPages, ShlFacts, BuddyConstants DEF Pages
<1>4. p \in pool /\ clean
  BY <1>1, <1>2, <1>3 DEF SinglesInv
<1>5. Block(p, 0) = {p}
  BY OnePage
<1>6. bitmap' = bitmap \cup {p} /\ pool' = pool \ {p} /\ clean'
  BY <1>1, <1>2, <1>4, <1>5 DEF GetPages, AllocPages
<1> QED
  BY <1>1, <1>6 DEF SinglesInv, Pages

LEMMA SinglesStep == SinglesInv /\ [Next]_vars => SinglesInv'
<1> SUFFICES ASSUME SinglesInv, [Next]_vars PROVE SinglesInv'
  OBVIOUS
<1>1. ASSUME UNCHANGED <<buddyVars, pool, clean>> PROVE SinglesInv'
  BY <1>1 DEF SinglesInv, buddyVars, Pages
<1>2. CASE UNCHANGED vars
  BY <1>1, <1>2 DEF vars
<1>3. ASSUME NEW c, NEW size, KmallocObject(c, size) \/ KmallocNewSlab(c, size) PROVE SinglesInv'
  BY <1>1, <1>3, SinglesGet DEF KmallocObject, KmallocNewSlab
<1>4. ASSUME NEW c, NEW size \in Nat \ {0}, KmallocPages(c, size) \/ KmallocAligned(c, size)
      PROVE  SinglesInv'
  <2>1. PICK order \in Nat : GetPages(order)
    <3>1. OrderOf(size) \in Nat /\ OrderOf(IF size < PAGE_SIZE THEN PAGE_SIZE ELSE size) \in Nat
      BY OrderHolds, AlignedOrder
    <3> QED
      BY <1>4, <3>1 DEF KmallocPages, KmallocAligned, TakePages
  <2> QED
    BY <2>1, SinglesGet
<1>5. ASSUME NEW c, NEW size, KmallocFails(c, size) \/ KmallocAlignedFails(c, size) PROVE SinglesInv'
  BY <1>1, <1>5 DEF KmallocFails, KmallocAlignedFails, vars
<1>6. ASSUME NEW c, Kfree(c) PROVE SinglesInv'
  <2>1. CASE UNCHANGED <<buddyVars, pool, clean>>
    BY <1>1, <2>1
  <2>2. CASE plain' = FALSE
    BY <2>2 DEF SinglesInv
  <2> QED
    BY <1>6, <2>1, <2>2 DEF Kfree, SlabFree, PutPages, FreePages
<1>7. ASSUME NEW c, NEW size \in Sizes \cup AlignedSizes,
             KmallocPages(c, size) \/ KmallocAligned(c, size)
      PROVE  size \in Nat \ {0}
  BY <1>7, KmemConstants DEF KmallocPages, KmallocAligned
<1> QED
  BY <1>2, <1>3, <1>4, <1>5, <1>6, <1>7 DEF Next

CleanInv == (clean => KmemInv) /\ SinglesInv

LEMMA KmemInvariant == Spec => []CleanInv
<1>1. Init => CleanInv
  BY KmemStart DEF Init, BuddyInit, CleanInv, SinglesInv
<1>2. CleanInv /\ [Next]_vars => CleanInv'
  <2> SUFFICES ASSUME CleanInv, [Next]_vars PROVE CleanInv'
    OBVIOUS
  <2>1. SinglesInv'
    BY SinglesStep DEF CleanInv
  <2>2. ASSUME clean' PROVE KmemInv'
    BY <2>2, CleanFalls, KmemStep DEF CleanInv
  <2> QED
    BY <2>1, <2>2 DEF CleanInv
<1> QED
  BY <1>1, <1>2, PTL DEF Spec

(* The addresses of an object in a cache. *)
LEMMA ObjectExtent ==
  ASSUME KmemInv, NEW c \in Holders, ~Direct(c)
  PROVE  \E k \in Caches, b \in Nat : \E o \in Objects(k) :
            /\ Slab(k, b) /\ Bit(k, b, o) /\ PageOf(c) = b
            /\ held[c].addr = b * PAGE_SIZE + o * SLAB_SIZES[k]
            /\ \A a \in Extent(c) : a \div PAGE_SIZE = b /\ (a - b * PAGE_SIZE) \div SLAB_SIZES[k] = o
<1>1. PICK k \in Caches, b \in Nat : \E o \in Objects(k) :
         /\ Bit(k, b, o)
         /\ held[c].addr = b * PAGE_SIZE + o * SLAB_SIZES[k]
         /\ held[c].size <= SLAB_SIZES[k]
  BY DEF KmemInv, OwnersInv, HeldInv, HoldsObject
<1>2. PICK o \in Objects(k) : /\ Bit(k, b, o)
                              /\ held[c].addr = b * PAGE_SIZE + o * SLAB_SIZES[k]
                              /\ held[c].size <= SLAB_SIZES[k]
  BY <1>1
<1>3. Slab(k, b) /\ PageOf(c) = b
  BY <1>2, ObjectPage DEF Bit, Slab, HasBit, HasBase, PageOf
<1>4. ASSUME NEW a \in Extent(c)
      PROVE  a \div PAGE_SIZE = b /\ (a - b * PAGE_SIZE) \div SLAB_SIZES[k] = o
  <2>1. PICK z \in Nat, n \in Nat, w \in Nat :
           z = held[c].addr /\ n = held[c].size /\ w = SLAB_SIZES[k] /\ n <= w
    <3>1. held[c].addr \in Nat /\ held[c].size \in Nat
      BY Held DEF KmemInv, OwnersInv
    <3> QED
      BY <1>2, <3>1, CacheSizes
  <2>2. a \in z .. z + n - 1
    BY <2>1 DEF Extent
  <2>3. PICK d \in 0 .. w - 1 : a = z + d
    <3>1. a - z \in 0 .. w - 1 /\ a = z + (a - z)
      BY <2>1, <2>2
    <3> QED
      BY <3>1
  <2>4. d \in 0 .. SLAB_SIZES[k] - 1
    BY <2>1, <2>3
  <2>5. a = b * PAGE_SIZE + o * SLAB_SIZES[k] + d
    BY <1>2, <2>1, <2>3, Zenon
  <2> QED
    BY <2>4, <2>5, InObject
<1> QED
  BY <1>2, <1>3, <1>4

LEMMA BlockExtent ==
  ASSUME KmemInv, NEW c \in Holders, Direct(c)
  PROVE  /\ HoldsBlock(c) /\ \A a \in Extent(c) : a \div PAGE_SIZE \in BlockOf(c)
<1>1. PageOf(c) \in Nat /\ held[c].size \in Nat \ {0} /\ held[c].addr = PageOf(c) * PAGE_SIZE /\ HoldsBlock(c)
  BY Held DEF KmemInv, OwnersInv, HeldInv, HoldsBlock
<1>2. \A a \in PageOf(c) * PAGE_SIZE .. PageOf(c) * PAGE_SIZE + held[c].size - 1 :
         a \div PAGE_SIZE \in Block(PageOf(c), OrderOf(held[c].size))
  BY <1>1, InBlock
<1> QED
  BY <1>1, <1>2 DEF Extent, BlockOf

LEMMA Disjoint ==
  KmemInv => /\ AllocationsApart
             /\ \A c \in Holders : \A a \in Extent(c) : a \div PAGE_SIZE \in Pages \ pool
<1> SUFFICES ASSUME KmemInv
             PROVE  /\ AllocationsApart
                    /\ \A c \in Holders : \A a \in Extent(c) : a \div PAGE_SIZE \in Pages \ pool
  OBVIOUS
<1>0. CachesInv /\ OwnersInv
  BY DEF KmemInv
<1>1. ASSUME NEW c \in Holders, NEW a \in Extent(c) PROVE a \div PAGE_SIZE \in Pages \ pool
  <2>1. CASE Direct(c)
    BY <1>1, <2>1, BlockExtent DEF HoldsBlock
  <2>2. CASE ~Direct(c)
    <3>1. PICK k \in Caches : Slab(k, a \div PAGE_SIZE)
      BY <1>1, <2>2, ObjectExtent
    <3> QED
      BY <1>0, <3>1 DEF OwnersInv, SlabsInv
  <2> QED
    BY <2>1, <2>2
<1>2. ASSUME NEW c \in Holders, NEW d \in Holders, Direct(c), ~Direct(d), NEW a \in Extent(c), a \in Extent(d)
      PROVE  FALSE
  <2>1. a \div PAGE_SIZE \in BlockOf(c) /\ HoldsBlock(c)
    BY <1>2, BlockExtent
  <2>2. PICK k \in Caches : Slab(k, a \div PAGE_SIZE)
    BY <1>2, ObjectExtent
  <2> QED
    BY <2>1, <2>2 DEF HoldsBlock
<1>3. ASSUME NEW c \in Holders, NEW d \in Holders, c # d, Direct(c), Direct(d),
             NEW a \in Extent(c), a \in Extent(d)
      PROVE  FALSE
  <2>1. a \div PAGE_SIZE \in BlockOf(c) /\ a \div PAGE_SIZE \in BlockOf(d)
    BY <1>3, BlockExtent
  <2> QED
    BY <1>0, <1>3, <2>1 DEF OwnersInv, ApartInv
<1>4. ASSUME NEW c \in Holders, NEW d \in Holders, c # d, ~Direct(c), ~Direct(d),
             NEW a \in Extent(c), a \in Extent(d)
      PROVE  FALSE
  <2>1. PICK k \in Caches, b \in Nat : \E o \in Objects(k) :
           /\ Slab(k, b) /\ held[c].addr = b * PAGE_SIZE + o * SLAB_SIZES[k]
           /\ a \div PAGE_SIZE = b /\ (a - b * PAGE_SIZE) \div SLAB_SIZES[k] = o
    BY <1>4, ObjectExtent
  <2>2. PICK l \in Caches, e \in Nat : \E o \in Objects(l) :
           /\ Slab(l, e) /\ held[d].addr = e * PAGE_SIZE + o * SLAB_SIZES[l]
           /\ a \div PAGE_SIZE = e /\ (a - e * PAGE_SIZE) \div SLAB_SIZES[l] = o
    BY <1>4, ObjectExtent
  <2>3. b = e
    BY <2>1, <2>2
  <2>4. k = l
    BY <1>0, <2>1, <2>2, <2>3 DEF OwnersInv, SlabsInv
  <2>5. held[c].addr = held[d].addr
    BY <2>1, <2>2, <2>3, <2>4
  <2> QED
    BY <1>0, <1>4, <2>5 DEF OwnersInv, ApartInv
<1>5. ASSUME NEW c \in Holders, NEW d \in Holders, c # d PROVE Extent(c) \cap Extent(d) = {}
  BY <1>2, <1>3, <1>4, <1>5
<1> QED
  BY <1>1, <1>5 DEF AllocationsApart

LEMMA Accounted == KmemInv => PagesAccounted
<1> SUFFICES ASSUME KmemInv PROVE PagesAccounted
  OBVIOUS
<1>0. CachesInv /\ OwnersInv
  BY DEF KmemInv
<1>1. \A b : b \in SlabBases <=> \E k \in Caches : Slab(k, b)
  BY DEF SlabBases, Slab, HasBase
<1>2. ASSUME NEW c \in Holders
      PROVE  /\ Direct(c) => DirectPages(c) = BlockOf(c)
             /\ ~Direct(c) => DirectPages(c) = {}
  BY <1>1 DEF Direct, DirectPages, PageOf, BlockOf
<1>3. pool \cup SlabBases \cup UNION {DirectPages(c) : c \in Holders} = Pages
  <2>1. ASSUME NEW p \in Pages PROVE p \in pool \cup SlabBases \cup UNION {DirectPages(c) : c \in Holders}
    BY <1>0, <1>1, <1>2 DEF OwnersInv, FoundInv
  <2>2. pool \subseteq Pages /\ SlabBases \subseteq Pages
    BY <1>0, <1>1 DEF OwnersInv, SlabsInv
  <2>3. \A c \in Holders : DirectPages(c) \subseteq Pages
    BY <1>2, BlockExtent DEF HoldsBlock
  <2> QED
    BY <2>1, <2>2, <2>3
<1>4. pool \cap SlabBases = {}
  BY <1>0, <1>1 DEF OwnersInv, SlabsInv
<1>5. \A c \in Holders : DirectPages(c) \cap (pool \cup SlabBases) = {}
  BY <1>1, <1>2, BlockExtent DEF HoldsBlock
<1>6. ASSUME NEW k \in Caches, NEW l \in Caches, NEW i \in 1 .. Len(caches[k]), NEW j \in 1 .. Len(caches[l]),
             caches[k][i].base = caches[l][j].base
      PROVE  <<k, i>> = <<l, j>>
  <2>1. k = l
    BY <1>0, <1>6 DEF OwnersInv, SlabsInv, Slab, HasBase
  <2>2. i = j
    BY <1>0, <1>6, <2>1 DEF CachesInv, GoodCache
  <2> QED
    BY <2>1, <2>2
<1>7. ASSUME NEW k \in Caches, NEW i \in 1 .. Len(caches[k]), NEW pg, pg = caches[k][i]
      PROVE  pg.bitmap = {o \in Objects(k) : \E c \in Holders : held[c].addr = ObjectAddr(k, pg, o)}
  <2>0. PICK s : s = caches[k]
    OBVIOUS
  <2>1. GoodCache(k, s) /\ s \in Seq(SlabPage) /\ i \in 1 .. Len(s) /\ pg = s[i]
    BY <1>0, <1>7, <2>0 DEF CachesInv, GoodCache
  <2>2. pg.base \in Nat /\ pg.bitmap \subseteq Objects(k) /\ Slab(k, pg.base)
    BY <2>0, <2>1, PageType DEF GoodCache, Slab, HasBase
  <2>3. ASSUME NEW o \in pg.bitmap PROVE \E c \in Holders : held[c].addr = ObjectAddr(k, pg, o)
    <3>1. Bit(k, pg.base, o)
      BY <2>0, <2>1, <2>3 DEF Bit, HasBit
    <3> QED
      BY <1>0, <3>1 DEF OwnersInv, FoundInv, ObjectAddr
  <2>4. ASSUME NEW o \in Objects(k), NEW c \in Holders, held[c].addr = ObjectAddr(k, pg, o)
        PROVE  o \in pg.bitmap
    <3>1. Bit(k, pg.base, o)
      BY <1>0, <2>2, <2>4, OneObject DEF ObjectAddr
    <3>2. PICK j \in 1 .. Len(s) : s[j].base = pg.base /\ o \in s[j].bitmap
      BY <2>0, <3>1 DEF Bit, HasBit
    <3> QED
      BY <2>1, <3>2 DEF GoodCache
  <2> QED
    BY <2>2, <2>3, <2>4
<1>8. \A k \in Caches : \A i \in 1 .. Len(caches[k]) :
         LET pg == caches[k][i]
         IN  pg.bitmap = {o \in Objects(k) : \E c \in Holders : held[c].addr = ObjectAddr(k, pg, o)}
  <2> TAKE k \in Caches
  <2> TAKE i \in 1 .. Len(caches[k])
  <2>1. PICK pg : pg = caches[k][i]
    OBVIOUS
  <2>2. pg.bitmap = {o \in Objects(k) : \E c \in Holders : held[c].addr = ObjectAddr(k, pg, o)}
    BY <1>7, <2>1
  <2> QED
    BY <2>1, <2>2, Zenon
<1>9. \A k \in Caches : \A i, j \in 1 .. Len(caches[k]) :
         is_empty(caches[k][i]) /\ is_empty(caches[k][j]) => i = j
  BY <1>0 DEF CachesInv, GoodCache
<1> QED
  BY <1>3, <1>4, <1>5, <1>6, <1>8, <1>9, Zenon DEF PagesAccounted

(* While the page allocator (buddy.rs) has given out no page twice, no two  *)
(* live allocations of kmalloc, kmalloc_aligned and kfree (mem.rs, slab.rs) *)
(* share memory, and none lies in a page that is free; and it gives out     *)
(* none twice while it is only asked for single pages and none is returned. *)
THEOREM AllocationsAreDisjoint == Spec => []ObjectsDisjoint
<1>1. CleanInv => ObjectsDisjoint
  BY Disjoint DEF CleanInv, SinglesInv, ObjectsDisjoint
<1> QED
  BY <1>1, KmemInvariant, PTL

(* While the page allocator has given out no page twice, every page is      *)
(* free, in one slab cache or with one caller, and a bit of a slab page     *)
(* (slab.rs) is set exactly while its object is in use.                     *)
THEOREM PagesAreAccounted == Spec => []PagesAccounted
<1>1. CleanInv => PagesAccounted
  BY Accounted DEF CleanInv, PagesAccounted
<1> QED
  BY <1>1, KmemInvariant, PTL

(***************************************************************************)
(* PageTables                                                              *)
(***************************************************************************)
LEMMA DivDiv ==
  ASSUME NEW m \in Nat \ {0}, NEW n \in Nat \ {0}, NEW v \in Nat
  PROVE  v \div (m * n) = (v \div m) \div n
<1>1. PICK q \in Nat : q = v \div m
  OBVIOUS
<1>2. PICK r \in Nat : r = q \div n
  OBVIOUS
<1>3. m * q <= v /\ v < m * q + m
  BY <1>1
<1>4. n * r <= q /\ q + 1 <= n * r + n
  BY <1>2
<1>5. m * (n * r) <= m * q
  BY <1>4
<1>6. m * (q + 1) <= m * (n * r + n)
  BY <1>4
<1>7. PICK p \in Nat \ {0} : p = m * n
  OBVIOUS
<1>8. p * r <= v /\ v < p * r + p
  BY <1>3, <1>5, <1>6, <1>7
<1>9. v \div p = r
  BY <1>8, Quotient
<1> QED
  BY <1>1, <1>2, <1>7, <1>9

(* The index of a page in a table is a digit of its number. *)
LEMMA Digits ==
  ASSUME NEW v \in Nat, NEW w \in Nat
  PROVE  /\ \A lev \in Levels : Size(lev) \in Nat \ {0} /\ Index(lev, v) \in Slots
         /\ v \div Size(0) = v /\ v % Size(0) = 0
         /\ v \in VPages /\ w \in VPages /\ Index(3, v) = Index(3, w)
               => v \div Size(3) = w \div Size(3)
         /\ \A lev \in 0 .. 2 :
               /\ v \div Size(lev + 1) = w \div Size(lev + 1)
               /\ Index(lev, v) = Index(lev, w)
               => v \div Size(lev) = w \div Size(lev)
<1>0. PICK F \in Nat \ {0} : F = FANOUT
  BY PageConstants
<1>1. Size(0) = 1 /\ Size(1) = F /\ Size(2) = F * F /\ Size(3) = (F * F) * F
  BY <1>0 DEF Size
<1>2. ASSUME NEW lev \in Levels PROVE Size(lev) \in Nat \ {0}
  <2>1. F * F \in Nat \ {0} /\ (F * F) * F \in Nat \ {0}
    OBVIOUS
  <2>2. lev = 0 \/ lev = 1 \/ lev = 2 \/ lev = 3
    BY DEF Levels
  <2> QED
    BY <1>1, <2>1, <2>2
<1>3. ASSUME NEW lev \in Levels PROVE Index(lev, v) \in Slots
  <2>1. v \div Size(lev) \in Nat
    BY <1>2
  <2> QED
    BY <1>0, <2>1 DEF Index, Slots
<1>4. v \div Size(0) = v /\ v % Size(0) = 0
  BY <1>1
<1>5. ASSUME NEW u \in Nat, NEW lev \in 0 .. 2 PROVE u \div Size(lev + 1) = (u \div Size(lev)) \div F
  <2>1. lev = 0 \/ lev = 1 \/ lev = 2
    OBVIOUS
  <2>2. CASE lev = 0
    <3>1. u \div 1 = u
      OBVIOUS
    <3> QED
      BY <1>1, <2>2, <3>1
  <2>3. CASE lev = 1
    BY <1>1, <2>3, DivDiv
  <2>4. CASE lev = 2
    <3>1. F * F \in Nat \ {0}
      OBVIOUS
    <3>2. u \div ((F * F) * F) = (u \div (F * F)) \div F
      BY <3>1, DivDiv
    <3> QED
      BY <1>1, <2>4, <3>2
  <2> QED
    BY <2>1, <2>2, <2>3, <2>4
<1>6. ASSUME NEW x \in Nat, NEW y \in Nat, x \div F = y \div F, x % F = y % F PROVE x = y
  <2>1. x = F * (x \div F) + (x % F) /\ y = F * (y \div F) + (y % F)
    OBVIOUS
  <2> QED
    BY <1>6, <2>1
<1>7. ASSUME NEW lev \in 0 .. 2,
             v \div Size(lev + 1) = w \div Size(lev + 1), Index(lev, v) = Index(lev, w)
      PROVE  v \div Size(lev) = w \div Size(lev)
  <2>1. PICK x \in Nat : x = v \div Size(lev)
    BY <1>2 DEF Levels
  <2>2. PICK y \in Nat : y = w \div Size(lev)
    BY <1>2 DEF Levels
  <2>3. x \div F = y \div F
    BY <1>5, <1>7, <2>1, <2>2
  <2>4. x % F = y % F
    BY <1>0, <1>7, <2>1, <2>2 DEF Index
  <2> QED
    BY <1>6, <2>1, <2>2, <2>3, <2>4
<1>8. ASSUME NEW u \in VPages PROVE Index(3, u) = u \div Size(3)
  <2>1. PICK S \in Nat \ {0} : S = Size(3)
    BY <1>2 DEF Levels
  <2>2. u \in Nat /\ u < F * S
    BY <1>0, <2>1 DEF VPages
  <2>3. PICK d \in Nat : d = u \div S
    BY <2>2
  <2>4. S * d <= u
    BY <2>2, <2>3
  <2>5. S * d < S * F
    BY <2>2, <2>4
  <2>6. d < F
    BY <2>5
  <2>7. d % F = d
    BY <2>6
  <2> QED
    BY <1>0, <2>1, <2>3, <2>7 DEF Index
<1>9. v \in VPages /\ w \in VPages /\ Index(3, v) = Index(3, w) => v \div Size(3) = w \div Size(3)
  BY <1>8
<1> QED
  BY <1>2, <1>3, <1>4, <1>7, <1>9

(* The walk for a page goes down level by level. *)
LEMMA WalkSteps ==
  ASSUME NEW tb, NEW v
  PROVE  /\ TableAt(tb, v)[3] = root
         /\ \A lev \in 0 .. 2 : TableAt(tb, v)[lev] = Below(tb, TableAt(tb, v)[lev + 1], lev + 1, v)
<1>1. /\ TableAt(tb, v)[3] = root
      /\ TableAt(tb, v)[2] = Below(tb, TableAt(tb, v)[3], 3, v)
      /\ TableAt(tb, v)[1] = Below(tb, TableAt(tb, v)[2], 2, v)
      /\ TableAt(tb, v)[0] = Below(tb, TableAt(tb, v)[1], 1, v)
  BY DEF TableAt, Levels
<1>2. \A lev \in 0 .. 2 : lev = 0 \/ lev = 1 \/ lev = 2
  OBVIOUS
<1> QED
  BY <1>1, <1>2

(* What holds at level 3 and goes down a level holds at every level. *)
LEMMA GoDown ==
  ASSUME NEW S, 3 \in S, \A lev \in 0 .. 2 : lev + 1 \in S => lev \in S
  PROVE  Levels \subseteq S
<1>1. 2 \in S
  OBVIOUS
<1>2. 1 \in S
  BY <1>1
<1>3. 0 \in S
  BY <1>2
<1> QED
  BY <1>1, <1>2, <1>3 DEF Levels

Tree(tb, inUse, height) ==
    /\ tb \in [Frames -> [Slots -> Entry]]
    /\ inUse \subseteq Frames /\ root \in inUse
    /\ height \in [inUse -> Levels]
    /\ IsTree(tb, inUse, height)

(* The walk stays in the tables in use, at their heights. *)
LEMMA OnPath ==
  ASSUME NEW tb, NEW inUse, NEW height, Tree(tb, inUse, height), NEW v \in Nat
  PROVE  \A lev \in Levels : TableAt(tb, v)[lev] # NoFrame =>
            TableAt(tb, v)[lev] \in inUse /\ height[TableAt(tb, v)[lev]] = lev
<1> DEFINE S == {lev \in Levels : TableAt(tb, v)[lev] # NoFrame =>
                    TableAt(tb, v)[lev] \in inUse /\ height[TableAt(tb, v)[lev]] = lev}
<1>1. 3 \in S
  BY WalkSteps DEF Tree, IsTree, Levels
<1>2. ASSUME NEW lev \in 0 .. 2, lev + 1 \in S PROVE lev \in S
  <2>1. PICK g : g = TableAt(tb, v)[lev + 1]
    OBVIOUS
  <2>2. PICK k \in Slots : k = Index(lev + 1, v)
    BY Digits DEF Levels
  <2>3. TableAt(tb, v)[lev] = Below(tb, g, lev + 1, v)
    BY <2>1, WalkSteps
  <2>4. CASE g # NoFrame /\ tb[g][k].kind = "table"
    <3>1. g \in inUse /\ height[g] = lev + 1
      BY <1>2, <2>1, <2>4
    <3>2. TableAt(tb, v)[lev] = tb[g][k].addr
      BY <2>2, <2>3, <2>4 DEF Below
    <3>3. PICK f : f = tb[g][k].addr
      OBVIOUS
    <3>4. f \in inUse /\ height[f] + 1 = height[g]
      BY <2>2, <2>4, <3>1, <3>3 DEF Tree, IsTree
    <3>5. height[f] \in Nat
      BY <3>4 DEF Tree, Levels
    <3>6. height[f] = lev
      BY <3>1, <3>4, <3>5
    <3> QED
      BY <3>2, <3>3, <3>4, <3>6 DEF Levels
  <2>5. CASE ~(g # NoFrame /\ tb[g][k].kind = "table")
    BY <2>2, <2>3, <2>5 DEF Below, Levels
  <2> QED
    BY <2>4, <2>5
<1> HIDE DEF S
<1>3. Levels \subseteq S
  BY <1>1, <1>2, GoDown
<1> QED
  BY <1>3 DEF S

(* Two pages with the same page table and the same index are one. *)
LEMMA SamePath ==
  ASSUME NEW tb, NEW inUse, NEW height, Tree(tb, inUse, height),
         NEW v \in VPages, NEW w \in VPages,
         TableAt(tb, v)[0] # NoFrame, TableAt(tb, v)[0] = TableAt(tb, w)[0],
         Index(0, v) = Index(0, w)
  PROVE  v = w
<1>0. v \in Nat /\ w \in Nat
  BY DEF VPages
<1> DEFINE S == {lev \in Levels :
             TableAt(tb, v)[lev] # NoFrame /\ TableAt(tb, v)[lev] = TableAt(tb, w)[lev]
               /\ Index(lev, v) = Index(lev, w) => v \div Size(lev) = w \div Size(lev)}
<1>1. 3 \in S
  BY <1>0, Digits DEF Levels
<1>2. ASSUME NEW lev \in 0 .. 2, lev + 1 \in S PROVE lev \in S
  <2>0. lev \in Levels /\ lev + 1 \in Levels
    BY DEF Levels
  <2> SUFFICES ASSUME TableAt(tb, v)[lev] # NoFrame, TableAt(tb, v)[lev] = TableAt(tb, w)[lev],
                      Index(lev, v) = Index(lev, w)
               PROVE  v \div Size(lev) = w \div Size(lev)
    BY <2>0
  <2>1. PICK g : g = TableAt(tb, v)[lev + 1]
    OBVIOUS
  <2>2. PICK h : h = TableAt(tb, w)[lev + 1]
    OBVIOUS
  <2>3. PICK k \in Slots : k = Index(lev + 1, v)
    BY <1>0, <2>0, Digits
  <2>4. PICK m \in Slots : m = Index(lev + 1, w)
    BY <1>0, <2>0, Digits
  <2>5. /\ g # NoFrame /\ tb[g][k].kind = "table" /\ TableAt(tb, v)[lev] = tb[g][k].addr
    BY <2>1, <2>3, WalkSteps DEF Below
  <2>6. /\ h # NoFrame /\ tb[h][m].kind = "table" /\ TableAt(tb, w)[lev] = tb[h][m].addr
    BY <2>2, <2>4, WalkSteps DEF Below
  <2>7. g \in inUse /\ h \in inUse
    BY <1>0, <2>0, <2>1, <2>2, <2>5, <2>6, OnPath
  <2>8. g = h /\ k = m
    <3>1. tb[g][k].addr = tb[h][m].addr
      BY <2>5, <2>6
    <3> QED
      BY <2>5, <2>6, <2>7, <3>1 DEF Tree, IsTree
  <2>9. v \div Size(lev + 1) = w \div Size(lev + 1)
    BY <1>2, <2>1, <2>2, <2>3, <2>4, <2>5, <2>8
  <2> QED
    BY <1>0, <2>9, Digits
<1> HIDE DEF S
<1>3. Levels \subseteq S
  BY <1>1, <1>2, GoDown
<1>4. v \div Size(0) = w \div Size(0)
  BY <1>3 DEF S, Levels
<1> QED
  BY <1>0, <1>4, Digits

(* A change that leaves the entries for tables alone changes no walk. *)
LEMMA SameWalk ==
  ASSUME NEW tb, NEW inUse, NEW height, Tree(tb, inUse, height), NEW tb2,
         \A g \in inUse, k \in Slots :
            /\ tb[g][k].kind = "table" <=> tb2[g][k].kind = "table"
            /\ tb[g][k].kind = "table" => tb2[g][k].addr = tb[g][k].addr,
         NEW v \in Nat
  PROVE  \A lev \in Levels : TableAt(tb2, v)[lev] = TableAt(tb, v)[lev]
<1> DEFINE S == {lev \in Levels : TableAt(tb2, v)[lev] = TableAt(tb, v)[lev]}
<1>1. 3 \in S
  BY WalkSteps DEF Levels
<1>2. ASSUME NEW lev \in 0 .. 2, lev + 1 \in S PROVE lev \in S
  <2>0. lev \in Levels /\ lev + 1 \in Levels
    BY DEF Levels
  <2>1. PICK g : g = TableAt(tb, v)[lev + 1] /\ g = TableAt(tb2, v)[lev + 1]
    BY <1>2
  <2>2. PICK k \in Slots : k = Index(lev + 1, v)
    BY <2>0, Digits
  <2>3. /\ TableAt(tb, v)[lev] = Below(tb, g, lev + 1, v)
        /\ TableAt(tb2, v)[lev] = Below(tb2, g, lev + 1, v)
    <3>1. TableAt(tb, v)[lev] = Below(tb, TableAt(tb, v)[lev + 1], lev + 1, v)
      BY WalkSteps
    <3>2. TableAt(tb2, v)[lev] = Below(tb2, TableAt(tb2, v)[lev + 1], lev + 1, v)
      BY WalkSteps
    <3> QED
      BY <2>1, <3>1, <3>2
  <2>4. g = NoFrame \/ g \in inUse
    BY <2>0, <2>1, OnPath
  <2>5. Below(tb, g, lev + 1, v) = Below(tb2, g, lev + 1, v)
    BY <2>2, <2>4 DEF Below
  <2> QED
    BY <2>0, <2>3, <2>5
<1> HIDE DEF S
<1>3. Levels \subseteq S
  BY <1>1, <1>2, GoDown
<1> QED
  BY <1>3 DEF S

(* A new, empty table is only seen where there was none. *)
LEMMA NewWalk ==
  ASSUME NEW tb, NEW inUse, NEW height, Tree(tb, inUse, height), NEW tb2,
         NEW f \in Frames \ inUse, NEW h \in inUse, NEW m \in Slots,
         tb[h][m].kind = "none", tb2[h][m].kind = "table", tb2[h][m].addr = f,
         \A k \in Slots : tb2[f][k].kind = "none",
         \A g \in inUse, k \in Slots : g # h \/ k # m => tb2[g][k] = tb[g][k],
         NEW v \in Nat
  PROVE  \A lev \in Levels : \/ TableAt(tb2, v)[lev] = TableAt(tb, v)[lev]
                             \/ TableAt(tb, v)[lev] = NoFrame /\ TableAt(tb2, v)[lev] = f
<1>0. f # NoFrame
  BY PageConstants
<1> DEFINE S == {lev \in Levels : \/ TableAt(tb2, v)[lev] = TableAt(tb, v)[lev]
                                  \/ TableAt(tb, v)[lev] = NoFrame /\ TableAt(tb2, v)[lev] = f}
<1>1. 3 \in S
  BY WalkSteps DEF Levels
<1>2. ASSUME NEW lev \in 0 .. 2, lev + 1 \in S PROVE lev \in S
  <2>0. lev \in Levels /\ lev + 1 \in Levels
    BY DEF Levels
  <2>1. PICK k \in Slots : k = Index(lev + 1, v)
    BY <2>0, Digits
  <2>2. CASE TableAt(tb2, v)[lev + 1] = TableAt(tb, v)[lev + 1]
    <3>1. PICK g : g = TableAt(tb, v)[lev + 1] /\ g = TableAt(tb2, v)[lev + 1]
      BY <2>2
    <3>2. /\ TableAt(tb, v)[lev] = Below(tb, g, lev + 1, v)
          /\ TableAt(tb2, v)[lev] = Below(tb2, g, lev + 1, v)
      <4>1. TableAt(tb, v)[lev] = Below(tb, TableAt(tb, v)[lev + 1], lev + 1, v)
        BY WalkSteps
      <4>2. TableAt(tb2, v)[lev] = Below(tb2, TableAt(tb2, v)[lev + 1], lev + 1, v)
        BY WalkSteps
      <4> QED
        BY <3>1, <4>1, <4>2
    <3>3. g = NoFrame \/ g \in inUse
      <4>1. \/ TableAt(tb, v)[lev + 1] = NoFrame
            \/ TableAt(tb, v)[lev + 1] \in inUse
        BY <2>0, OnPath
      <4> QED
        BY <3>1, <4>1
    <3>4. CASE g = h /\ k = m
      <4>1. Below(tb, g, lev + 1, v) = NoFrame
        BY <2>1, <3>4 DEF Below
      <4>2. Below(tb2, g, lev + 1, v) = f \/ g = NoFrame
        BY <2>1, <3>4 DEF Below
      <4>3. g = NoFrame => Below(tb2, g, lev + 1, v) = NoFrame
        BY DEF Below
      <4> QED
        BY <2>0, <3>2, <4>1, <4>2, <4>3
    <3>5. CASE ~(g = h /\ k = m)
      <4>1. Below(tb, g, lev + 1, v) = Below(tb2, g, lev + 1, v)
        BY <2>1, <3>3, <3>5 DEF Below
      <4> QED
        BY <2>0, <3>2, <4>1
    <3> QED
      BY <3>4, <3>5
  <2>3. CASE TableAt(tb, v)[lev + 1] = NoFrame /\ TableAt(tb2, v)[lev + 1] = f
    <3>1. Below(tb, NoFrame, lev + 1, v) = NoFrame
      BY DEF Below
    <3>2. Below(tb2, f, lev + 1, v) = NoFrame
      BY <2>1 DEF Below
    <3>3. TableAt(tb, v)[lev] = NoFrame /\ TableAt(tb2, v)[lev] = NoFrame
      BY <2>3, <3>1, <3>2, WalkSteps
    <3> QED
      BY <2>0, <3>3
  <2> QED
    BY <1>2, <2>2, <2>3
<1> HIDE DEF S
<1>3. Levels \subseteq S
  BY <1>1, <1>2, GoDown
<1> QED
  BY <1>3 DEF S

LeafAt(tb, v, lev) == tb[TableAt(tb, v)[lev]][Index(lev, v)]

PhysAt(tb, v, lev) == LeafAt(tb, v, lev).addr + (v % Size(lev))

LEMMA TranslationMeans ==
  ASSUME NEW tb, NEW v, NEW x
  PROVE  x \in TranslationIn(tb, v) <=>
            \E lev \in Levels : /\ IsLeaf(tb, v, lev)
                                /\ x = [phys |-> PhysAt(tb, v, lev), nx |-> LeafAt(tb, v, lev).nx,
                                        wr |-> LeafAt(tb, v, lev).wr]
BY DEF TranslationIn, LeafAt, PhysAt

(* Pages with the same leaves have the same translation. *)
LEMMA SameLeaves ==
  ASSUME NEW tb, NEW tb2, NEW v,
         \A lev \in Levels : IsLeaf(tb, v, lev) => IsLeaf(tb2, v, lev) /\ LeafAt(tb2, v, lev) = LeafAt(tb, v, lev)
  PROVE  TranslationIn(tb, v) \subseteq TranslationIn(tb2, v)
<1> SUFFICES ASSUME NEW x \in TranslationIn(tb, v) PROVE x \in TranslationIn(tb2, v)
  OBVIOUS
<1>1. PICK lev \in Levels : /\ IsLeaf(tb, v, lev)
                            /\ x = [phys |-> PhysAt(tb, v, lev), nx |-> LeafAt(tb, v, lev).nx,
                                    wr |-> LeafAt(tb, v, lev).wr]
  BY TranslationMeans
<1>2. /\ IsLeaf(tb2, v, lev)
      /\ x = [phys |-> PhysAt(tb2, v, lev), nx |-> LeafAt(tb2, v, lev).nx,
              wr |-> LeafAt(tb2, v, lev).wr]
  BY <1>1 DEF PhysAt
<1> QED
  BY <1>2, TranslationMeans

(* A new, empty table changes no translation. *)
LEMMA NewTableKeeps ==
  ASSUME NEW tb, NEW inUse, NEW height, Tree(tb, inUse, height), NEW tb2,
         NEW f \in Frames \ inUse, NEW h \in inUse, NEW m \in Slots,
         tb[h][m].kind = "none", tb2[h][m].kind = "table", tb2[h][m].addr = f,
         \A k \in Slots : tb2[f][k].kind = "none",
         \A g \in inUse, k \in Slots : g # h \/ k # m => tb2[g][k] = tb[g][k],
         NEW v \in Nat
  PROVE  TranslationIn(tb2, v) = TranslationIn(tb, v)
<1>1. ASSUME NEW lev \in Levels
      PROVE  /\ IsLeaf(tb, v, lev) <=> IsLeaf(tb2, v, lev)
             /\ IsLeaf(tb, v, lev) => LeafAt(tb2, v, lev) = LeafAt(tb, v, lev)
  <2>1. PICK k \in Slots : k = Index(lev, v)
    BY Digits
  <2>2. PICK g : g = TableAt(tb, v)[lev]
    OBVIOUS
  <2>3. \/ TableAt(tb2, v)[lev] = TableAt(tb, v)[lev]
        \/ TableAt(tb, v)[lev] = NoFrame /\ TableAt(tb2, v)[lev] = f
    BY NewWalk
  <2>4. CASE TableAt(tb2, v)[lev] = g
    <3>1. g = NoFrame \/ g \in inUse
      BY <2>2, OnPath
    <3>2. g # NoFrame /\ ~(g = h /\ k = m) => tb2[g][k] = tb[g][k]
      BY <3>1
    <3>3. CASE g = h /\ k = m
      BY <2>1, <2>2, <2>4, <3>3 DEF IsLeaf
    <3>4. CASE ~(g = h /\ k = m)
      BY <2>1, <2>2, <2>4, <3>2, <3>4 DEF IsLeaf, LeafAt
    <3> QED
      BY <3>3, <3>4
  <2>5. CASE g = NoFrame /\ TableAt(tb2, v)[lev] = f
    BY <2>1, <2>2, <2>5 DEF IsLeaf
  <2> QED
    BY <2>2, <2>3, <2>4, <2>5
<1>2. TranslationIn(tb, v) \subseteq TranslationIn(tb2, v)
  BY <1>1, SameLeaves
<1>3. TranslationIn(tb2, v) \subseteq TranslationIn(tb, v)
  <2>1. \A lev \in Levels : IsLeaf(tb2, v, lev) => IsLeaf(tb, v, lev) /\ LeafAt(tb, v, lev) = LeafAt(tb2, v, lev)
    BY <1>1
  <2> QED
    BY <2>1, SameLeaves
<1> QED
  BY <1>2, <1>3

(* A new leaf in a page table maps one page. *)
LeafAdded(tb, tb2, inUse, height, u, h, m) ==
    /\ Tree(tb, inUse, height)
    /\ u \in VPages /\ h \in inUse /\ m \in Slots /\ h = TableAt(tb, u)[0] /\ m = Index(0, u)
    /\ tb[h][m].kind = "none" /\ tb2[h][m].kind = "leaf" /\ tb2[h][m].addr \in Nat
    /\ \A g \in inUse, k \in Slots : g # h \/ k # m => tb2[g][k] = tb[g][k]

LEMMA NewLeafMaps ==
  ASSUME NEW tb, NEW inUse, NEW height, NEW tb2, NEW u, NEW h, NEW m,
         LeafAdded(tb, tb2, inUse, height, u, h, m), NEW v \in VPages
  PROVE  /\ TranslationIn(tb, v) \subseteq TranslationIn(tb2, v)
         /\ v # u => TranslationIn(tb2, v) \subseteq TranslationIn(tb, v)
         /\ v = u => /\ TranslationIn(tb2, v) # {}
                     /\ \A x \in TranslationIn(tb2, v) :
                           x \in TranslationIn(tb, v) \/ x.phys = tb2[h][m].addr
<1> USE DEF LeafAdded
<1>0. v \in Nat /\ u \in Nat
  BY DEF VPages
<1>1. \A lev \in Levels : TableAt(tb2, v)[lev] = TableAt(tb, v)[lev]
  <2>1. \A g \in inUse, k \in Slots :
           /\ tb[g][k].kind = "table" <=> tb2[g][k].kind = "table"
           /\ tb[g][k].kind = "table" => tb2[g][k].addr = tb[g][k].addr
    OBVIOUS
  <2> QED
    BY <1>0, <2>1, SameWalk
<1>2. ASSUME NEW lev \in Levels, ~(lev = 0 /\ v = u)
      PROVE  /\ IsLeaf(tb, v, lev) <=> IsLeaf(tb2, v, lev)
             /\ IsLeaf(tb, v, lev) => LeafAt(tb2, v, lev) = LeafAt(tb, v, lev)
  <2>1. PICK k \in Slots : k = Index(lev, v)
    BY <1>0, Digits
  <2>2. PICK g : g = TableAt(tb, v)[lev] /\ g = TableAt(tb2, v)[lev]
    BY <1>1
  <2>3. CASE g = NoFrame
    BY <2>2, <2>3 DEF IsLeaf
  <2>4. CASE g # NoFrame
    <3>1. g \in inUse /\ height[g] = lev
      <4>1. TableAt(tb, v)[lev] # NoFrame =>
               TableAt(tb, v)[lev] \in inUse /\ height[TableAt(tb, v)[lev]] = lev
        BY <1>0, OnPath
      <4> QED
        BY <2>2, <2>4, <4>1
    <3>2. g = h => lev = 0
      <4>1. h # NoFrame
        BY PageConstants DEF Tree
      <4>2. height[h] = 0
        BY <1>0, <4>1, OnPath DEF Levels
      <4> QED
        BY <3>1, <4>2
    <3>3. ~(g = h /\ k = m)
      <4> SUFFICES ASSUME g = h, k = m PROVE FALSE
        OBVIOUS
      <4>1. lev = 0
        BY <3>2
      <4>2. TableAt(tb, v)[0] # NoFrame /\ TableAt(tb, v)[0] = TableAt(tb, u)[0]
            /\ Index(0, v) = Index(0, u)
        BY <2>1, <2>2, <2>4, <4>1
      <4>3. v = u
        BY <4>2, SamePath
      <4> QED
        BY <1>2, <4>1, <4>3
    <3>4. tb2[g][k] = tb[g][k]
      BY <3>1, <3>3
    <3> QED
      BY <2>1, <2>2, <3>4 DEF IsLeaf, LeafAt
  <2> QED
    BY <2>3, <2>4
<1>3. v = u => ~IsLeaf(tb, v, 0)
  BY DEF IsLeaf
<1>4. TranslationIn(tb, v) \subseteq TranslationIn(tb2, v)
  <2>1. \A lev \in Levels : IsLeaf(tb, v, lev) => IsLeaf(tb2, v, lev) /\ LeafAt(tb2, v, lev) = LeafAt(tb, v, lev)
    BY <1>2, <1>3
  <2> QED
    BY <2>1, SameLeaves
<1>5. v # u => TranslationIn(tb2, v) \subseteq TranslationIn(tb, v)
  <2>1. v # u => \A lev \in Levels : IsLeaf(tb2, v, lev) => IsLeaf(tb, v, lev) /\ LeafAt(tb, v, lev) = LeafAt(tb2, v, lev)
    BY <1>2
  <2> QED
    BY <2>1, SameLeaves
<1>6. ASSUME v = u
      PROVE  /\ IsLeaf(tb2, v, 0) /\ PhysAt(tb2, v, 0) = tb2[h][m].addr
  <2>1. TableAt(tb2, v)[0] = h /\ Index(0, v) = m /\ 0 \in Levels
    BY <1>1, <1>6 DEF Levels
  <2>2. v % Size(0) = 0
    BY <1>0, Digits
  <2>3. h # NoFrame
    BY PageConstants DEF Tree
  <2>4. LeafAt(tb2, v, 0) = tb2[h][m]
    BY <2>1 DEF LeafAt
  <2>5. PhysAt(tb2, v, 0) = tb2[h][m].addr + 0
    BY <2>2, <2>4 DEF PhysAt
  <2> QED
    BY <2>1, <2>3, <2>5 DEF IsLeaf
<1>7. ASSUME v = u PROVE TranslationIn(tb2, v) # {}
  <2>1. PICK x : x = [phys |-> PhysAt(tb2, v, 0), nx |-> LeafAt(tb2, v, 0).nx, wr |-> LeafAt(tb2, v, 0).wr]
    OBVIOUS
  <2>2. x \in TranslationIn(tb2, v)
    BY <1>6, <1>7, <2>1, TranslationMeans DEF Levels
  <2> QED
    BY <2>2
<1>8. ASSUME v = u, NEW x \in TranslationIn(tb2, v)
      PROVE  x \in TranslationIn(tb, v) \/ x.phys = tb2[h][m].addr
  <2>1. PICK lev \in Levels : /\ IsLeaf(tb2, v, lev)
                              /\ x = [phys |-> PhysAt(tb2, v, lev), nx |-> LeafAt(tb2, v, lev).nx,
                                      wr |-> LeafAt(tb2, v, lev).wr]
    BY TranslationMeans
  <2>2. CASE lev = 0
    BY <1>6, <1>8, <2>1, <2>2
  <2>3. CASE lev # 0
    <3>1. IsLeaf(tb, v, lev) /\ LeafAt(tb2, v, lev) = LeafAt(tb, v, lev)
      BY <1>2, <2>1, <2>3
    <3>2. x = [phys |-> PhysAt(tb, v, lev), nx |-> LeafAt(tb, v, lev).nx, wr |-> LeafAt(tb, v, lev).wr]
      BY <2>1, <3>1 DEF PhysAt
    <3> QED
      BY <3>1, <3>2, TranslationMeans
  <2> QED
    BY <2>2, <2>3
<1> QED
  BY <1>4, <1>5, <1>7, <1>8

(* Only permissions are changed. *)
SameTargets(tb, tb2, inUse) ==
    \A g \in inUse, k \in Slots : tb2[g][k].kind = tb[g][k].kind /\ tb2[g][k].addr = tb[g][k].addr

(* Other permissions leave the physical pages as they are. *)
LEMMA ChangeKeeps ==
  ASSUME NEW tb, NEW inUse, NEW height, Tree(tb, inUse, height), NEW tb2,
         SameTargets(tb, tb2, inUse), NEW v \in Nat
  PROVE  /\ \A x \in TranslationIn(tb, v) : \E y \in TranslationIn(tb2, v) : x.phys = y.phys
         /\ \A y \in TranslationIn(tb2, v) : \E x \in TranslationIn(tb, v) : x.phys = y.phys
<1>0. \A g \in inUse, k \in Slots : tb2[g][k].kind = tb[g][k].kind /\ tb2[g][k].addr = tb[g][k].addr
  BY DEF SameTargets
<1>1. \A lev \in Levels : TableAt(tb2, v)[lev] = TableAt(tb, v)[lev]
  BY <1>0, SameWalk
<1>2. ASSUME NEW lev \in Levels
      PROVE  /\ IsLeaf(tb, v, lev) <=> IsLeaf(tb2, v, lev)
             /\ IsLeaf(tb, v, lev) => PhysAt(tb2, v, lev) = PhysAt(tb, v, lev)
  <2>1. PICK k \in Slots : k = Index(lev, v)
    BY Digits
  <2>2. PICK g : g = TableAt(tb, v)[lev] /\ g = TableAt(tb2, v)[lev]
    BY <1>1
  <2>3. g = NoFrame \/ g \in inUse
    BY <2>2, OnPath
  <2> QED
    BY <1>0, <2>1, <2>2, <2>3 DEF IsLeaf, PhysAt, LeafAt
<1>3. ASSUME NEW a, NEW b, NEW x \in TranslationIn(a, v),
             \A lev \in Levels : IsLeaf(a, v, lev) => IsLeaf(b, v, lev) /\ PhysAt(b, v, lev) = PhysAt(a, v, lev)
      PROVE  \E y \in TranslationIn(b, v) : x.phys = y.phys
  <2>1. PICK lev \in Levels : /\ IsLeaf(a, v, lev)
                              /\ x = [phys |-> PhysAt(a, v, lev), nx |-> LeafAt(a, v, lev).nx,
                                      wr |-> LeafAt(a, v, lev).wr]
    BY TranslationMeans
  <2>2. PICK y : y = [phys |-> PhysAt(b, v, lev), nx |-> LeafAt(b, v, lev).nx, wr |-> LeafAt(b, v, lev).wr]
    OBVIOUS
  <2>3. y \in TranslationIn(b, v)
    BY <1>3, <2>1, <2>2, TranslationMeans
  <2>4. x.phys = y.phys
    BY <1>3, <2>1, <2>2
  <2> QED
    BY <2>3, <2>4
<1>4. ASSUME NEW x \in TranslationIn(tb, v) PROVE \E y \in TranslationIn(tb2, v) : x.phys = y.phys
  BY <1>2, <1>3
<1>5. ASSUME NEW x \in TranslationIn(tb2, v) PROVE \E y \in TranslationIn(tb, v) : x.phys = y.phys
  BY <1>2, <1>3
<1> QED
  BY <1>4, <1>5

-----------------------------------------------------------------------------
(* The tables are a tree outside the frames of the page allocator, every    *)
(* frame that map_mmio took is in it, and physical memory is at hhdm.       *)
TablesInv ==
    /\ frames \subseteq BootPool
    /\ \E height : Tree(tables, Frames \ frames, height)
    /\ \A f \in BootPool \ frames : \E g \in Frames \ frames, k \in Slots :
          tables[g][k].kind = "table" /\ tables[g][k].addr = f
    /\ \A r \in Mmio : \A v \in Window(r) : \A x \in Translation(v) : x.phys = v - hhdm

(* map_mmio is at the table of its page and has mapped those before it. *)
WalkInv ==
    /\ page_i \in Nat
    /\ pc = "map" =>
          /\ job \in Mmio /\ page_i <= job.n /\ Window(job) \subseteq mapped
          /\ level \in Levels /\ table # NoFrame /\ table = TableAt(tables, vaddr)[level]
          /\ \A k \in 0 .. page_i - 1 : Translation(hhdm + job.base + k) # {}

(* But for a make_executable in progress, the TLB is current. *)
TlbInv ==
    /\ pc \in {"idle", "map", "exec"}
    /\ pc # "exec" => \A x \in tlb : x[1] \in VPages /\ x[2] \in Translation(x[1])

PagingInv == TablesInv /\ WalkInv /\ TlbInv

(* No step takes a page away, and what it adds is a page that map_mmio was  *)
(* called for, in its place.                                                *)
Follows ==
    \A v \in VPages :
        /\ \A x \in Translation(v) : \E y \in Translation(v)' : x.phys = y.phys
        /\ \A y \in Translation(v)' : \/ \E x \in Translation(v) : x.phys = y.phys
                                      \/ v \in mapped /\ y.phys = v - hhdm
        /\ pc = "map" => Translation(v) \subseteq Translation(v)'

LEMMA WindowPages == \A r \in Mmio : Window(r) \subseteq VPages /\ r.base \in Nat /\ r.n \in Nat
BY PageConstants

(* A step of the CPU or of a call that leaves the tables alone. *)
LEMMA TablesFrame ==
  ASSUME TablesInv, UNCHANGED <<tables, frames>>
  PROVE  TablesInv' /\ Follows
<1>1. \A v : Translation(v)' = Translation(v)
  BY DEF Translation
<1>2. Follows
  BY <1>1 DEF Follows
<1>3. TablesInv'
  BY <1>1 DEF TablesInv
<1> QED
  BY <1>2, <1>3

(* Where map_mmio is, and what it reads there. *)
LEMMA Here ==
  ASSUME TablesInv, WalkInv, pc = "map", page_i < job.n
  PROVE  /\ vaddr \in Window(job) /\ vaddr \in VPages /\ vaddr - hhdm = phys /\ phys \in Nat
         /\ vaddr \in Nat /\ vaddr \in mapped
         /\ table \in Frames \ frames /\ Index(level, vaddr) \in Slots
<1>1. job \in Mmio /\ page_i \in Nat /\ hhdm \in Nat /\ job.base \in Nat /\ job.n \in Nat
      /\ Window(job) \subseteq VPages /\ Window(job) \subseteq mapped
  BY WindowPages, PageConstants DEF WalkInv
<1>2. vaddr \in Window(job) /\ vaddr - hhdm = phys /\ phys \in Nat /\ vaddr \in Nat
  BY <1>1 DEF vaddr, phys, Window
<1>3. level \in Levels /\ table # NoFrame /\ table = TableAt(tables, vaddr)[level]
  BY DEF WalkInv
<1>4. Index(level, vaddr) \in Slots
  BY <1>2, <1>3, Digits
<1>5. PICK height : Tree(tables, Frames \ frames, height)
  BY DEF TablesInv
<1>6. table \in Frames \ frames
  BY <1>2, <1>3, <1>5, OnPath
<1> QED
  BY <1>1, <1>2, <1>4, <1>6

(* The tree with a new, empty table in it. *)
Raised(height, inUse, f, h) == [g \in inUse \cup {f} |-> IF g = f THEN height[h] - 1 ELSE height[g]]

Grafted(tb, tb2, inUse, height, f, h, m) ==
    /\ Tree(tb, inUse, height) /\ tb2 \in [Frames -> [Slots -> Entry]]
    /\ f \in Frames \ inUse /\ h \in inUse /\ m \in Slots /\ height[h] # 0
    /\ tb2[h][m].kind = "table" /\ tb2[h][m].addr = f
    /\ \A k \in Slots : tb2[f][k].kind = "none"
    /\ \A g \in inUse, k \in Slots : g # h \/ k # m => tb2[g][k] = tb[g][k]

LEMMA TreeGrows ==
  ASSUME NEW tb, NEW tb2, NEW inUse, NEW height, NEW f, NEW h, NEW m,
         Grafted(tb, tb2, inUse, height, f, h, m)
  PROVE  Tree(tb2, inUse \cup {f}, Raised(height, inUse, f, h))
<1> USE DEF Grafted
<1> DEFINE ht == Raised(height, inUse, f, h)
           all == inUse \cup {f}
<1>1. height[h] \in Levels /\ height[h] - 1 \in Levels /\ (height[h] - 1) + 1 = height[h]
  BY DEF Tree, Levels
<1>2. ht \in [all -> Levels] /\ ht[f] = height[h] - 1 /\ \A g \in inUse : ht[g] = height[g]
  <2>1. \A g \in inUse : height[g] \in Levels /\ g # f
    BY DEF Tree
  <2> QED
    BY <1>1, <2>1 DEF Raised
<1> HIDE DEF ht
<1>3. ASSUME NEW g \in all, NEW k \in Slots
      PROVE  /\ tb2[g][k].kind = "table" => tb2[g][k].addr \in all /\ ht[tb2[g][k].addr] + 1 = ht[g]
             /\ tb2[g][k].kind = "leaf" => ht[g] # 3
  <2>1. CASE g = f
    BY <2>1
  <2>2. CASE g = h /\ k = m
    BY <1>1, <1>2, <2>2
  <2>3. CASE g \in inUse /\ ~(g = h /\ k = m)
    <3>1. tb2[g][k] = tb[g][k]
      BY <2>3
    <3>2. /\ tb[g][k].kind = "table" => tb[g][k].addr \in inUse /\ height[tb[g][k].addr] + 1 = height[g]
          /\ tb[g][k].kind = "leaf" => height[g] # 3
      BY <2>3 DEF Tree, IsTree
    <3> QED
      BY <1>2, <2>3, <3>1, <3>2
  <2> QED
    BY <2>1, <2>2, <2>3
<1>4. ASSUME NEW g \in all, NEW k \in Slots, tb2[g][k].kind = "table"
      PROVE  \/ g = h /\ k = m /\ tb2[g][k].addr = f
             \/ g \in inUse /\ tb2[g][k] = tb[g][k] /\ tb2[g][k].addr \in inUse
  <2>1. g \in inUse
    BY <1>4
  <2>2. ~(g = h /\ k = m) => tb2[g][k] = tb[g][k]
    BY <2>1
  <2>3. tb[g][k].kind = "table" => tb[g][k].addr \in inUse
    BY <2>1 DEF Tree, IsTree
  <2> QED
    BY <1>4, <2>1, <2>2, <2>3
<1>5. ASSUME NEW g \in all, NEW q \in all, NEW k \in Slots, NEW n \in Slots,
             tb2[g][k].kind = "table", tb2[q][n].kind = "table", tb2[g][k].addr = tb2[q][n].addr
      PROVE  g = q /\ k = n
  <2>1. \/ g = h /\ k = m /\ tb2[g][k].addr = f
        \/ g \in inUse /\ tb2[g][k] = tb[g][k] /\ tb2[g][k].addr \in inUse
    BY <1>4, <1>5
  <2>2. \/ q = h /\ n = m /\ tb2[q][n].addr = f
        \/ q \in inUse /\ tb2[q][n] = tb[q][n] /\ tb2[q][n].addr \in inUse
    BY <1>4, <1>5
  <2>3. CASE /\ g \in inUse /\ tb2[g][k] = tb[g][k] /\ q \in inUse /\ tb2[q][n] = tb[q][n]
    <3>1. tb[g][k].kind = "table" /\ tb[q][n].kind = "table" /\ tb[g][k].addr = tb[q][n].addr
      BY <1>5, <2>3
    <3> QED
      BY <2>3, <3>1 DEF Tree, IsTree
  <2> QED
    BY <1>5, <2>1, <2>2, <2>3
<1>6. ht[root] = 3 /\ root \in all /\ all \subseteq Frames
  BY <1>2 DEF Tree, IsTree
<1>7. IsTree(tb2, all, ht)
  BY <1>3, <1>5, <1>6 DEF IsTree
<1>8. Tree(tb2, all, ht)
  BY <1>2, <1>6, <1>7 DEF Tree
<1> QED
  BY <1>8 DEF ht

LEMMA StepCreate ==
  ASSUME TablesInv, WalkInv, CreateTable
  PROVE  /\ TablesInv' /\ Follows /\ table = TableAt(tables', vaddr)[level]
         /\ \A v \in Nat : Translation(v)' = Translation(v)
<1>1. /\ pc = "map" /\ page_i < job.n /\ level > 0
      /\ tables[table][Index(level, vaddr)].kind = "none"
  BY DEF CreateTable, At
<1>2. PICK m \in Slots : m = Index(level, vaddr)
  BY <1>1, Here
<1>3. PICK f \in frames : /\ frames' = frames \ {f}
                          /\ tables' = [tables EXCEPT ![f] = NewTable(f), ![table][m] = TableEntry(f)]
  BY <1>2 DEF CreateTable
<1>4. PICK height : Tree(tables, Frames \ frames, height)
  BY DEF TablesInv
<1>5. PICK inUse : inUse = Frames \ frames
  OBVIOUS
<1>6. /\ f \in Frames \ inUse /\ f \in Nat /\ table \in inUse /\ f # table /\ f \in BootPool
      /\ tables \in [Frames -> [Slots -> Entry]] /\ inUse \subseteq Frames
      /\ Tree(tables, inUse, height)
  BY <1>1, <1>3, <1>4, <1>5, Here, PageConstants DEF Tree, TablesInv
<1>7. NewTable(f) \in [Slots -> Entry] /\ TableEntry(f) \in Entry
      /\ \A k \in Slots : NewTable(f)[k].kind = "none"
  BY <1>6 DEF NewTable, TableEntry, None, Entry
<1>8. /\ tables' \in [Frames -> [Slots -> Entry]]
      /\ tables'[table][m] = TableEntry(f) /\ tables'[f] = NewTable(f)
      /\ \A g \in inUse, k \in Slots : g # table \/ k # m => tables'[g][k] = tables[g][k]
  <2>1. tables'[f] = NewTable(f)
    BY <1>3, <1>6
  <2>2. tables'[table] = [tables[table] EXCEPT ![m] = TableEntry(f)]
    BY <1>3, <1>6
  <2>3. \A g \in Frames : g # f /\ g # table => tables'[g] = tables[g]
    BY <1>3, <1>6
  <2>4. DOMAIN tables' = Frames /\ tables' = [g \in Frames |-> tables'[g]]
    BY <1>3, <1>6
  <2>5. tables[table] \in [Slots -> Entry]
    BY <1>6
  <2>6. tables'[table] \in [Slots -> Entry] /\ tables'[table][m] = TableEntry(f)
        /\ \A k \in Slots : k # m => tables'[table][k] = tables[table][k]
    BY <1>7, <2>2, <2>5
  <2>7. \A g \in Frames : tables'[g] \in [Slots -> Entry]
    BY <1>6, <1>7, <2>1, <2>3, <2>6
  <2>8. tables' \in [Frames -> [Slots -> Entry]]
    BY <2>4, <2>7
  <2>9. \A g \in inUse, k \in Slots : g # table \/ k # m => tables'[g][k] = tables[g][k]
    BY <1>6, <2>3, <2>6
  <2> QED
    BY <2>1, <2>6, <2>8, <2>9
<1>9. /\ tables[table][m].kind = "none" /\ tables'[table][m].kind = "table"
      /\ tables'[table][m].addr = f
      /\ \A k \in Slots : tables'[f][k].kind = "none"
  BY <1>1, <1>2, <1>7, <1>8 DEF TableEntry
<1>a. PICK tb, tb2, h : tb = tables /\ tb2 = tables' /\ h = table
  OBVIOUS
<1>b. /\ Tree(tb, inUse, height) /\ f \in Frames \ inUse /\ h \in inUse /\ m \in Slots
      /\ tb[h][m].kind = "none" /\ tb2[h][m].kind = "table" /\ tb2[h][m].addr = f
      /\ \A k \in Slots : tb2[f][k].kind = "none"
      /\ \A g \in inUse, k \in Slots : g # h \/ k # m => tb2[g][k] = tb[g][k]
      /\ tb2 \in [Frames -> [Slots -> Entry]]
  BY <1>6, <1>8, <1>9, <1>a
<1>10. \A v \in Nat : Translation(v)' = Translation(v)
  <2>1. \A v \in Nat : TranslationIn(tb2, v) = TranslationIn(tb, v)
    BY <1>b, NewTableKeeps
  <2> QED
    BY <1>a, <2>1 DEF Translation
<1>11. table = TableAt(tables', vaddr)[level]
  <2>1. vaddr \in Nat /\ level \in Levels /\ table # NoFrame /\ table = TableAt(tables, vaddr)[level]
    BY <1>1, Here DEF WalkInv
  <2>2. \A v \in Nat : \A lev \in Levels :
           \/ TableAt(tb2, v)[lev] = TableAt(tb, v)[lev]
           \/ TableAt(tb, v)[lev] = NoFrame /\ TableAt(tb2, v)[lev] = f
    BY <1>b, NewWalk
  <2> QED
    BY <1>a, <2>1, <2>2
<1>12. Follows
  BY <1>10 DEF Follows, VPages
<1>13. height[table] # 0
  <2>1. vaddr \in Nat /\ level \in Levels /\ table # NoFrame /\ table = TableAt(tables, vaddr)[level]
    BY <1>1, Here DEF WalkInv
  <2>2. height[table] = level
    BY <1>6, <2>1, OnPath
  <2> QED
    BY <1>1, <2>1, <2>2 DEF Levels
<1>14. TablesInv'
  <2>1. Frames \ frames' = inUse \cup {f} /\ frames' \subseteq BootPool
    BY <1>3, <1>5, <1>6 DEF TablesInv
  <2>2. \E ht : Tree(tables', Frames \ frames', ht)
    <3>1. height[h] # 0
      BY <1>13, <1>a
    <3>2. Grafted(tb, tb2, inUse, height, f, h, m)
      BY <1>b, <3>1 DEF Grafted
    <3>3. Tree(tb2, inUse \cup {f}, Raised(height, inUse, f, h))
      BY <3>2, TreeGrows
    <3> QED
      BY <1>a, <2>1, <3>3
  <2>3. ASSUME NEW p \in BootPool \ frames'
        PROVE  \E g \in Frames \ frames', k \in Slots :
                  tables'[g][k].kind = "table" /\ tables'[g][k].addr = p
    <3>1. CASE p = f
      BY <1>6, <1>9, <2>1, <3>1
    <3>2. CASE p # f
      <4>1. PICK g \in inUse, k \in Slots : tables[g][k].kind = "table" /\ tables[g][k].addr = p
        BY <1>3, <1>5, <2>3, <3>2 DEF TablesInv
      <4>2. tables'[g][k] = tables[g][k]
        BY <1>8, <1>9, <4>1
      <4> QED
        BY <2>1, <4>1, <4>2
    <3> QED
      BY <3>1, <3>2
  <2>4. \A r \in Mmio : \A v \in Window(r) : \A x \in Translation(v)' : x.phys = v - hhdm
    <3>1. \A r \in Mmio : \A v \in Window(r) : v \in Nat
      BY WindowPages DEF VPages
    <3> QED
      BY <1>10, <3>1 DEF TablesInv
  <2> QED
    BY <2>1, <2>2, <2>3, <2>4 DEF TablesInv
<1> QED
  BY <1>10, <1>11, <1>12, <1>14

(* A change of leaves keeps the tree. *)
LEMMA TreeKept ==
  ASSUME NEW tb, NEW inUse, NEW height, Tree(tb, inUse, height), NEW tb2,
         tb2 \in [Frames -> [Slots -> Entry]],
         \A g \in inUse, k \in Slots :
            /\ tb[g][k].kind = "table" <=> tb2[g][k].kind = "table"
            /\ tb[g][k].kind = "table" => tb2[g][k].addr = tb[g][k].addr
            /\ tb2[g][k].kind = "leaf" => height[g] # 3
  PROVE  Tree(tb2, inUse, height)
<1>1. \A g \in inUse, k \in Slots :
         /\ tb2[g][k].kind = "table" => tb2[g][k].addr \in inUse /\ height[tb2[g][k].addr] + 1 = height[g]
         /\ tb2[g][k].kind = "leaf" => height[g] # 3
  BY DEF Tree, IsTree
<1>2. ASSUME NEW g \in inUse, NEW h \in inUse, NEW k \in Slots, NEW m \in Slots,
             tb2[g][k].kind = "table", tb2[h][m].kind = "table", tb2[g][k].addr = tb2[h][m].addr
      PROVE  g = h /\ k = m
  <2>1. tb[g][k].kind = "table" /\ tb[h][m].kind = "table" /\ tb[g][k].addr = tb[h][m].addr
    BY <1>2
  <2> QED
    BY <2>1 DEF Tree, IsTree
<1>3. IsTree(tb2, inUse, height)
  BY <1>1, <1>2 DEF IsTree, Tree
<1> QED
  BY <1>3 DEF Tree

LEMMA StepMapPage ==
  ASSUME TablesInv, WalkInv, MapPage
  PROVE  /\ TablesInv' /\ Follows /\ TranslationIn(tables', vaddr) # {}
<1>1. /\ pc = "map" /\ page_i < job.n /\ level = 0 /\ frames' = frames
      /\ tables[table][Index(level, vaddr)].kind = "none"
  BY DEF MapPage, At
<1>2. PICK u, m, h, e, tb, tb2 :
         /\ u = vaddr /\ m = Index(0, vaddr) /\ h = table /\ tb = tables /\ tb2 = tables'
         /\ e = [kind |-> "leaf", addr |-> phys, nx |-> TRUE, wr |-> TRUE]
  OBVIOUS
<1>3. PICK height : Tree(tables, Frames \ frames, height)
  BY DEF TablesInv
<1>4. PICK inUse : inUse = Frames \ frames
  OBVIOUS
<1>5. /\ u \in VPages /\ u \in Nat /\ m \in Slots /\ h \in inUse /\ h \in Frames
      /\ u - hhdm = phys /\ phys \in Nat
      /\ u \in mapped /\ tb \in [Frames -> [Slots -> Entry]] /\ inUse \subseteq Frames
      /\ Tree(tb, inUse, height) /\ tb[h][m].kind = "none"
      /\ h = TableAt(tb, u)[0] /\ m = Index(0, u) /\ h # NoFrame
  BY <1>1, <1>2, <1>3, <1>4, Here DEF Tree, WalkInv
<1>6. e \in Entry /\ e.kind = "leaf" /\ e.addr = phys
  BY <1>2, <1>5 DEF Entry
<1>7. tb2 = [tb EXCEPT ![h][m] = e]
  BY <1>1, <1>2 DEF MapPage
<1>8. /\ tb2 \in [Frames -> [Slots -> Entry]] /\ tb2[h][m] = e
      /\ \A g \in inUse, k \in Slots : g # h \/ k # m => tb2[g][k] = tb[g][k]
  <2>1. tb2[h] = [tb[h] EXCEPT ![m] = e] /\ tb[h] \in [Slots -> Entry]
    BY <1>5, <1>7
  <2>2. \A g \in Frames : g # h => tb2[g] = tb[g]
    BY <1>5, <1>7
  <2>3. /\ tb2[h] \in [Slots -> Entry] /\ tb2[h][m] = e
        /\ \A k \in Slots : k # m => tb2[h][k] = tb[h][k]
    BY <1>5, <1>6, <2>1
  <2>4. DOMAIN tb2 = Frames /\ tb2 = [g \in Frames |-> tb2[g]]
    BY <1>5, <1>7
  <2>5. \A g \in Frames : tb2[g] \in [Slots -> Entry]
    BY <1>5, <2>2, <2>3
  <2>6. tb2 \in [Frames -> [Slots -> Entry]]
    BY <2>4, <2>5
  <2> QED
    BY <1>5, <2>2, <2>3, <2>6
<1>9. height[h] # 3
  BY <1>5, OnPath DEF Levels
<1>10. Tree(tb2, inUse, height)
  <2>1. ASSUME NEW g \in inUse, NEW k \in Slots
        PROVE  /\ tb[g][k].kind = "table" <=> tb2[g][k].kind = "table"
               /\ tb[g][k].kind = "table" => tb2[g][k].addr = tb[g][k].addr
               /\ tb2[g][k].kind = "leaf" => height[g] # 3
    <3>1. CASE g = h /\ k = m
      BY <1>5, <1>6, <1>8, <1>9, <3>1
    <3>2. CASE g # h \/ k # m
      <4>1. tb2[g][k] = tb[g][k]
        BY <1>8, <3>2
      <4> QED
        BY <1>5, <4>1 DEF Tree, IsTree
    <3> QED
      BY <3>1, <3>2
  <2> QED
    BY <1>5, <1>8, <2>1, TreeKept
<1>11. ASSUME NEW v \in VPages
       PROVE  /\ TranslationIn(tb, v) \subseteq TranslationIn(tb2, v)
              /\ v # u => TranslationIn(tb2, v) \subseteq TranslationIn(tb, v)
              /\ v = u => /\ TranslationIn(tb2, v) # {}
                          /\ \A x \in TranslationIn(tb2, v) :
                                x \in TranslationIn(tb, v) \/ x.phys = u - hhdm
  <2>1. tb2[h][m].kind = "leaf" /\ tb2[h][m].addr \in Nat /\ tb2[h][m].addr = u - hhdm
    BY <1>5, <1>6, <1>8
  <2>2. \A g \in inUse, k \in Slots : g # h \/ k # m => tb2[g][k] = tb[g][k]
    BY <1>8
  <2>3. /\ TranslationIn(tb, v) \subseteq TranslationIn(tb2, v)
        /\ v # u => TranslationIn(tb2, v) \subseteq TranslationIn(tb, v)
        /\ v = u => /\ TranslationIn(tb2, v) # {}
                    /\ \A x \in TranslationIn(tb2, v) :
                          x \in TranslationIn(tb, v) \/ x.phys = tb2[h][m].addr
    <3>1. LeafAdded(tb, tb2, inUse, height, u, h, m)
      BY <1>5, <2>1, <2>2 DEF LeafAdded
    <3> QED
      BY <3>1, NewLeafMaps
  <2> QED
    BY <2>1, <2>3
<1>12. ASSUME NEW v \in VPages
       PROVE  /\ Translation(v) \subseteq Translation(v)'
              /\ \A y \in Translation(v)' : y \in Translation(v) \/ (v = u /\ y.phys = v - hhdm)
              /\ v = u => Translation(v)' # {}
  BY <1>2, <1>11 DEF Translation
<1>13. Follows
  BY <1>5, <1>12 DEF Follows
<1>14. TablesInv'
  <2>1. \A f \in BootPool \ frames : \E g \in Frames \ frames, k \in Slots :
           tables'[g][k].kind = "table" /\ tables'[g][k].addr = f
    <3> SUFFICES ASSUME NEW f \in BootPool \ frames
                 PROVE  \E g \in inUse, k \in Slots : tb2[g][k].kind = "table" /\ tb2[g][k].addr = f
      BY <1>2, <1>4
    <3>1. PICK g \in inUse, k \in Slots : tb[g][k].kind = "table" /\ tb[g][k].addr = f
      BY <1>2, <1>4 DEF TablesInv
    <3>2. tb2[g][k] = tb[g][k]
      BY <1>5, <1>8, <3>1
    <3> QED
      BY <3>1, <3>2
  <2>2. \A r \in Mmio : \A v \in Window(r) : \A x \in Translation(v)' : x.phys = v - hhdm
    <3>1. \A r \in Mmio : \A v \in Window(r) : v \in VPages
      BY WindowPages
    <3> QED
      BY <1>12, <3>1 DEF TablesInv
  <2>3. Tree(tables', Frames \ frames, height)
    BY <1>2, <1>4, <1>10
  <2> QED
    BY <1>1, <2>1, <2>2, <2>3 DEF TablesInv
<1>15. TranslationIn(tables', vaddr) # {}
  BY <1>2, <1>5, <1>11
<1> QED
  BY <1>13, <1>14, <1>15

LEMMA StepChange ==
  ASSUME TablesInv, ChangePage
  PROVE  TablesInv' /\ Follows
<1>1. frames' = frames /\ pc = "exec"
  BY DEF ChangePage
<1>2. PICK tb, tb2 : tb = tables /\ tb2 = tables'
  OBVIOUS
<1>3. PICK height : Tree(tables, Frames \ frames, height)
  BY DEF TablesInv
<1>4. PICK inUse : inUse = Frames \ frames
  OBVIOUS
<1>5. tb \in [Frames -> [Slots -> Entry]] /\ inUse \subseteq Frames /\ Tree(tb, inUse, height)
  BY <1>2, <1>3, <1>4 DEF Tree
<1>6. /\ tb2 \in [Frames -> [Slots -> Entry]]
      /\ \A g \in Frames, k \in Slots : tb2[g][k].kind = tb[g][k].kind /\ tb2[g][k].addr = tb[g][k].addr
  <2>1. PICK B : tb2 = [g \in Frames |-> [k \in Slots |->
                          IF <<g, k>> \in B THEN [tb[g][k] EXCEPT !.nx = FALSE, !.wr = TRUE]
                          ELSE tb[g][k]]]
    <3> DEFINE v == job.base + page_i
               C == {p \in Frames \X Slots :
                       \E lev \in {lev \in Levels : IsLeaf(tables, v, lev)} :
                          p[1] = TableAt(tables, v)[lev] /\ p[2] = Index(lev, v)}
    <3>1. \A g \in Frames, k \in Slots :
             <<g, k>> \in C <=> \E lev \in {lev \in Levels : IsLeaf(tables, v, lev)} :
                                   g = TableAt(tables, v)[lev] /\ k = Index(lev, v)
      OBVIOUS
    <3>2. tb2 = [g \in Frames |-> [k \in Slots |->
                   IF <<g, k>> \in C THEN [tb[g][k] EXCEPT !.nx = FALSE, !.wr = TRUE] ELSE tb[g][k]]]
      BY <1>2, <3>1 DEF ChangePage
    <3> QED
      BY <3>2
  <2>2. ASSUME NEW g \in Frames, NEW k \in Slots
        PROVE  /\ tb2[g][k] \in Entry
               /\ tb2[g][k].kind = tb[g][k].kind /\ tb2[g][k].addr = tb[g][k].addr
    <3>1. tb[g][k] \in Entry
      BY <1>5
    <3>2. tb2[g][k] = tb[g][k] \/ tb2[g][k] = [tb[g][k] EXCEPT !.nx = FALSE, !.wr = TRUE]
      BY <2>1
    <3> QED
      BY <3>1, <3>2 DEF Entry
  <2>3. tb2 \in [Frames -> [Slots -> Entry]]
    BY <2>1, <2>2
  <2> QED
    BY <2>2, <2>3
<1>7. Tree(tb2, inUse, height)
  <2>1. \A g \in inUse, k \in Slots :
           /\ tb[g][k].kind = "table" <=> tb2[g][k].kind = "table"
           /\ tb[g][k].kind = "table" => tb2[g][k].addr = tb[g][k].addr
           /\ tb2[g][k].kind = "leaf" => height[g] # 3
    BY <1>5, <1>6 DEF Tree, IsTree
  <2> QED
    BY <1>5, <1>6, <2>1, TreeKept
<1>8. ASSUME NEW v \in VPages
      PROVE  /\ \A x \in Translation(v) : \E y \in Translation(v)' : x.phys = y.phys
             /\ \A y \in Translation(v)' : \E x \in Translation(v) : x.phys = y.phys
  <2>1. SameTargets(tb, tb2, inUse)
    BY <1>5, <1>6 DEF SameTargets
  <2>2. v \in Nat
    BY DEF VPages
  <2>3. /\ \A x \in TranslationIn(tb, v) : \E y \in TranslationIn(tb2, v) : x.phys = y.phys
        /\ \A y \in TranslationIn(tb2, v) : \E x \in TranslationIn(tb, v) : x.phys = y.phys
    BY <1>5, <2>1, <2>2, ChangeKeeps
  <2> QED
    BY <1>2, <2>3 DEF Translation
<1>9. Follows
  BY <1>1, <1>8 DEF Follows
<1>10. TablesInv'
  <2>1. \A f \in BootPool \ frames : \E g \in Frames \ frames, k \in Slots :
           tables'[g][k].kind = "table" /\ tables'[g][k].addr = f
    BY <1>2, <1>6 DEF TablesInv
  <2>2. \A r \in Mmio : \A v \in Window(r) : \A x \in Translation(v)' : x.phys = v - hhdm
    <3>1. \A r \in Mmio : \A v \in Window(r) : v \in VPages
      BY WindowPages
    <3> QED
      BY <1>8, <3>1 DEF TablesInv
  <2>3. Tree(tables', Frames \ frames, height)
    BY <1>2, <1>4, <1>7
  <2> QED
    BY <1>1, <2>1, <2>2, <2>3 DEF TablesInv
<1> QED
  BY <1>9, <1>10

-----------------------------------------------------------------------------
(* A page is done: those before it stay mapped, and so is it. *)
LEMMA StepNextPage ==
  ASSUME TablesInv, WalkInv, TlbInv, pc = "map", page_i < job.n, NextPage, UNCHANGED <<pc, job, mapped>>,
         Follows, TranslationIn(tables', vaddr) # {}
  PROVE  WalkInv' /\ TlbInv'
<1>1. /\ page_i \in Nat /\ job \in Mmio /\ job.n \in Nat /\ hhdm \in Nat /\ job.base \in Nat
      /\ Window(job) \subseteq mapped /\ Window(job) \subseteq VPages
      /\ page_i' = page_i + 1 /\ table' = root /\ level' = 3 /\ root # NoFrame
      /\ tlb' = {x \in tlb : x[1] # vaddr}
  BY WindowPages, PageConstants DEF WalkInv, NextPage
<1>2. ASSUME NEW k \in 0 .. page_i' - 1 PROVE Translation(hhdm + job.base + k)' # {}
  <2>1. CASE k = page_i
    <3>1. hhdm + job.base + k = vaddr
      BY <1>1, <2>1 DEF vaddr, phys
    <3>2. Translation(hhdm + job.base + k)' = TranslationIn(tables', hhdm + job.base + k)
      BY <1>1 DEF Translation
    <3> QED
      BY <3>1, <3>2
  <2>2. CASE k \in 0 .. page_i - 1
    <3>1. PICK v : v = hhdm + job.base + k
      OBVIOUS
    <3>2. v \in Window(job) /\ v \in VPages
      BY <1>1, <2>2, <3>1 DEF Window
    <3>3. Translation(v) # {}
      BY <2>2, <3>1 DEF WalkInv
    <3>4. Translation(v) \subseteq Translation(v)'
      BY <3>2 DEF Follows
    <3> QED
      BY <3>1, <3>3, <3>4 DEF Translation
  <2> QED
    BY <1>1, <2>1, <2>2
<1>3. table' = TableAt(tables', vaddr')[3]
  BY <1>1, WalkSteps
<1>4. WalkInv'
  <2>1. page_i' \in Nat /\ page_i' <= job.n
    BY <1>1
  <2>2. 3 \in Levels
    BY DEF Levels
  <2>3. table' = TableAt(tables, vaddr)'[level']
    BY <1>1, <1>3
  <2> QED
    BY <1>1, <1>2, <2>1, <2>2, <2>3 DEF WalkInv
<1>5. TlbInv'
  <2>1. \A x \in tlb' : x[1] \in VPages /\ x[2] \in Translation(x[1])
    BY <1>1 DEF TlbInv
  <2>2. \A v \in VPages : Translation(v) \subseteq Translation(v)'
    BY DEF Follows
  <2>3. \A x \in tlb' : x[1] \in VPages /\ x[2] \in Translation(x[1])'
    BY <2>1, <2>2
  <2> QED
    BY <2>3 DEF TlbInv, Translation
<1> QED
  BY <1>4, <1>5

LEMMA StepKeep ==
  ASSUME TablesInv, WalkInv, KeepPage
  PROVE  TablesInv' /\ Follows /\ TranslationIn(tables', vaddr) # {}
<1>1. pc = "map" /\ page_i < job.n /\ UNCHANGED <<tables, frames>>
  BY DEF KeepPage, At
<1>2. IsLeaf(tables, vaddr, level) /\ level \in Levels
  BY DEF IsLeaf, WalkInv, KeepPage, At
<1>3. TranslationIn(tables, vaddr) # {}
  BY <1>2 DEF TranslationIn
<1> QED
  BY <1>1, <1>3, TablesFrame

LEMMA StepDescend ==
  ASSUME TablesInv, WalkInv, Descend
  PROVE  WalkInv'
<1>1. /\ pc = "map" /\ page_i < job.n /\ tables[table][Index(level, vaddr)].kind = "table"
      /\ table' = tables[table][Index(level, vaddr)].addr /\ level' = level - 1
      /\ UNCHANGED <<tables, pc, job, page_i, mapped>>
  BY DEF Descend, At
<1>2. /\ table \in Frames \ frames /\ vaddr \in Nat /\ Index(level, vaddr) \in Slots
      /\ level \in Levels /\ table # NoFrame /\ table = TableAt(tables, vaddr)[level]
  BY <1>1, Here DEF WalkInv
<1>3. PICK height : Tree(tables, Frames \ frames, height)
  BY DEF TablesInv
<1>4. height[table] = level
  BY <1>2, <1>3, OnPath
<1>5. table' \in Frames \ frames /\ height[table'] + 1 = level
  BY <1>1, <1>2, <1>3, <1>4 DEF Tree, IsTree
<1>6. height[table'] \in Levels
  BY <1>3, <1>5 DEF Tree
<1>7. PICK lev \in 0 .. 2 : lev = level' /\ lev + 1 = level
  BY <1>1, <1>2, <1>5, <1>6 DEF Levels
<1>8. TableAt(tables, vaddr)[lev] = Below(tables, TableAt(tables, vaddr)[lev + 1], lev + 1, vaddr)
  BY <1>7, WalkSteps
<1>9. TableAt(tables, vaddr)[lev] = table'
  BY <1>1, <1>2, <1>7, <1>8 DEF Below
<1>10. vaddr' = vaddr
  BY <1>1 DEF vaddr, phys
<1>11. table' # NoFrame /\ level' \in Levels
  BY <1>5, <1>7, PageConstants DEF Levels
<1>12. \A v : Translation(v)' = Translation(v)
  BY <1>1 DEF Translation
<1>13. table' = TableAt(tables', vaddr')[level']
  BY <1>1, <1>7, <1>9, <1>10
<1>14. \A k \in 0 .. page_i' - 1 : Translation(hhdm + job.base + k)' # {}
  BY <1>1, <1>12 DEF WalkInv, Translation
<1> QED
  BY <1>1, <1>11, <1>13, <1>14 DEF WalkInv, Translation

LEMMA StepMapMmio ==
  ASSUME NEW r \in Mmio, MapMmio(r)
  PROVE  WalkInv'
<1>1. /\ job' = r /\ page_i' = 0 /\ table' = root /\ level' = 3 /\ Window(r) \subseteq mapped'
      /\ r.n \in Nat /\ root # NoFrame
  BY WindowPages, PageConstants DEF MapMmio
<1>2. table' = TableAt(tables', vaddr')[3]
  BY <1>1, WalkSteps
<1>3. 0 .. 0 - 1 = {}
  OBVIOUS
<1> QED
  BY <1>1, <1>2, <1>3 DEF WalkInv, Levels

-----------------------------------------------------------------------------
LEMMA PagingStart == PagingInit => PagingInv
<1> SUFFICES ASSUME PagingInit PROVE PagingInv
  OBVIOUS
<1>1. tables \in BootTables /\ frames = BootPool /\ tlb = {} /\ pc = "idle" /\ page_i = 0
  BY DEF PagingInit
<1>2. PICK height \in [Frames \ BootPool -> Levels] : IsTree(tables, Frames \ BootPool, height)
  BY <1>1, PageConstants
<1>3. Tree(tables, Frames \ frames, height)
  BY <1>1, <1>2, PageConstants DEF Tree
<1>4. TablesInv
  BY <1>1, <1>3, PageConstants DEF TablesInv, Translation
<1>5. WalkInv /\ TlbInv
  BY <1>1 DEF WalkInv, TlbInv
<1> QED
  BY <1>4, <1>5 DEF PagingInv

(* Every step keeps the invariant and leaves the pages in their places. *)
LEMMA PagingStep == PagingInv /\ [PagingNext]_pagingVars => PagingInv' /\ Follows
<1> SUFFICES ASSUME TablesInv, WalkInv, TlbInv, [PagingNext]_pagingVars
             PROVE  TablesInv' /\ WalkInv' /\ TlbInv' /\ Follows
  BY DEF PagingInv
<1>0. UNCHANGED tables => \A v : Translation(v)' = Translation(v)
  BY DEF Translation
<1>f. UNCHANGED <<tables, frames>> => TablesInv' /\ Follows
  BY TablesFrame
<1>w. UNCHANGED <<tables, pc, job, page_i, walk, mapped>> => WalkInv'
  BY <1>0 DEF WalkInv, walk, vaddr, phys, Translation
<1>1. CASE UNCHANGED pagingVars
  BY <1>0, <1>1, <1>f, <1>w DEF pagingVars, TlbInv, Translation
<1>2. ASSUME NEW v \in VPages, Access(v) PROVE TablesInv' /\ WalkInv' /\ TlbInv' /\ Follows
  <2>1. TlbInv'
    BY <1>0, <1>2 DEF Access, TlbInv, Translation
  <2> QED
    BY <1>2, <1>f, <1>w, <2>1 DEF Access
<1>3. ASSUME NEW r \in Mmio, MapMmio(r) PROVE TablesInv' /\ WalkInv' /\ TlbInv' /\ Follows
  <2>1. TlbInv'
    BY <1>0, <1>3 DEF MapMmio, TlbInv, Translation
  <2>2. WalkInv'
    BY <1>3, StepMapMmio
  <2> QED
    BY <1>3, <1>f, <2>1, <2>2 DEF MapMmio
<1>4. CASE Descend
  <2>1. TlbInv'
    BY <1>0, <1>4 DEF Descend, TlbInv, Translation
  <2>2. WalkInv'
    BY <1>4, StepDescend
  <2> QED
    BY <1>4, <1>f, <2>1, <2>2 DEF Descend
<1>5. CASE CreateTable
  <2>1. /\ TablesInv' /\ Follows /\ table = TableAt(tables', vaddr)[level]
        /\ \A v \in Nat : Translation(v)' = Translation(v)
    BY <1>5, StepCreate
  <2>2. pc = "map" /\ page_i < job.n /\ UNCHANGED <<tlb, pc, job, page_i, table, level, mapped>>
    BY <1>5 DEF CreateTable, At, walk
  <2>3. vaddr' = vaddr
    BY <2>2 DEF vaddr, phys
  <2>4. \A k \in 0 .. page_i - 1 : hhdm + job.base + k \in Nat
    BY <2>2, WindowPages, PageConstants DEF WalkInv
  <2>5. \A k \in 0 .. page_i' - 1 : Translation(hhdm + job.base + k)' # {}
    BY <2>1, <2>2, <2>4 DEF WalkInv, Translation
  <2>6. table' = TableAt(tables', vaddr')[level']
    BY <2>1, <2>2, <2>3
  <2>7. WalkInv'
    BY <2>2, <2>5, <2>6 DEF WalkInv
  <2>8. TlbInv'
    BY <2>1, <2>2 DEF TlbInv, Translation, VPages
  <2> QED
    BY <2>1, <2>7, <2>8
<1>6. CASE CreateFails
  <2>1. WalkInv' /\ TlbInv'
    BY <1>0, <1>6 DEF CreateFails, At, WalkInv, TlbInv, Translation
  <2> QED
    BY <1>6, <1>f, <2>1 DEF CreateFails
<1>7. CASE KeepPage
  <2>1. TablesInv' /\ Follows /\ TranslationIn(tables', vaddr) # {}
    BY <1>7, StepKeep
  <2>2. WalkInv' /\ TlbInv'
    BY <1>7, <2>1, StepNextPage DEF KeepPage, At
  <2> QED
    BY <2>1, <2>2
<1>8. CASE MapPage
  <2>1. TablesInv' /\ Follows /\ TranslationIn(tables', vaddr) # {}
    BY <1>8, StepMapPage
  <2>2. WalkInv' /\ TlbInv'
    BY <1>8, <2>1, StepNextPage DEF MapPage, At
  <2> QED
    BY <2>1, <2>2
<1>9. CASE MapReturns
  <2>1. WalkInv' /\ TlbInv'
    BY <1>0, <1>9 DEF MapReturns, WalkInv, TlbInv, Translation
  <2> QED
    BY <1>9, <1>f, <2>1 DEF MapReturns
<1>10. ASSUME NEW r \in Buffers, MakeExecutable(r) PROVE TablesInv' /\ WalkInv' /\ TlbInv' /\ Follows
  <2>1. WalkInv' /\ TlbInv'
    BY <1>10 DEF MakeExecutable, WalkInv, TlbInv
  <2> QED
    BY <1>10, <1>f, <2>1 DEF MakeExecutable
<1>11. CASE ChangePage
  <2>1. pc = "exec" /\ pc' = "exec" /\ page_i' = page_i + 1
    BY <1>11 DEF ChangePage
  <2>2. WalkInv' /\ TlbInv'
    BY <2>1 DEF WalkInv, TlbInv
  <2> QED
    BY <1>11, <2>2, StepChange
<1>12. CASE ReloadCr3
  <2>1. WalkInv' /\ TlbInv'
    BY <1>12 DEF ReloadCr3, FlushedTlb, WalkInv, TlbInv
  <2> QED
    BY <1>12, <1>f, <2>1 DEF ReloadCr3
<1> QED
  BY <1>1, <1>2, <1>3, <1>4, <1>5, <1>6, <1>7, <1>8, <1>9, <1>10, <1>11, <1>12 DEF PagingNext

LEMMA PagesAreMapped == PagingInv => MmioMapped
<1> SUFFICES ASSUME TablesInv, WalkInv PROVE MmioMapped
  BY DEF PagingInv
<1>1. ASSUME pc = "map", NEW k \in 0 .. page_i - 1
      PROVE  {x.phys : x \in Translation(hhdm + job.base + k)} = {job.base + k}
  <2>1. PICK v : v = hhdm + job.base + k
    OBVIOUS
  <2>2. /\ job \in Mmio /\ job.base \in Nat /\ job.n \in Nat /\ hhdm \in Nat /\ page_i \in Nat
        /\ page_i <= job.n
    BY <1>1, WindowPages, PageConstants DEF WalkInv
  <2>3. v \in Window(job) /\ v - hhdm = job.base + k
    BY <2>1, <2>2 DEF Window
  <2>4. \A x \in Translation(v) : x.phys = job.base + k
    BY <2>2, <2>3 DEF TablesInv
  <2>5. Translation(v) # {}
    BY <1>1, <2>1 DEF WalkInv
  <2> QED
    BY <2>1, <2>4, <2>5
<1>2. PICK height : Tree(tables, Frames \ frames, height)
  BY DEF TablesInv
<1>3. ASSUME NEW f \in BootPool, f \in frames PROVE Refs(f) = {}
  BY <1>2, <1>3 DEF Refs, Tree, IsTree
<1>4. ASSUME NEW f \in BootPool, f \notin frames PROVE \E x \in Refs(f) : Refs(f) = {x}
  <2>1. PICK g \in Frames \ frames, k \in Slots : tables[g][k].kind = "table" /\ tables[g][k].addr = f
    BY <1>4 DEF TablesInv
  <2>2. <<g, k>> \in Refs(f)
    BY <2>1 DEF Refs
  <2>3. ASSUME NEW y \in Refs(f) PROVE y = <<g, k>>
    <3>1. PICK h \in Frames \ frames, m \in Slots :
             y = <<h, m>> /\ tables[h][m].kind = "table" /\ tables[h][m].addr = f
      BY <2>3 DEF Refs
    <3>2. g = h /\ k = m
      BY <1>2, <2>1, <3>1 DEF Tree, IsTree
    <3> QED
      BY <3>1, <3>2
  <2> QED
    BY <2>2, <2>3
<1> QED
  BY <1>1, <1>3, <1>4 DEF MmioMapped

LEMMA PagingInvariant == PagingSpec => []PagingInv
BY PagingStart, PagingStep, PTL DEF PagingSpec

(* Every page that map_mmio is done with leads to the physical page asked   *)
(* for, and each frame it took from the page allocator is a table that one  *)
(* entry refers to (mem.rs), whatever tables the boot loader left.          *)
THEOREM MmioIsMapped == PagingSpec => []MmioMapped
BY PagingInvariant, PagesAreMapped, PTL

(* Between calls of map_mmio and make_executable the CPU has no outdated    *)
(* translation in its TLB: invlpg and the reload of CR3 (mem.rs) suffice.   *)
THEOREM TlbIsFresh == PagingSpec => []TlbFresh
<1>1. PagingInv => TlbFresh
  BY DEF PagingInv, TlbInv, TlbFresh
<1> QED
  BY <1>1, PagingInvariant, PTL

(* No step of map_mmio or make_executable (mem.rs) moves or unmaps a page,  *)
(* and only the pages of the region become mapped, each in its place.       *)
THEOREM OnlyMmioIsAdded == PagingSpec => OnlyMmioAppears
<1>1. PagingInv /\ [PagingNext]_pagingVars =>
        [\A v \in VPages :
           IF Translation(v) # {}
           THEN \A x \in Translation(v) : \E y \in Translation(v)' : x.phys = y.phys
           ELSE \A y \in Translation(v)' : v \in mapped /\ y.phys = v - hhdm]_pagingVars
  BY PagingStep DEF Follows
<1> QED
  BY <1>1, PagingInvariant, PTL DEF PagingSpec, OnlyMmioAppears
=============================================================================
