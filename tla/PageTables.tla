----------------------------- MODULE PageTables -----------------------------
(***************************************************************************)
(* map_mmio and make_executable of src/kern/mem.rs: changes to the four    *)
(* level page tables that the boot loader left, while the CPU keeps using  *)
(* them through its TLB.  Addresses are page numbers; a table has FANOUT   *)
(* entries, and level 3 is the PML4, level 0 a page table.                 *)
(***************************************************************************)
EXTENDS Naturals

CONSTANTS FANOUT,       \* entries of a table
          Frames,       \* page frames that hold or can hold a table
          root,         \* the PML4 in CR3
          NoFrame,
          BootTables,   \* the tables a boot loader may leave
          BootPool,     \* the frames the page allocator can give
          hhdm,         \* where physical memory is mapped
          Mmio,         \* [base, n]: the regions map_mmio is called for
          Buffers       \* [base, n]: the modules make_executable is called for

Levels == 0 .. 3
Slots == 0 .. FANOUT - 1
Entry == [kind : {"none", "table", "leaf"}, addr : Nat, nx : BOOLEAN, wr : BOOLEAN]

(* The pages that an entry of a level stands for: vaddr is shifted by 12,   *)
(* 21, 30 and 39 bits.                                                      *)
Size(lev) == CASE lev = 0 -> 1
               [] lev = 1 -> FANOUT
               [] lev = 2 -> FANOUT * FANOUT
               [] OTHER -> FANOUT * FANOUT * FANOUT

VPages == 0 .. FANOUT * Size(3) - 1

(* The index of a page in a table of a level. *)
Index(lev, v) == (v \div Size(lev)) % FANOUT

(* The table that an entry of table g leads to on the walk for page v. *)
Below(tb, g, lev, v) ==
    IF g # NoFrame /\ tb[g][Index(lev, v)].kind = "table" THEN tb[g][Index(lev, v)].addr ELSE NoFrame

(* The table of each level that the walk for page v goes through. *)
TableAt(tb, v) ==
    LET pdpt == Below(tb, root, 3, v)
        pd == Below(tb, pdpt, 2, v)
        pt == Below(tb, pd, 1, v)
    IN  [lev \in Levels |-> CASE lev = 3 -> root [] lev = 2 -> pdpt [] lev = 1 -> pd [] OTHER -> pt]

IsLeaf(tb, v, lev) ==
    LET g == TableAt(tb, v)[lev]
    IN  g # NoFrame /\ tb[g][Index(lev, v)].kind = "leaf"

(* Where page v leads: at most one physical page with its permissions. *)
TranslationIn(tb, v) ==
    LET at == TableAt(tb, v)
        leaf(lev) == tb[at[lev]][Index(lev, v)]
    IN  {[phys |-> leaf(lev).addr + (v % Size(lev)), nx |-> leaf(lev).nx, wr |-> leaf(lev).wr] :
            lev \in {lev \in Levels : IsLeaf(tb, v, lev)}}

(* The pages in which map_mmio puts a region. *)
Window(r) == hhdm + r.base .. hhdm + r.base + r.n - 1

(* What the boot loader guarantees: the tables are a tree, in which a table *)
(* has its height, and physical memory is mapped at hhdm if at all.          *)
IsTree(tb, inUse, height) ==
    /\ height[root] = 3
    /\ \A g \in inUse, k \in Slots :
          /\ tb[g][k].kind = "table" => tb[g][k].addr \in inUse /\ height[tb[g][k].addr] + 1 = height[g]
          /\ tb[g][k].kind = "leaf" => height[g] # 3
    /\ \A g, h \in inUse : \A k, m \in Slots :
          /\ tb[g][k].kind = "table" /\ tb[h][m].kind = "table"
          /\ tb[g][k].addr = tb[h][m].addr
          => g = h /\ k = m

ASSUME PageConstants ==
    /\ FANOUT \in Nat \ {0}
    /\ Frames \subseteq Nat /\ root \in Frames /\ NoFrame \notin Frames
    /\ BootPool \subseteq Frames \ {root}
    /\ BootTables \subseteq [Frames -> [Slots -> Entry]]
    /\ hhdm \in Nat
    /\ \A r \in Mmio \cup Buffers : r.base \in Nat /\ r.n \in Nat
    /\ \A r \in Mmio : Window(r) \subseteq VPages
    /\ \A tb \in BootTables :
          /\ \E height \in [Frames \ BootPool -> Levels] : IsTree(tb, Frames \ BootPool, height)
          /\ \A r \in Mmio : \A v \in Window(r) : \A x \in TranslationIn(tb, v) : x.phys = v - hhdm

VARIABLES tables,       \* content of the frames, seen as entries
          frames,       \* frames the page allocator has not given out
          tlb,          \* one cached translation: entries do not affect
                        \* each other, so any one of them stands for all
          pc, job,      \* the call in progress and its region
          page_i,       \* its page
          table, level, \* the table and level map_mmio has walked to
          mapped        \* ghost: pages that map_mmio was called for

walk == <<table, level>>
pagingVars == <<tables, frames, tlb, pc, job, page_i, walk, mapped>>

None == [kind |-> "none", addr |-> 0, nx |-> FALSE, wr |-> FALSE]

PagingInit ==
    /\ tables \in BootTables
    /\ frames = BootPool
    /\ tlb = {}
    /\ pc = "idle"
    /\ job = [base |-> 0, n |-> 0] /\ page_i = 0
    /\ table = root /\ level = 3
    /\ mapped = {}

-----------------------------------------------------------------------------
Translation(v) == TranslationIn(tables, v)

(* The CPU uses a page that is mapped, and may cache its translation. *)
Access(v) ==
    /\ tlb = {}
    /\ tlb' = {<<v, x>> : x \in Translation(v)}
    /\ UNCHANGED <<tables, frames, pc, job, page_i, walk, mapped>>

-----------------------------------------------------------------------------
(* map_mmio(phys_base, num_pages) *)
MapMmio(r) ==
    /\ pc = "idle"
    /\ pc' = "map" /\ job' = r /\ page_i' = 0
    /\ table' = root /\ level' = 3
    /\ mapped' = mapped \cup Window(r)
    /\ UNCHANGED <<tables, frames, tlb>>

(* Mutant: every page of the region is taken for its first. *)
phys_Base == job.base

phys == job.base + page_i
vaddr == hhdm + phys

At(kind) == pc = "map" /\ page_i < job.n /\ tables[table][Index(level, vaddr)].kind = kind

(* invlpg, and on to the next page. *)
NextPage ==
    /\ page_i' = page_i + 1
    /\ table' = root /\ level' = 3
    /\ tlb' = {x \in tlb : x[1] # vaddr}

Descend ==
    /\ At("table")
    /\ table' = tables[table][Index(level, vaddr)].addr
    /\ level' = level - 1
    /\ UNCHANGED <<tables, frames, tlb, pc, job, page_i, mapped>>

(* Mutant: the new table is not cleared. *)
NewTable_Dirty(f) == tables[f]

(* write_bytes(page, 0, 4096) *)
NewTable(f) == [k \in Slots |-> None]

(* page_phys | PTE_PRESENT | PTE_WRITABLE *)
TableEntry(f) == [kind |-> "table", addr |-> f, nx |-> FALSE, wr |-> TRUE]

(* A missing table is allocated, cleared and entered. *)
CreateTable ==
    /\ At("none") /\ level > 0
    /\ \E f \in frames :
         /\ frames' = frames \ {f}
         /\ tables' = [tables EXCEPT
               ![f] = NewTable(f),
               ![table][Index(level, vaddr)] = TableEntry(f)]
    /\ UNCHANGED <<tlb, pc, job, page_i, walk, mapped>>

(* There is no memory for it: map_mmio returns 0 half way. *)
CreateFails ==
    /\ At("none") /\ level > 0
    /\ frames = {}
    /\ pc' = "idle"
    /\ UNCHANGED <<tables, frames, tlb, job, page_i, walk, mapped>>

(* A page that is mapped, by a small or a large page, stays as it is. *)
KeepPage ==
    /\ At("leaf")
    /\ NextPage
    /\ UNCHANGED <<tables, frames, pc, job, mapped>>

(* PTE_PRESENT | PTE_WRITABLE | PTE_PWT | PTE_PCD | PTE_NX *)
MapPage ==
    /\ At("none") /\ level = 0
    /\ tables' = [tables EXCEPT ![table][Index(level, vaddr)] =
                    [kind |-> "leaf", addr |-> phys, nx |-> TRUE, wr |-> TRUE]]
    /\ NextPage
    /\ UNCHANGED <<frames, pc, job, mapped>>

MapReturns ==
    /\ pc = "map" /\ page_i = job.n
    /\ pc' = "idle"
    /\ UNCHANGED <<tables, frames, tlb, job, page_i, walk, mapped>>

-----------------------------------------------------------------------------
(* make_executable(hhdm_offset, vaddr, size) *)
MakeExecutable(r) ==
    /\ pc = "idle"
    /\ pc' = "exec" /\ job' = r /\ page_i' = 0
    /\ UNCHANGED <<tables, frames, tlb, walk, mapped>>

(* The leaf of one page, small or large, is changed; a page that is not     *)
(* mapped is skipped.                                                       *)
ChangePage ==
    /\ pc = "exec" /\ page_i < job.n
    /\ LET v == job.base + page_i
           leaf == {lev \in Levels : IsLeaf(tables, v, lev)}
       IN  tables' = [f \in Frames |-> [k \in Slots |->
              IF \E lev \in leaf : f = TableAt(tables, v)[lev] /\ k = Index(lev, v)
              THEN [tables[f][k] EXCEPT !.nx = FALSE, !.wr = TRUE]
              ELSE tables[f][k]]]
    /\ page_i' = page_i + 1
    /\ UNCHANGED <<frames, tlb, pc, job, walk, mapped>>

(* Mutant: CR3 is not written back. *)
FlushedTlb_None == tlb

FlushedTlb == {}

(* CR3 is written back, which empties the TLB. *)
ReloadCr3 ==
    /\ pc = "exec" /\ page_i = job.n
    /\ tlb' = FlushedTlb
    /\ pc' = "idle"
    /\ UNCHANGED <<tables, frames, job, page_i, walk, mapped>>

PagingNext ==
    \/ \E v \in VPages : Access(v)
    \/ \E r \in Mmio : MapMmio(r)
    \/ Descend \/ CreateTable \/ CreateFails \/ KeepPage \/ MapPage \/ MapReturns
    \/ \E r \in Buffers : MakeExecutable(r)
    \/ ChangePage \/ ReloadCr3

PagingSpec == PagingInit /\ [][PagingNext]_pagingVars

-----------------------------------------------------------------------------
(* No call moves or unmaps a page that was mapped, and only the pages that  *)
(* map_mmio was called for become mapped, at the physical page behind them: *)
(* a new table brings nothing else into the address space, also when        *)
(* map_mmio gives up half way.                                              *)
OnlyMmioAppears ==
    [][\A v \in VPages :
         IF Translation(v) # {}
         THEN \A x \in Translation(v) : \E y \in Translation(v)' : x.phys = y.phys
         ELSE \A y \in Translation(v)' : v \in mapped /\ y.phys = v - hhdm]_pagingVars

(* Between calls the CPU uses no outdated translation: after                *)
(* make_executable has returned, no cached entry still forbids execution.   *)
TlbFresh == pc = "idle" => \A x \in tlb : x[2] \in Translation(x[1])

(* The entries that refer to a frame. *)
Refs(f) == {x \in (Frames \ frames) \X Slots :
              tables[x[1]][x[2]].kind = "table" /\ tables[x[1]][x[2]].addr = f}

(* When map_mmio returns an address, every page of the region is mapped at  *)
(* the physical page asked for.  A frame that it took from the page         *)
(* allocator is a table which exactly one entry refers to, also after it    *)
(* gave up half way: nothing is leaked or shared.                           *)
MmioMapped ==
    /\ pc = "map" =>
          \A k \in 0 .. page_i - 1 :
              {x.phys : x \in Translation(hhdm + job.base + k)} = {job.base + k}
    /\ \A f \in BootPool :
          IF f \in frames THEN Refs(f) = {} ELSE \E x \in Refs(f) : Refs(f) = {x}
=============================================================================
