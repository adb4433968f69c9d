# A TLA+ model of the Avaria kernel

Avaria is a small x86-64 kernel in Rust: it boots through Limine, loads kernel
modules from an initrd, runs them and a shell as preemptive tasks, and reads an
ext3 disk through AHCI. This directory holds TLA+ modules translated from its
source, the TLC configurations that check them on small instances, and proofs
of every safety property that holds, checked by TLAPS.
`PROJECT.json` maps each definition to the lines it models and lists runs,
mutants, hazards, findings and theorems. Paths below are relative to the repository.

Run a model with `tlc -config <cfg> <module>`, check proofs with
`tlapm <proof module>`.

## 1. The system

| Part | State | Operations | Called by |
|---|---|---|---|
| scheduler `src/kern/sched.rs` | `TASKS`, `CURRENT`, `ACTIVE`, `PREEMPT_COUNT` | `init`, `spawn`, `start`, `timer_tick`, `task_exit`, `preempt_disable/enable` | `_start`, the module API, IRQ0 |
| interrupt entry, PIC, TSS | in-service bit, `rsp0` | `isr_common`, `interrupt_dispatch`, `eoi`, `set_kernel_stack` | the CPU, the scheduler |
| page allocator `mm/buddy.rs` | `bitmap`, region | `init`, `alloc_pages`, `free_pages` | `mem.rs`, `spawn` |
| slab allocator, kmalloc `mm/slab.rs`, `mem.rs` | caches of slab pages | `kmalloc`, `kmalloc_aligned`, `kfree` | modules, drivers, ext3 |
| page tables `mem.rs` | the tables in CR3, the TLB | `map_mmio`, `make_executable` | drivers, the module loader |
| IPC `arch/x86_64/ipc.rs` | `CHANNELS`, `NEXT_CHANNEL`, rings | `create_channel`, `send`, `recv`, `peek`, `pending`, `destroy_channel` | tasks |
| spin lock `ipc.rs` | `locked` | `lock`, `try_lock`, `unlock` | any CPU |
| SMP start `smp.rs` | `APS_READY`, `ALL_GO`, `CPU_ONLINE` | `init`, `ap_entry`, `online_count` | `_start`, Limine |
| keyboard `drv/ps2` | controller configuration, shift and caps flags, key ring | `init`, IRQ1 handler, `read_key` | `_start`, the CPU, the shell |
| shell `src/main.rs` | line buffer, cursor, screen | the editing loop | a task |
| AHCI `drv/disk/ahci.rs`, `fs/ext3/block.rs` | port registers, command table, DMA buffers | `init`, `read_sectors`, `read_bytes` | ext3 |
| ext3 `fs/ext3` | superblock, inode and data buffers | `mount`, `read_file`, `exists`, `list_dir`, `drop` | `_start` |
| initrd, VFS `fs/initrd.rs` | `TarFs` entries | `parse`, `read`, `for_each_matching` | `_start`, the module API |
| ELF loader `crates/avaria-elf`, modules `src/main.rs` | `MODULE_BUFS` | `load_at`, the module loop | `_start` |
| LAPIC, PCI, GDT, SSE, TSC, ring 3, serial, VESA | registers and tables written once | set-up | `_start` |

What is hard here, and hardly tested by running the kernel: timer and keyboard
interrupts between any two instructions of code that takes no lock; counters
that are read and written in two steps; allocators protected only by a calling
convention; lock-free rings; a disk controller that answers late, with an error
or not at all; a keyboard controller that does the same; boot CPUs that race;
buffers that are freed by hand on every error path; buffers reused after a load
that failed half way; and tables, rings, caches and lines at their limit. The
repository has no unit tests; the `memtest` module is the nearest to one. The hazards in `PROJECT.json` name the lines.

## 2. The modules

### Sched (`Sched`, `MCSched`, `SchedProofs`)

A thread is identified by the stack it runs on. `cpu` is the context on the
CPU, `ctx[i]` what `save_ctx` stored for slot `i`; a context also holds what
lives on the thread's stack (nesting of `preempt_disable`, work left). One
action per step between which an interrupt can come: `SpawnCli`, `SpawnScan`,
`SpawnAlloc`, `SpawnSetCtx` are `spawn` (with its early returns for a full
table or no memory); `PreemptDisableLoad/Store` and `PreemptEnableLoad/Store`
are the two halves of the unprotected `+= 1` and `-= 1`; `TimerInterrupt`,
`TickIgnored`, `TickSwitch` are the handler, which runs with interrupts off and
so is not interrupted itself. `TickSwitch` is the whole handler: demote, scan,
save, load, `rsp0` and end of interrupt. Callers are the boot thread, modules
(as `memtest` behaves: they pair disable and enable, and call the allocator
only in between), the shell, and a thread that spawns while tasks run. The
shipped kernel spawns before `start` only; late spawns are what the scan for
`Exited` slots is for. The theorems hold for any list of either.

`ContextIntegrity` (a tick can only load complete contexts of the right task),
`PreemptExact` (the split counter is exact all the same), `AllocExclusive` (the
unlocked allocators are never re-entered), `NoSwitchWhileDisabled`,
`OnlyVacantSlotsTaken`, `RoundRobin` (a switch passes over no task and takes
`rsp0` along); and, under fairness, `ReadyRuns` and `ModulesFinish`.

Assumed: `alloc_pages` gives every task a stack of its own (but see the
findings); a stack is not reused after its task exited, as the code never frees
it.

### Buddy (`Buddy`, `BuddyUsers`, `Shift`, `BuddyProofs`)

`bitmap` is the set of bits that are set; `bit_index`, `is_free`, `find_free`,
`mark_allocated`, the split loop (`UsableOrders`, `Allocated`) and the merge
loop (`Merge`, `Freed`) are the functions of the code, the bits of different
orders sharing places as they do there. The ghost `plain` says that only single
pages were asked for and none was given back. `BuddyUsers` puts users on top who
ask for any order and give back what they own. `LiveBlocksDisjoint` is what every
caller relies on, and does not hold (see the findings); `SinglePagesDisjoint` and
`ExhaustedMeansHeld` are what is left of it while `plain`; `BlocksInRegion` holds
always. `Shift` defines the shift `1 << n` as a recursive function, so that it
can be proved about.

### Kmem (`Kmem`, `MCKmem`, `MemProofs`)

`kmalloc`, `kmalloc_aligned` and `kfree` over slab pages with their bitmaps,
the limit on pages of a cache, the fall back to whole pages, the return of
surplus empty pages and the compaction of the array (`CompactAfter`), all of it
over the page allocator of `Buddy`, which `Kmem` extends: `GetPages` and
`PutPages` are its `AllocPages` and `FreePages`. Sizes are counted in units of
the smallest object.

As that allocator gives out pages that are held, `kmalloc` does so too:
`AllocationsApart` does not hold (finding 1). What `mem.rs` and `slab.rs` do
themselves is stated with two ghosts, `pool` (the pages not given out, or given
back) and `clean` (so far only pages of the pool were given out).
`ObjectsDisjoint`: while `clean`, no two allocations overlap and all lie in pages
that were given out, and as long as `plain` it is `clean`, so that small objects
and single pages never overlap until a page goes back or a larger block is taken.
`PagesAccounted`: while `clean`, every page is in the pool, in one cache or in
one caller's block, bits are set for live objects only, and a cache keeps at most
one empty page.

### Fifo, Ring, Ipc (`SyncProofs`)

`Ring` is one channel with one sender and one receiver, each load and store of
`head`, `tail` and a slot a step of its own, and `destroy_channel` at any time.
`Fifo` states what a channel promises: a bounded queue whose operations take
effect at one instant between call and return, and which accepts no call after
it was closed (`BeginSend` and `BeginRecv` need it open; a call that has begun
may still take effect). `IsFifo` says that Ring implements it (the queue is the
slots from `tail` to `head`). `Ipc` is what threads do around the rings: `create_channel` beyond the
limit, `destroy_channel`, and the spin lock with the spurious failures of
`compare_exchange_weak`, with channel calls inside and outside the lock. Its
`NEXT_CHANNEL` wraps as a u32 does, so `IdsUnique` depends on every refused
call undoing its increment. `MutualExclusion`, `LockProgress`.
Relaxed orderings do not reorder a single counter; the Acquire and Release
pairs of the ring are what justifies one order of slot and index accesses.

### Smp (`Smp`, `MCSmp`, `SyncProofs`)

The boot CPU sends every AP to `ap_entry`, waits until `APS_READY` says that
all have reported, and opens the barrier. `BarrierSafe`, `BarrierOpens`, and
`OnlineCountExact`: the number printed is that of the entries of `CPU_ONLINE`
which the APIC ids use, so it is exact unless two ids agree modulo `MAX_CPUS`,
which count once.

### Console (`Console`, `ConsoleProofs`)

`init` of the PS/2 driver, IRQ1 handler, key ring, shell. `Ps2Init` is the
dialogue with the controller: `wire` are the bytes that wait to be read, `owed`
the answers that are still to come, in order, early, late or never (`Answer`);
`read_data` takes a byte or, with none there, times out. The self-test may
reset the configuration; a key may be sent in between; a late answer of one
command is read as the answer of the next. The shell and the user come after
it. The handler is one step (interrupts are off) that can come between any two
steps of the shell, also inside `read_key` and between its check and `hlt`.
Keys are one of each class of the scancode tables, with both shift keys and an
extended key, whose code follows the prefix 0xE0 and around which the keyboard
may send a shift that nobody touched. A key that is held repeats (`Repeat`).
Answers to the keyboard reset that come late, or whose interrupt the PIC latched
while it was masked, reach the handler, which takes them for scancodes.

Ghost histories state what the user meant. `CharsAsTyped`: what is decoded is
what was meant when the keys went down, although the modifiers are read when the
handler gets to a scancode. Three habits of the driver are part of what is meant
(`ShiftMeant`, `SendDown`), and are what a user may be surprised by: the shift
keys share one flag, so when one of two is released shift is off until the next
shift code; a shift sent around an extended key counts as one, as the prefix is
dropped (`ps2/mod.rs:161`); a caps lock that is held toggles at each repeat.
`KeysInOrder`, `VisibleLine`, `TranslationKept`, `KeysGetRead`.

External, and assumed: the controller answers in order and had its translation
on; the PIC keeps an interrupt that comes while masked.

### Ahci (`Ahci`, `AhciProofs`)

The driver's steps up to each poll loop, and the HBA as an external actor: it
fetches, transfers sector by sector into whatever memory the command names,
completes, fails and halts or fails and goes on, or never answers. A loop may run
out at any time (`PollTimeout`) and leaves the HBA with the command, fetched or
not. Byte `i` of the disk is the number `i`, so `ReadCorrect` can say what a read
must return. `ReadsLeakNothing` and `CallsReturn` hold of every HBA.
`ReadCorrect` and `OneCommandAtATime` hold as long as no command was given up
before the HBA had fetched it (the ghost `prompt`): one that is fetched later, from
a slot that the driver has filled anew or a buffer that it has freed, may complete
in the place of the next command, and nothing in `issue_command` prevents that.
Ten million polls make it unlikely. Modelled with one port. `Fresh` is
`kmalloc_aligned`: a page that is not in use, which Kmem shows only until a page
was given out twice.

### PageTables (`PageTables`, `MCPageTables`, `MemProofs`)

`map_mmio` walks page by page, level by level (`Descend`, `CreateTable`,
`CreateFails`, `KeepPage`, `MapPage`); `make_executable` changes leaves and
reloads CR3. `Access` lets the CPU fill its TLB at any moment; entries of the
TLB do not affect each other, so the model follows one. `MmioMapped`,
`OnlyMmioAppears`, `TlbFresh`. `MmioMapped` includes that every frame taken for
a table is referred to once. Memory types are left out. What the boot loader
leaves is an assumption (`PageConstants`): the tables are a tree in which each
table has one parent and its height (`IsTree`), and whatever it has already
mapped in a window of `map_mmio` is at the physical page that belongs there.
`map_mmio` keeps such pages, so without the second it would return an address
of something else.

### Ext3 (`Ext3`, `BootProofs`)

The driver over a disk given by its contents: a superblock, group descriptors,
inodes, pointers and directory entries at their offsets, so that `group`,
`index`, `bgd_offset`, `Route` (the walk of `resolve_block`) and `buf_off`
compute what the code computes and can be wrong. A step is a call of
`read_bytes` or `kmalloc`, each of which may fail. `heap` holds the blocks that
are allocated, with their sizes; `buf` the words of the data buffer, the ones
past its end included.

The reference is separate and takes the disk as an argument: `BlockMap` is the
leaves of the pointer trees, `Content` the words of its blocks, `Listed` and
`LookupIn` what a directory holds, `Resolved` where a path leads, all by inode
number and not by offset. `IsExt3` says what makes a disk a file system: inodes
are where their numbers say (`InodesPlaced`), files are no longer than their
block map (`Addressable`, with the third range counted as a u32, as the code
does), and the entries of a directory lead from one to the next up to its end,
with different names and inodes that exist (`EntriesChained`). Two conditions
are about sizes and places: a block holds a pointer, and no more of them than
its square fits in a u32; no entry is at offset 0, where the boot block is.

A disk need not be one. `s_log_block_size` may shift all bits out (`BlockSize`
wraps, `SizeFits` says that it does not), and arithmetic on the superblock can
panic: a shift of 32 or more when `mount` prints the block size, no inodes in a
group (`read_inode` divides by it), a block size of zero (`read_inode_data`
divides by it), and ranges of `resolve_block` that a u32 does not hold
(`RangeOverflows`; a release build wraps there). The label `panic` is where the
kernel stops, with what it had allocated.

`ReadFileCorrect` and `LookupCorrect` speak of disks that meet `IsExt3`. They
allow what a failed read may do, and nothing else: `read_block_ptr` returns 0
for a pointer that it could not read, which its callers take for a hole. The
other properties hold on every disk, and the run has some that are no file system
(`Corrupt`, `BadSuper`). `OverrunBounded`: a file whose size is no
multiple of the block size is read past the end of its buffer, by less than a
block and never in front of it (the code as it is; the slab object or page
behind may be someone else's). `NothingLeaks`: exactly the blocks the driver
has pointers to are allocated, on every path. `CallsEnd`: every call returns,
entries of length zero included, unless the superblock is one of those that the
driver cannot compute with (`Computable`).

`Kmalloc` and `Kfree` are `mem.rs` as Kmem shows it while no page was given out
twice: a block that is not in use, or none.

### Loader (`Loader`, `BootProofs`)

`Parse` is a turn of the loop of `TarFs::parse`; headers are at offsets, and a
size is its octal digits. `NextEntry`, `LoadAt`, `CopySegment`, `SpawnModule`
are the closure that `_start` passes to `for_each_matching`, with `load_at`
segment by segment. Byte `k` of member `n` is `<<n, k>>`, so `ImagesIntact` can
say that a buffer holds the image of its file and nothing of a module that was
refused before. Arithmetic on header fields wraps (release) or panics (dev):
both are possible outcomes. The checks of the ELF header and the parse of the
font are a flag of the member, and so is the overflow of
`off + count * entry_size` in `program_headers` (`TableOverflows`), which panics
or gives a wrong sum that passes or not. `load_at` takes a least address of
`u64::MAX` for no segment at all (`HasSpan`). `ArchiveType` is how tar lays an archive out:
members one after the other, each header followed by its data, padded to whole
blocks (`Padded`). `Counted` and
`Kept` say which members `parse` keeps, `EveryModuleLoaded` that these are
loaded. `BootEnds`.

### Boot (`Boot`, `MCBoot`, `BootProofs`)

The order in `_start`: the disk is used and dropped, then the modules are
loaded. Ext3 is exercised with every call where `_start` only lists the root.

## 3. The runs

| Run | Instance | Distinct states | Shows |
|---|---|---|---|
| `sched` | 4 slots, 4 stacks, two modules that run next to each other, the shell and a thread that spawns late, nesting 2 | 10 734 | complete contexts, slots reused and refused, exact count, exclusive allocator, round robin, no starvation, modules finish for good |
| `buddy` | 5 pages, 4 bits, orders 0 to 3, frees | 29 461 | blocks in the region and aligned; single pages handed out once each, none lost, pages without a bit never used |
| `kmem_mixed` | 8 pages, objects of a quarter page and blocks of two pages | violated | finding 1 |
| `buddy_coalesce` | 8 pages, order 0, frees | violated | finding 2 |
| `kmem` | 4 pages of 4 units, 2 caches, limit 2, 5 callers (symmetric), the page allocator with 8 bits | 57 263 | until a page is given out twice: disjoint, accounted, one empty page |
| `ring` | 4 slots, 2 messages | 43 262 | the ring is a FIFO of 3 |
| `ipc` | 2 channels, 3 threads, a u32 of 6 values | 34 654 | unique ids, exclusion, progress |
| `smp` | 5 CPUs, two ids that wrap, one onto another | 354 | barrier and count |
| `console` | every key class, 3 presses or repeats, 2 waiting scancodes, ring and line of 2, 2 by 3 cells | 305 146 | the driver starts or gives up; decoding, order, no stranded key, screen shows the line |
| `ahci` | sectors of 2 bytes, u16 of 4 values, 6 pages | 1 126 751 | right data, one command, no leak, no hang |
| `page_tables` | tables of 2 entries, 2 free frames, 4 boot images | 44 296 | mapping, TLB, tables |
| `boot` | 12 file systems, a corrupt disk and 4 corrupt superblocks, with blocks of 2 or 4 words, 2 direct blocks and files of 0 to 32 words; some 170 archives of up to 4 members, 3 entries, 2 buffers of 4 bytes | 108 339 | reads, lookups, no leak, bounded overrun, images intact, no module missed, everything ends |

Bounds. The instances are the smallest in which every limit is reached: a slot
table that is full and is reused (a slot below and above the current one), a
ring that wraps and fills, a cache at its page limit, more threads than
channels, a line longer than its buffer and a screen that wraps, a sector count
that wraps to zero, too few frames for a mapping, files that end before, at and
behind each level of indirection, more members than entries and more modules
than buffers. `MaxWork`, `MaxNest`,
`MaxPress` and `MaxWire` bound what callers and user do; everything else is
unbounded behaviour over a finite state. In `sched` a module and the thread that
spawns start first, and the second module and the shell come while the first may
still run, so that two tasks change the preemption count. In `console` three keys
are enough for two shift keys or a caps lock and its repeat, and a character. The
`kmem` run has a CONSTRAINT, `clean`: a state in which a page was given out twice
is checked and not followed, as nothing is claimed from there on and `clean` does
not come back. Where a size matters (slots, ring
size, number of CPUs), the theorems below remove the bound.

Deadlock is checked in every run but `smp`, where all CPUs end in `hlt`.

Fairness, used by the liveness properties only:
- Sched: IRQ0 keeps arriving (the PIT is periodic) and its handler ends; a
  thread that is on the CPU infinitely often executes (strong fairness per
  thread: the period of the PIT is far longer than the handler). Nothing is
  assumed about which task runs: that is the scheduler's doing.
- Boot: a call to ext3, and the module loop, run on. Nobody has to call, and
  disk reads may fail for ever.
- Console: `init` runs on (its waits are bounded; the controller need not
  answer), the shell is scheduled (`ReadyRuns` is why), interrupts are
  delivered, the timer ticks. Without the last, a key that arrives between the
  check and `hlt` would wait for the next key.
- Ipc: a thread inside a call executes, and `cmpxchg` on a free lock does not fail for ever.
- Smp: every CPU executes.
- Ahci: the driver's bounded loops end. The HBA need not do anything.

### Findings

1. `kmem_mixed`: `alloc_pages` keeps a bit for each block of each order but
   looks at one order only, so a block is handed out over a live smaller one
   (`src/kern/mm/buddy.rs:132`). A small object and then a block of two pages,
   both from `kmalloc`, overlap.
2. `buddy_coalesce`: `bit_index` gives the same bit to blocks of different
   orders (`buddy.rs:36`); a free that merges clears the bit of a live page.

Both contradict what `memtest` and every other caller assume, that a block is
theirs to write. `Kmem` is over the allocator as it is, and its results hold
until it gives out a page twice. `Sched` (stacks), `Ahci` and `Ext3` (buffers)
take it that their memory is their own, so their results say what those parts do
until then.

## 4. The proofs

Each theorem holds for every value of the constants that meets the named
assumption of its module (`SchedConstants`, `BuddyConstants`, ...), which TLC
evaluates in the runs. Most say that a constant has its type. The others are
facts about the code or what surrounds it:

- `IpcConstants`: `MAX_CHANNELS` and the number of threads are together below
  2^32, so the counter of ids cannot be driven around a u32.
- `KmemConstants`: object sizes ascend, as `SlabAllocator::new` lists them.
- `ConsoleConstants`: a ring of at least two, a screen wider than the prompt.
- `RequestsFit`: no caller of `read_bytes` asks for more sectors than a u16
  counts. The largest read is a block.
- `PageConstants`: the boot tables, see PageTables above.
- `LoaderConstants`: archives are laid out as tar does. What is in a member,
  ELF headers included, is arbitrary.
- `Ext3Constants`: directories are whole blocks (`DiskType`), as ext3 has them;
  otherwise the contents of the disk, the superblock included, are arbitrary.
  The theorems about answers are conditional on `IsExt3`, which TLC evaluates on
  every disk of the run (`DisksAsDescribed`).

An invariant that says what the code promises is seldom inductive; the text
below names the one that is and what it adds. The inductive invariants are
conjunctions of named parts, with one lemma or step per action.

**SchedProofs.** `Invariance` proves `Spec => []IInv`. A context is only
complete because a spawn that has not finished runs with interrupts off; the
counter is only exact because a task switched out between load and store has
loaded zero; slot 0 must never exit or the scan could find nothing. `IInv` is
`TypeOK` with `BootPhase` (before `sched::init` the boot thread is alone),
`CpuOK` (what each program counter implies for the CPU and the slot being
filled), `CountOK` (the loaded copy of the count is current, a count above zero
belongs to a module in its critical section) and `SlotsOK` (every parked slot
is resumable but for the one `spawn` is filling). `TypeCorrect`,
`ContextsIntact`, `PreemptCountExact` and `AllocatorExclusive` follow, and from
it and the step the action properties `NoSwitch`, `VacantSlots` and
`SwitchesInTurn` (the scan takes the least distance at which a task can run).

**SyncProofs, Ring.** `RingInvariance`, `NoTorn`: `RingInv` adds that a caller's
copy of its own index is current and that past its check there is still room
(or a message), as the other side only makes more. `ChannelIsFifo` is the
refinement: the initial state maps to the empty queue, the start of a call on an
open channel to its beginning, `PushPublish` to an enqueue, `PopRelease` to a
dequeue, `Destroy` to closing, a failing check to a refusal and every other step
to a stutter. Lemmas carry `Contents` through a change of one index.

**SyncProofs, Ipc.** `LockExcludes`: the lock word is 1 exactly while one thread
is inside. `CounterExact` and `IdsNeverShared`: the counter is the number of ids
drawn plus the refused calls that have still to undo their increment
(`CounterInv`), so it never wraps and no id is drawn twice.

**SyncProofs, Smp.** `SmpInvariance`, `BarrierIsSafe`, `OnlineCountIsExact`: the
counter is the number of APs that have reported, by the cardinality theorems,
so equality with the number of APs means all of them. The entries that are set
are then those of all CPUs.

**BuddyProofs.** `BlocksStayInRegion` needs nothing of the bitmap: however it
has become wrong, a block comes from those that lie in the region
(`BlocksInv`, about BuddyUsers). `SinglePagesAreDisjoint` and `ExhaustedIsHeld`: until a page is
given back or a larger block asked for, the bits that are set are the pages
that are held, each by one caller (`PlainInv`).

**MemProofs, Kmem.** `AllocationsAreDisjoint`, `PagesAreAccounted`: the
inductive invariant is `CleanInv`, that `KmemInv` holds while `clean`, and that a
page with a clear bit is in the pool while `plain` (`SinglesInv`), from which
`clean` follows: the next single page is one with a clear bit. `KmemInv` says
of every cache that its pages are different and at most one is empty
(`CachesInv`), and of owners that every page is free, a slab of one cache or in
one direct block (`SlabsInv`, `FoundInv`), that an allocation is a direct block
or the object of a set bit that is large enough for it (`HeldInv`), and that no
two allocations start at the same address (`ApartInv`). The last is what makes
`kfree` clear the right bit. Compaction is shown to keep the set of pages.

**MemProofs, PageTables.** `MmioIsMapped`, `TlbIsFresh`, `OnlyMmioIsAdded`:
`PagingInv` keeps the tables a tree outside the free frames (`TablesInv`), so
that a new entry changes the walk of the pages below it and no other, and says
that `map_mmio` is at the table of its page with all earlier pages mapped
(`WalkInv`). That a step moves or removes no translation (`Follows`) gives the
action property and carries both.

**AhciProofs.** `MemoryIsReturned`: `MemoryInv`, which page is in use at each
step. `CommandsDoNotOverlap`: `CommandInv` ties PxCI, BSY, TFES and the poll to
what the HBA does, after a time-out as well, while `prompt`. `ReadsAreCorrect`: `DataInv`, the
buffer holds what was transferred so far, and all of it once the command left
PxCI without an error, with the arithmetic of sectors and offsets as lemmas.

**ConsoleProofs.** `TranslationIsKept`: until the answer to the configuration
command is read it is the next byte (`ConfigInv`), so a late one is taken for
the result of the self-test, and unless it happens to be 0x55 `init` gives up.
`KeysAreInOrder`: what `read_key` has seen stays so until it stores the tail
(`KeysInv`). `LineIsVisible`: the screen below the cursor is blank and its row
shows the line (`ScreenInv`). `CharsAreAsTyped`: the scancodes that wait take
the driver's modifiers to those of the user, character by character (`TypedInv`,
whose `Trace` is a chain of modifier states along `wire`), whichever shift key
or extended key they are of, and answers that the handler takes for scancodes
come only while no key is held (`AnswersInv`).

**BootProofs, memory of the driver.** `NoLeaks`, `BootNoLeaks`: each label says which of the three
pointers of the driver are blocks and with which size they were allocated
(`LeakInv`). `OverrunIsBounded`: what is written lies in the file or in the
blocks reached so far (`BufferInv`).

**BootProofs, answers of the driver.** `FilesAreRead`, `LookupsAgree`:
`FormatInv` says at each label how far the answer is known. The inode at hand is
the one to which the components dealt with so far lead (`OnPath`); the words of
the blocks read so far are those of the file, or zero if a pointer could not be
read (`RightTo`); the pointer and the indices at hand still lead to the block
that the block map has (`WalkTo`); a scan is at an entry, with no entry before
it that has the name, or with all before it reported (`ScanTo`). It is proved in
two halves. The first is about the disk alone: `BlockMapAt` gives the place in
the block map of every sequence of indices, `RouteFollows` shows with it that
`resolve_block` takes each block number to its own place, for every block size
and every number of direct blocks, `ContentAt` does the same for words, and
`InodeFound` for the arithmetic of `read_inode`. The second has one lemma per
action. `ListedTo` and `Visited` are recursive functions; that they have their
values rests on `Recursion` in NumberProofs.

**BootProofs, Loader.** `ImagesStayIntact`: the buffers below
`mod_idx` hold whole modules and the one at it the segments copied so far,
whatever was in it before (`ImageInv`). `ModulesAreLoaded`: the members that
`parse` has passed are those it kept, and the ones before `next` that are
modules are loaded or were refused (`LoadInv`); that an offset is that of a
header rests on the layout of the archive.

**NumberProofs** holds what the others share: every non-empty set of numbers has
a least element, from the library's well-founded order; by it, induction over
numbers for one fact at a time (a set that holds 0 and each successor is all of
`Nat`); that a function may be defined by recursion; powers of two, quotients,
remainders and digits.

Only model-checked:
- all liveness (fairness is beyond the prover): `ReadyRuns`, `ModulesFinish`,
  `LockProgress`, `BarrierOpens`, `KeysGetRead`, `CallsReturn`, `CallsEnd`,
  `BootEnds`;
- the two findings, which are counterexamples.

## 5. Not modelled

The construction of GDT and IDT, exception reports, PIC remapping, the local
APIC, PCI scan, SSE and TSC (registers and tables written once, before anything
else runs); ring 3 and system calls (nothing enters ring 3); drawing, fonts and
serial output; USB (an empty file). Of the keyboard driver control and alt
(nothing reads their flags), the extended keys that share their code with a
character (print screen, the media keys, enter and slash of the keypad: the
handler takes them for that character) and `poll` (nothing calls it). Of the module
API the calls that only read or print.

Two effects of the code are known and have no property, because they hold of
every run: a task's stack is never freed after it exits (`sched.rs:224`), and
after a timed-out read the HBA may still write to the buffer that `read_bytes`
has freed (`block.rs:29`).

## 6. Plan

Done: the modules above, in the order scheduler, allocators, IPC, SMP, console,
disk, page tables; then ext3, the loader, their composition in `Boot`, and the
start of the keyboard controller; then proofs of all the safety properties that
hold, last those about the answers of the ext3 driver.

Left: refinements between components, that what Kmem shows is what Ext3 takes for
`kmalloc`, and what Ahci shows is what it takes for `read_bytes`; both are now
stated twice, once as a property and once as an assumption. The liveness properties need a
prover for fairness.
