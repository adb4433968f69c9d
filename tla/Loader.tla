------------------------------- MODULE Loader -------------------------------
(***************************************************************************)
(* The modules that the boot loader passes to the kernel: the parse of the *)
(* initrd (src/kern/fs/initrd.rs), the loop of _start over its .ko files   *)
(* (src/main.rs) and the ELF loader (src/kern/crates/avaria-elf), which    *)
(* copies each module into the next static buffer.                         *)
(*                                                                         *)
(* Byte k of member n of the archive is <<n, k>>.  Arithmetic on the u64   *)
(* fields of a header wraps in a release build and panics in a dev build.  *)
(***************************************************************************)
EXTENDS Naturals, Sequences, FiniteSets

CONSTANTS Archives,     \* the archives, see ArchiveType
          BLOCK,        \* 512
          MAX_ENTRIES,  \* members that TarFs keeps
          MAX_MODULES,  \* module buffers
          BUF,          \* size of a module buffer
          Slots,        \* free task slots
          U64           \* how many values a u64 has

(* The value of the digits before the first NUL or space, which stand here  *)
(* as what is no octal digit.                                               *)
parse_octal(ds) ==
    LET stop == {k \in 1 .. Len(ds) : ds[k] \notin 0 .. 7}
        n == IF stop = {} THEN Len(ds)
             ELSE (CHOOSE k \in stop : \A j \in stop : k <= j) - 1
        val[k \in 0 .. n] == IF k = 0 THEN 0 ELSE val[k - 1] * 8 + ds[k]
    IN  val[n]

(* What an archive holds: its length, its headers by offset and, for        *)
(* reference, in order, and its members as ELF files.  A header has the     *)
(* class of its name, the octal digits of its size, which is zero for a     *)
(* directory, and the number of its member; the next header follows after   *)
(* the whole blocks of its data.  A program header has u64 fields.          *)
u64 == 0 .. U64 - 1

ElfType(f) ==
    /\ f.entry \in u64
    /\ f.len \in Nat
    /\ Len(f.phdrs) \in Nat
    /\ \A s \in 1 .. Len(f.phdrs) :
          {f.phdrs[s].offset, f.phdrs[s].vaddr, f.phdrs[s].filesz, f.phdrs[s].memsz} \subseteq u64

Padded(n) == CHOOSE d \in n .. n + BLOCK - 1 : d % BLOCK = 0

ArchiveType(a) ==
    LET heads == DOMAIN a.header
        nr(o) == a.header[o].member
    IN  /\ Len(a.list) \in Nat /\ a.len \in Nat
        /\ DOMAIN a.members = 1 .. Len(a.list)
        /\ \A n \in DOMAIN a.members : ElfType(a.members[n])
        /\ heads \subseteq Nat
        /\ Len(a.list) > 0 => 0 \in heads /\ nr(0) = 1
        /\ \A o \in heads :
              /\ nr(o) \in 1 .. Len(a.list) /\ a.header[o] = a.list[nr(o)]
              /\ parse_octal(a.header[o].digits) = a.members[nr(o)].len
              /\ a.header[o].dir => a.members[nr(o)].len = 0
              /\ \A q \in heads : o < q <=> nr(o) < nr(q)
              /\ nr(o) < Len(a.list) =>
                    /\ o + BLOCK + Padded(a.members[nr(o)].len) \in heads
                    /\ nr(o + BLOCK + Padded(a.members[nr(o)].len)) = nr(o) + 1

ASSUME LoaderConstants ==
    /\ {BLOCK, MAX_ENTRIES, MAX_MODULES, BUF, U64} \subseteq Nat \ {0}
    /\ Slots \in Nat
    /\ BUF < U64
    /\ \A a \in Archives : ArchiveType(a)

VARIABLES
    archive,
    step,
    offset, entries,    \* TarFs::parse; entries are headers
    font,               \* the member KERNEL_FONT was read from, or 0
    next,               \* for_each_matching: entries seen
    mod_idx, MODULE_BUFS,
    seg,                \* load_at: program header at hand
    tasks,              \* tasks spawned: buffer and offset of the entry point
    shell,              \* the shell was spawned
    loaded              \* ghost: the member in each buffer up to mod_idx

parsing == <<archive, offset, entries, font>>
loaderVars == <<parsing, step, next, mod_idx, MODULE_BUFS, seg, tasks, shell, loaded>>

Zero == <<0, 0>>    \* a zero byte

Ended == {"started", "halted", "panic"}

NoArchive == [len |-> 0, header |-> <<>>, list |-> <<>>, members |-> <<>>]

Hdr(o) == archive.header[o]
File(n) == archive.members[n]

LoaderInit ==
    /\ archive = NoArchive
    /\ step = "find"
    /\ offset = 0 /\ entries = <<>>
    /\ font = 0
    /\ next = 0
    /\ mod_idx = 0
    /\ MODULE_BUFS = [m \in 0 .. MAX_MODULES - 1 |-> [k \in 0 .. BUF - 1 |-> Zero]]
    /\ seg = 0
    /\ tasks = {} /\ shell = FALSE
    /\ loaded = <<>>

(* find_module("initrd"); without one _start halts. *)
FindInitrd ==
    /\ step = "find"
    /\ \/ step' = "halted" /\ UNCHANGED archive
       \/ step' = "parse" /\ archive' \in Archives
    /\ UNCHANGED <<offset, entries, font, next, mod_idx, MODULE_BUFS, seg, tasks, shell, loaded>>

-----------------------------------------------------------------------------
IsDir(h) == h.dir

(* Mutant: a last block that is not full is not counted. *)
Blocks_RoundDown(size) == (size \div BLOCK) * BLOCK

Blocks(size) == ((size + BLOCK - 1) \div BLOCK) * BLOCK

SizeOf(h) == IF IsDir(h) THEN 0 ELSE parse_octal(h.digits)

AtEnd ==
    \/ offset + BLOCK > archive.len
    \/ Len(entries) = MAX_ENTRIES
    \/ offset \notin DOMAIN archive.header

(* Mutant: a member without a name is not passed over. *)
AfterUnnamed_Same(h) == offset

AfterUnnamed(h) == offset + BLOCK + Blocks(parse_octal(h.digits))

(* A turn of the loop of parse(): the end of the archive, a name that is    *)
(* not UTF-8, which _start does not survive, a member without a name once   *)
(* "./" is taken off, a member whose data is cut off, or an entry.          *)
Parse ==
    /\ step = "parse"
    /\ \/ AtEnd /\ step' = "font" /\ UNCHANGED <<offset, entries>>
       \/ /\ ~AtEnd /\ Hdr(offset).name = "invalid"
          /\ step' = "halted"
          /\ UNCHANGED <<offset, entries>>
       \/ /\ ~AtEnd /\ Hdr(offset).name = "unnamed"
          /\ offset' = AfterUnnamed(Hdr(offset))
          /\ UNCHANGED <<step, entries>>
       \/ /\ ~AtEnd /\ Hdr(offset).name \notin {"invalid", "unnamed"}
          /\ offset + BLOCK + SizeOf(Hdr(offset)) > archive.len
          /\ step' = "panic"
          /\ UNCHANGED <<offset, entries>>
       \/ /\ ~AtEnd /\ Hdr(offset).name \notin {"invalid", "unnamed"}
          /\ offset + BLOCK + SizeOf(Hdr(offset)) <= archive.len
          /\ entries' = Append(entries, Hdr(offset))
          /\ offset' = offset + BLOCK + Blocks(SizeOf(Hdr(offset)))
          /\ UNCHANGED step
    /\ UNCHANGED <<archive, font, next, mod_idx, MODULE_BUFS, seg, tasks, shell, loaded>>

(* find(): the first entry with the name. *)
Named(name) ==
    {k \in 1 .. Len(entries) : entries[k].name = name /\ \A j \in 1 .. k - 1 : entries[j].name # name}

(* fs().read() of the font, and PsfFont::parse(); a directory of that name  *)
(* is no file.                                                              *)
LoadFont ==
    /\ step = "font"
    /\ font' = IF \E k \in Named("font") : ~IsDir(entries[k]) /\ File(entries[k].member).header_ok
               THEN entries[CHOOSE k \in Named("font") : TRUE].member ELSE 0
    /\ step' = "scan"
    /\ UNCHANGED <<archive, offset, entries, next, mod_idx, MODULE_BUFS, seg, tasks, shell, loaded>>

-----------------------------------------------------------------------------
IsModule(h) == ~IsDir(h) /\ h.name = "module"

(* for_each_matching(): what is no module is passed over, and so is every   *)
(* module once the buffers are used up.                                     *)
NextEntry ==
    /\ step = "scan" /\ next < Len(entries)
    /\ IF IsModule(entries[next + 1]) /\ mod_idx < MAX_MODULES
       THEN step' = "load" /\ UNCHANGED next
       ELSE next' = next + 1 /\ UNCHANGED step
    /\ UNCHANGED <<parsing, mod_idx, MODULE_BUFS, seg, tasks, shell, loaded>>

member == entries[next + 1].member
elf == File(member)

Loads(f) == {s \in 1 .. Len(f.phdrs) : f.phdrs[s].load}
vaddr_min(f) == CHOOSE v \in {f.phdrs[s].vaddr : s \in Loads(f)} :
                    \A s \in Loads(f) : v <= f.phdrs[s].vaddr
End(p) == (p.vaddr + p.memsz) % U64
vaddr_max(f) == CHOOSE v \in {End(f.phdrs[s]) : s \in Loads(f)} :
                    \A s \in Loads(f) : End(f.phdrs[s]) <= v

(* The size of the image; a difference below zero wraps. *)
total_size(f) == (U64 + vaddr_max(f) - vaddr_min(f)) % U64

Overflows(f) ==
    \/ \E s \in Loads(f) : f.phdrs[s].vaddr + f.phdrs[s].memsz >= U64
    \/ vaddr_max(f) < vaddr_min(f)

(* parse_header() and program_headers() find no fault: the checks of the    *)
(* ELF header, and a program header table that ends in the file by the sum  *)
(* off + count * entry_size as the build computes it.  phdrs is the slice   *)
(* that program_headers() makes of it, whose entries are 56 bytes apart     *)
(* whatever e_phentsize says.                                               *)
HeaderOk(f) == f.header_ok

(* That sum overflows, in a file that parse_header() accepts. *)
TableOverflows(f) == f.table_overflows

(* load_at() takes a least address of u64::MAX for no PT_LOAD at all. *)
HasSpan(f) == Loads(f) # {} /\ vaddr_min(f) # U64 - 1

(* The module is refused: the closure prints a warning, and the next module *)
(* gets the same buffer.                                                    *)
Refused == step' = "scan" /\ next' = next + 1

(* Mutant: the buffer is taken as it is. *)
Zeroed_Not(b, n) == b

Zeroed(b, n) == [k \in 0 .. BUF - 1 |-> IF k < n THEN Zero ELSE b[k]]

(* load_at() up to the copies: the checks of parse_header and of            *)
(* program_headers, the span of the segments, and buffer.fill(0).           *)
LoadAt ==
    /\ step = "load"
    /\ \/ /\ \/ ~HeaderOk(elf) \/ ~HasSpan(elf)
             \/ HeaderOk(elf) /\ HasSpan(elf) /\ total_size(elf) > BUF
          /\ Refused
          /\ UNCHANGED <<MODULE_BUFS, seg>>
       \/ /\ \/ TableOverflows(elf)
             \/ HeaderOk(elf) /\ Loads(elf) # {} /\ Overflows(elf)
          /\ step' = "panic"
          /\ UNCHANGED <<MODULE_BUFS, seg, next>>
       \/ /\ HeaderOk(elf) /\ HasSpan(elf) /\ total_size(elf) <= BUF
          /\ MODULE_BUFS' = [MODULE_BUFS EXCEPT ![mod_idx] = Zeroed(@, total_size(elf))]
          /\ seg' = 1
          /\ step' = "copy"
          /\ UNCHANGED next
    /\ UNCHANGED <<parsing, mod_idx, tasks, shell, loaded>>

dst_off(p) == p.vaddr - vaddr_min(elf)

(* A segment.  A file too short for it refuses the module half way; a slice *)
(* outside the file or the buffer panics.                                   *)
CopySegment ==
    /\ step = "copy" /\ seg <= Len(elf.phdrs)
    /\ LET p == elf.phdrs[seg]
           srcEnd == (p.offset + p.filesz) % U64
           wraps == p.offset + p.filesz >= U64
       IN  \/ /\ ~p.load
              /\ seg' = seg + 1
              /\ UNCHANGED <<step, next, MODULE_BUFS>>
           \/ /\ p.load /\ srcEnd > elf.len
              /\ Refused
              /\ UNCHANGED <<seg, MODULE_BUFS>>
           \/ /\ p.load
              /\ wraps \/ (srcEnd <= elf.len /\ dst_off(p) + p.filesz > BUF)
              /\ step' = "panic"
              /\ UNCHANGED <<seg, next, MODULE_BUFS>>
           \/ /\ p.load /\ ~wraps /\ srcEnd <= elf.len /\ dst_off(p) + p.filesz <= BUF
              /\ MODULE_BUFS' = [MODULE_BUFS EXCEPT ![mod_idx] =
                    [k \in 0 .. BUF - 1 |->
                        IF k \in dst_off(p) .. dst_off(p) + p.filesz - 1
                        THEN <<member, p.offset + k - dst_off(p)>> ELSE @[k]]]
              /\ seg' = seg + 1
              /\ UNCHANGED <<step, next>>
    /\ UNCHANGED <<parsing, mod_idx, tasks, shell, loaded>>

(* The module is made executable (PageTables) and spawned; spawn() may have *)
(* no slot or no stack, which _start does not look at.                      *)
SpawnModule ==
    /\ step = "copy" /\ seg > Len(elf.phdrs)
    /\ \/ UNCHANGED tasks
       \/ /\ Cardinality(tasks) < Slots
          /\ tasks' = tasks \cup {[buf |-> mod_idx, member |-> member,
                                   entry |-> (U64 + elf.entry - vaddr_min(elf)) % U64]}
    /\ loaded' = Append(loaded, member)
    /\ mod_idx' = mod_idx + 1
    /\ next' = next + 1
    /\ step' = "scan"
    /\ UNCHANGED <<parsing, MODULE_BUFS, seg, shell>>

(* After the modules the shell is spawned, if it can be, and the scheduler  *)
(* is started.                                                              *)
SpawnShell ==
    /\ step = "scan" /\ next = Len(entries)
    /\ \/ UNCHANGED shell
       \/ Cardinality(tasks) < Slots /\ shell' = TRUE
    /\ step' = "started"
    /\ UNCHANGED <<parsing, next, mod_idx, MODULE_BUFS, seg, tasks, loaded>>

LoaderNext ==
    \/ FindInitrd \/ Parse \/ LoadFont \/ NextEntry \/ LoadAt \/ CopySegment
    \/ SpawnModule \/ SpawnShell

LoaderSpec == LoaderInit /\ [][LoaderNext]_loaderVars

-----------------------------------------------------------------------------
(* The byte of a module at a virtual address: that of the last segment with *)
(* file data there, or zero.                                                *)
ByteAt(n, v) ==
    LET f == File(n)
        hits == {s \in Loads(f) : v \in f.phdrs[s].vaddr .. f.phdrs[s].vaddr + f.phdrs[s].filesz - 1}
        s == CHOOSE s \in hits : \A t \in hits : t <= s
    IN  IF hits = {} THEN Zero ELSE <<n, f.phdrs[s].offset + v - f.phdrs[s].vaddr>>

(* Members that a module loader has to accept. *)
WellFormed(f) ==
    /\ HeaderOk(f) /\ ~TableOverflows(f) /\ HasSpan(f) /\ ~Overflows(f) /\ total_size(f) <= BUF
    /\ \A s \in Loads(f) :
          f.phdrs[s].filesz <= f.phdrs[s].memsz /\ f.phdrs[s].offset + f.phdrs[s].filesz <= f.len

(* The image of every module that was loaded is that of its file, byte by   *)
(* byte and zero between and behind the file data, from the time it is      *)
(* loaded until the scheduler starts: modules that are loaded later, or are *)
(* refused half way, leave it alone, and a module that was refused leaves   *)
(* nothing behind in the buffer that the next one uses.  A task starts at   *)
(* the byte that its file has at e_entry, if that lies in the image, which  *)
(* nobody checks.                                                           *)
ImagesIntact ==
    /\ \A i \in 1 .. Len(loaded) :
          \A k \in 0 .. total_size(File(loaded[i])) - 1 :
             MODULE_BUFS[i - 1][k] = ByteAt(loaded[i], vaddr_min(File(loaded[i])) + k)
    /\ \A t \in tasks :
          File(t.member).entry \in vaddr_min(File(t.member)) .. vaddr_max(File(t.member)) - 1 =>
             MODULE_BUFS[t.buf][t.entry] = ByteAt(t.member, File(t.member).entry)

(* The members that TarFs can keep: the first ones that have a name and a   *)
(* header that is not cut off.                                              *)
Counted(a, i) ==
    /\ a.list[i].name # "unnamed"
    /\ \E o \in DOMAIN a.header : a.header[o].member = i /\ o + BLOCK <= a.len

Kept(a) == {i \in 1 .. Len(a.list) :
              Counted(a, i) /\ Cardinality({j \in 1 .. i : Counted(a, j)}) <= MAX_ENTRIES}

(* Once the scheduler starts, every well-formed module among the members    *)
(* that TarFs can keep is in a buffer, in the order of the archive, unless  *)
(* the buffers ran out; nothing else is; and the font is the first member   *)
(* of that name, if that is a font.                                         *)
EveryModuleLoaded ==
    step = "started" =>
        LET mods == {i \in Kept(archive) : IsModule(archive.list[i])}
            fonts == {i \in Kept(archive) : archive.list[i].name = "font"}
        IN  /\ Len(loaded) = MAX_MODULES
                  \/ \A i \in mods : WellFormed(File(i)) => \E j \in 1 .. Len(loaded) : loaded[j] = i
            /\ \A j \in 1 .. Len(loaded) : loaded[j] \in mods
            /\ \A j, l \in 1 .. Len(loaded) : j < l => loaded[j] < loaded[l]
            /\ font = 0 <=> \A i \in fonts : \E j \in fonts :
                               j <= i /\ (archive.list[j].dir \/ ~File(j).header_ok)
            /\ font # 0 => font \in fonts /\ \A i \in fonts : font <= i

(* The boot comes to an end: it starts the scheduler or halts. *)
BootEnds == step = "parse" ~> step \in Ended
=============================================================================
