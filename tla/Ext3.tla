-------------------------------- MODULE Ext3 --------------------------------
(***************************************************************************)
(* The read-only ext3 driver (src/kern/fs/ext3): mount, read_file, exists, *)
(* list_dir and drop, down to the inode, the block map and the directory   *)
(* entries.  Every read of the disk and every kmalloc may fail; a read     *)
(* that succeeds has the right bytes (what Ahci shows).                    *)
(*                                                                         *)
(* Offsets and sizes are in words.  A word that was read from the disk is  *)
(* represented by the offset it was read from, a zeroed one by 0.          *)
(***************************************************************************)
EXTENDS Naturals, FiniteSets, Sequences, SequencesExt, Shift

CONSTANTS Disks,      \* the file systems, see DiskType
          Paths,      \* sequences of components, what split('/') yields
          KB,         \* 1024: offset and size of the superblock
          PAGE,       \* 4096: the buffer of the superblock
          PTR,        \* size of a block pointer
          HDR,        \* size of a directory entry without its name
          BGD,        \* size of a group descriptor
          INODE,      \* size of struct Inode
          NDIRECT,    \* 12: block pointers in the inode
          U32,        \* how many values a u32 has
          BITS,       \* 32: a shift of a u32 is by its amount modulo this
          NBlocks,    \* blocks that kmalloc can hand out
          Junk, Nil

ROOT_INO == 2

(* 1024 << s_log_block_size: bits that do not fit are lost. *)
BlockSize(d) == (KB * Shl[d.sb.s_log_block_size % BITS]) % U32

(* What a disk holds, by offset: group descriptors (the block of the inode  *)
(* table), inodes, block pointers and directory entries, of which some are  *)
(* left over from deleted files (not live); its superblock; and, for the    *)
(* reference definitions, its inodes by number.  Any superblock will do,    *)
(* but directories are whole blocks.                                        *)
DiskType(d) ==
    LET s == d.sb
        bs == BlockSize(d)
    IN  /\ s.s_log_block_size \in Nat /\ bs \in Nat /\ s.s_inodes_per_group \in Nat
        /\ s.s_rev_level \in Nat /\ s.s_inode_size \in Nat
        /\ \A o \in DOMAIN d.bgd : d.bgd[o] \in Nat
        /\ \A o \in DOMAIN d.inode :
              /\ d.inode[o].i_size \in Nat /\ d.inode[o].i_size_high \in Nat
              /\ d.inode[o].i_block \in [0 .. NDIRECT + 2 -> Nat]
              /\ d.inode[o].i_mode = "dir" /\ bs # 0 => d.inode[o].i_size % bs = 0
        /\ \A o \in DOMAIN d.ptr : d.ptr[o] \in Nat
        /\ \A o \in DOMAIN d.entry : d.entry[o].rec_len \in Nat /\ d.entry[o].inode \in Nat

ASSUME Ext3Constants ==
    /\ {KB, PAGE, PTR, HDR, BGD, INODE, NDIRECT, U32, BITS} \subseteq Nat \ {0}
    /\ NBlocks \in Nat
    /\ \A d \in Disks : DiskType(d)
    /\ Paths \subseteq Seq(STRING)
    /\ Junk \notin Nat
    /\ Nil \notin [id : Nat, size : Nat]

VARIABLES
    disk,       \* the file system on the disk
    heap,       \* blocks of kmalloc that are allocated
    sb,         \* block of the superblock, Nil when not mounted
    pc,
    call,       \* the call in progress, what is left of its path, current_ino
    table,      \* bg_inode_table
    ip, inode,  \* block of the inode, and the inode
    data, buf,  \* block of the data, and what was written to it
    pos,        \* logical_block while reading, off while scanning
    walk,       \* resolve_block: pointer at hand, indices still to follow
    out,        \* inodes that list_dir reported
    res,        \* the call succeeded
    faults      \* ghost: a read or kmalloc failed; a pointer read failed

local == <<table, ip, inode, data, buf, pos, walk, out>>
vars == <<disk, heap, sb, pc, call, local, res, faults>>

-----------------------------------------------------------------------------
(* The superblock's accessors. *)
block_size == BlockSize(disk)

inode_size ==
    IF disk.sb.s_rev_level >= 1 /\ disk.sb.s_inode_size > 0 THEN disk.sb.s_inode_size ELSE INODE

inode_alloc_size == IF inode_size > INODE THEN inode_size ELSE INODE

ptrs_per_block == block_size \div PTR

(* The length of a regular file has a high half; the field means something  *)
(* else in a directory.                                                     *)
size(i) == i.i_size + (IF i.i_mode = "file" THEN i.i_size_high * U32 ELSE 0)

blocks_needed == (size(inode) + block_size - 1) \div block_size

(* What a read of the disk finds at an offset; zeroes where nothing is. *)
InodeAt(o) ==
    IF o \in DOMAIN disk.inode THEN disk.inode[o]
    ELSE [i_mode |-> "none", i_size |-> 0, i_size_high |-> 0,
          i_block |-> [k \in 0 .. NDIRECT + 2 |-> 0]]
BgdAt(o) == IF o \in DOMAIN disk.bgd THEN disk.bgd[o] ELSE 0
PtrAt(d, o) == IF o \in DOMAIN d.ptr THEN d.ptr[o] ELSE 0
EntryAt(d, o) ==
    IF o \in DOMAIN d.entry THEN d.entry[o] ELSE [inode |-> 0, rec_len |-> 0, name |-> "", live |-> FALSE]

(* kmalloc and kfree: a block that is not in use, or none.  This is what    *)
(* Kmem shows of them as long as no page was given out twice.               *)
FreeIds == 1 .. NBlocks \ {b.id : b \in heap}
Kmalloc(n) == {[id |-> i, size |-> n] : i \in {k \in FreeIds : \A j \in FreeIds : k <= j}}
Kfree(b, n) == [id |-> b.id, size |-> n]

FreeInode == {Kfree(ip, inode_alloc_size)}
FreeData == {Kfree(data, size(inode))}

-----------------------------------------------------------------------------
NoCall == [op |-> "none", path |-> <<>>, rest |-> <<>>, ino |-> 0]
NoFault == [any |-> FALSE, ptr |-> FALSE]

Init ==
    /\ disk \in Disks
    /\ heap = {} /\ sb = Nil
    /\ pc = "unmounted"
    /\ call = NoCall
    /\ table = 0 /\ ip = Nil /\ inode = Nil /\ data = Nil /\ buf = <<>>
    /\ pos = 0 /\ walk = Nil /\ out = <<>>
    /\ res = FALSE
    /\ faults = NoFault

(* read_superblock() allocates a page; without one nothing changes. *)
Mount ==
    /\ pc = "unmounted"
    /\ \E b \in Kmalloc(PAGE) : sb' = b /\ heap' = heap \cup {b}
    /\ pc' = "superblock"
    /\ UNCHANGED <<disk, call, local, res, faults>>

(* It is mounted when the read succeeds and the magic is right.  mount()    *)
(* prints the block size; a shift that is too wide panics in a dev build.   *)
ReadSuperblock ==
    /\ pc = "superblock"
    /\ \/ disk.sb.magic /\ pc' = "idle" /\ UNCHANGED <<heap, sb>>
       \/ /\ disk.sb.magic /\ disk.sb.s_log_block_size >= BITS
          /\ pc' = "panic"
          /\ UNCHANGED <<heap, sb>>
       \/ /\ heap' = heap \ {Kfree(sb, PAGE)}
          /\ sb' = Nil
          /\ pc' = "unmounted"
    /\ UNCHANGED <<disk, call, local, res, faults>>

Drop ==
    /\ pc = "idle"
    /\ heap' = heap \ {Kfree(sb, PAGE)}
    /\ sb' = Nil
    /\ pc' = "unmounted"
    /\ UNCHANGED <<disk, call, local, res, faults>>

(* read_file, exists and list_dir start with resolve_path from the root.    *)
(* list_dir skips it for "" and "/", which have no component.               *)
Call(op, path) ==
    /\ pc = "idle"
    /\ call' = [op |-> op, path |-> path, rest |-> path, ino |-> ROOT_INO]
    /\ faults' = NoFault
    /\ pc' = "resolve"
    /\ UNCHANGED <<disk, heap, sb, local, res>>

(* The call ends and gives back the blocks in freed. *)
Ends(r, freed) ==
    /\ pc' = "done"
    /\ res' = r
    /\ heap' = heap \ freed
    /\ ip' = Nil
    /\ data' = IF r /\ call.op = "read_file" THEN data ELSE Nil

Fails(freed, fault) ==
    /\ Ends(FALSE, freed)
    /\ faults' = [faults EXCEPT !.any = @ \/ fault]
    /\ UNCHANGED <<disk, sb, call, table, inode, buf, pos, walk, out>>

(* The loop over the components; exists ends with it. *)
ResolvePath ==
    /\ pc = "resolve"
    /\ \/ /\ call.rest # <<>> /\ Head(call.rest) \in {"", "."}
          /\ call' = [call EXCEPT !.rest = Tail(@)]
          /\ UNCHANGED <<heap, pc, res, ip, data>>
       \/ /\ call.rest = <<>> => call.op # "exists"
          /\ call.rest # <<>> => Head(call.rest) \notin {"", "."}
          /\ pc' = "read_inode"
          /\ UNCHANGED <<heap, call, res, ip, data>>
       \/ /\ call.rest = <<>> /\ call.op = "exists"
          /\ Ends(TRUE, {})
          /\ UNCHANGED call
    /\ UNCHANGED <<disk, sb, table, inode, buf, pos, walk, out, faults>>

group(ino) == (ino - 1) \div disk.sb.s_inodes_per_group

index(ino) == (ino - 1) % disk.sb.s_inodes_per_group

bgdt_block == IF block_size = KB THEN 2 ELSE 1

bgd_offset(ino) == bgdt_block * block_size + group(ino) * BGD

(* read_inode() up to kmalloc: the group descriptor gives the inode table,  *)
(* after a division by the inodes per group that is not checked for zero.   *)
ReadBgd ==
    /\ pc = "read_inode"
    /\ \/ /\ call.ino # 0 => disk.sb.s_inodes_per_group # 0
          /\ Fails({}, call.ino # 0)
       \/ /\ call.ino # 0 /\ disk.sb.s_inodes_per_group = 0
          /\ pc' = "panic"
          /\ UNCHANGED <<disk, heap, sb, call, local, res, faults>>
       \/ /\ call.ino # 0 /\ disk.sb.s_inodes_per_group # 0
          /\ table' = BgdAt(bgd_offset(call.ino))
          /\ \E b \in Kmalloc(inode_alloc_size) : ip' = b /\ heap' = heap \cup {b}
          /\ pc' = "inode"
          /\ UNCHANGED <<disk, sb, call, inode, data, buf, pos, walk, out, res, faults>>

ReadInode ==
    /\ pc = "inode"
    /\ \/ Fails(FreeInode, TRUE)
       \/ /\ inode' = InodeAt(table * block_size + index(call.ino) * inode_size)
          /\ pc' = "use_inode"
          /\ UNCHANGED <<disk, heap, sb, call, table, ip, data, buf, pos, walk, out, res, faults>>

(* Components are looked up in directories; read_file wants a file. *)
Wanted == IF call.rest = <<>> /\ call.op = "read_file" THEN "file" ELSE "dir"

(* The mode is checked, and read_inode_data() allocates the size.  Nothing  *)
(* to read and no memory end the call the same way.  Then it divides by the *)
(* block size, also when that is zero.                                      *)
AllocData ==
    /\ pc = "use_inode"
    /\ \/ inode.i_mode # Wanted /\ Fails(FreeInode, FALSE)
       \/ inode.i_mode = Wanted /\ Fails(FreeInode, size(inode) > 0)
       \/ /\ inode.i_mode = Wanted /\ size(inode) > 0
          /\ \E b \in Kmalloc(size(inode)) : data' = b /\ heap' = heap \cup {b}
          /\ buf' = [i \in 0 .. size(inode) - 1 |-> Junk]
          /\ pos' = 0
          /\ pc' = IF block_size = 0 THEN "panic" ELSE "block"
          /\ UNCHANGED <<disk, sb, call, table, ip, inode, walk, out, res, faults>>

-----------------------------------------------------------------------------
double_range == (ptrs_per_block * ptrs_per_block) % U32

triple_range == (ptrs_per_block * ptrs_per_block * ptrs_per_block) % U32

(* Mutant: the double indirect range starts where the single one does. *)
Route_NoSubtract(logical) ==
    LET P == ptrs_per_block
        l1 == logical - NDIRECT
        l2 == l1
        l3 == l2 - double_range
    IN  CASE logical < NDIRECT -> <<logical>>
          [] logical >= NDIRECT /\ l1 < P -> <<NDIRECT, l1>>
          [] l1 >= P /\ l2 < double_range -> <<NDIRECT + 1, l2 \div P, l2 % P>>
          [] OTHER -> <<NDIRECT + 2, l3 \div (P * P), (l3 % (P * P)) \div P, (l3 % (P * P)) % P>>

(* resolve_block(): the entry of i_block and the indices to follow from it; *)
(* nothing beyond the triple indirect block.                                *)
Route(logical) ==
    LET P == ptrs_per_block
        l1 == logical - NDIRECT
        l2 == l1 - P
        l3 == l2 - double_range
    IN  CASE logical < NDIRECT -> <<logical>>
          [] logical >= NDIRECT /\ l1 < P -> <<NDIRECT, l1>>
          [] l1 >= P /\ l2 < double_range -> <<NDIRECT + 1, l2 \div P, l2 % P>>
          [] l2 >= double_range /\ l3 < triple_range ->
               <<NDIRECT + 2, l3 \div (P * P), (l3 % (P * P)) \div P, (l3 % (P * P)) % P>>
          [] OTHER -> <<>>

(* A range that resolve_block() computes on the way to a block does not fit *)
(* a u32, which panics in a dev build.                                      *)
RangeOverflows(logical) ==
    LET P == ptrs_per_block
    IN  /\ logical >= NDIRECT + P
        /\ \/ P * P >= U32
           \/ logical >= NDIRECT + P + P * P /\ P * P * P >= U32

(* The next block of read_inode_data().  After the last one the directory   *)
(* is scanned, or read_file returns the data and frees the inode.           *)
NextBlock ==
    /\ pc = "block"
    /\ \/ /\ pos < blocks_needed /\ RangeOverflows(pos % U32)
          /\ pc' = "panic"
          /\ UNCHANGED <<heap, ip, data, pos, walk, res>>
       \/ /\ pos < blocks_needed
          /\ LET r == Route(pos % U32)
             IN  walk' = IF r = <<>> THEN [ptr |-> 0, idx |-> <<>>]
                         ELSE [ptr |-> inode.i_block[Head(r)], idx |-> Tail(r)]
          /\ pc' = "walk"
          /\ UNCHANGED <<heap, ip, data, pos, res>>
       \/ /\ pos = blocks_needed /\ Wanted = "dir"
          /\ pos' = 0
          /\ pc' = "scan"
          /\ UNCHANGED <<heap, ip, data, walk, res>>
       \/ /\ pos = blocks_needed /\ Wanted = "file"
          /\ Ends(TRUE, FreeInode)
          /\ UNCHANGED <<pos, walk>>
    /\ UNCHANGED <<disk, sb, call, table, inode, buf, out, faults>>

(* read_block_ptr(): a failed read looks like a pointer that is zero. *)
ReadBlockPtr ==
    /\ pc = "walk" /\ walk.ptr # 0 /\ walk.idx # <<>>
    /\ \/ /\ walk' = [ptr |-> PtrAt(disk, walk.ptr * block_size + Head(walk.idx) * PTR),
                      idx |-> Tail(walk.idx)]
          /\ UNCHANGED faults
       \/ /\ walk' = [ptr |-> 0, idx |-> <<>>]
          /\ faults' = [any |-> TRUE, ptr |-> TRUE]
    /\ UNCHANGED <<disk, heap, sb, pc, call, table, ip, inode, data, buf, pos, out, res>>

(* Mutant: the offset is advanced before the block is read. *)
buf_off_Advanced == (pos + 1) * block_size

buf_off == pos * block_size

chunk == IF size(inode) - buf_off < block_size THEN size(inode) - buf_off ELSE block_size

(* The buffer with n words written at buf_off, past its end if need be. *)
Written(n, w(_)) ==
    [i \in DOMAIN buf \cup (buf_off .. buf_off + n - 1) |->
        IF i \in buf_off .. buf_off + n - 1 THEN w(i - buf_off) ELSE buf[i]]

(* Mutant: a failed read frees the inode but not the data. *)
FreedOnBadBlock_KeepsData == FreeInode

FreedOnBadBlock == FreeInode \cup FreeData

(* A hole becomes a chunk of zeroes, and any other block is read whole,     *)
(* whatever is left of the file.                                            *)
CopyBlock ==
    /\ pc = "walk" /\ (walk.ptr = 0 \/ walk.idx = <<>>)
    /\ \/ /\ walk.ptr # 0
          /\ Fails(FreedOnBadBlock, TRUE)
       \/ /\ buf' = IF walk.ptr = 0 THEN Written(chunk, LAMBDA j : 0)
                    ELSE Written(block_size, LAMBDA j : walk.ptr * block_size + j)
          /\ pos' = pos + 1
          /\ walk' = Nil
          /\ pc' = "block"
          /\ UNCHANGED <<disk, heap, sb, call, table, ip, inode, data, out, res, faults>>

-----------------------------------------------------------------------------
entry == EntryAt(disk, buf[pos])

(* Mutant: an entry of length zero does not end the scan. *)
More_ZeroLength == pos + HDR <= size(inode)

(* The scans end at the end of the directory and at an entry of length zero.*)
More == pos + HDR <= size(inode) /\ entry.rec_len # 0

(* Mutant: the name alone decides, in an unused entry too. *)
Matches_Unused == entry.name = Head(call.rest)

Matches == entry.inode # 0 /\ entry.name = Head(call.rest)

(* find_in_dir_data(), an entry at a time.  The data and the inode are      *)
(* freed whether the name is found or not.                                  *)
FindInDirData ==
    /\ pc = "scan" /\ call.rest # <<>>
    /\ \/ /\ More /\ Matches
          /\ call' = [call EXCEPT !.ino = entry.inode, !.rest = Tail(@)]
          /\ heap' = heap \ (FreeInode \cup FreeData)
          /\ ip' = Nil /\ data' = Nil
          /\ pc' = "resolve"
          /\ UNCHANGED <<disk, sb, table, inode, buf, pos, walk, out, res, faults>>
       \/ /\ More /\ ~Matches
          /\ pos' = pos + entry.rec_len
          /\ UNCHANGED <<disk, heap, sb, pc, call, table, ip, inode, data, buf, walk, out,
                         res, faults>>
       \/ ~More /\ Fails(FreeInode \cup FreeData, FALSE)

(* for_each_entry(), which reports every entry that is in use. *)
ForEachEntry ==
    /\ pc = "scan" /\ call.rest = <<>>
    /\ \/ /\ More
          /\ out' = IF entry.inode # 0 THEN Append(out, entry.inode) ELSE out
          /\ pos' = pos + entry.rec_len
          /\ UNCHANGED <<heap, pc, ip, data, res>>
       \/ /\ ~More
          /\ Ends(TRUE, FreeInode \cup FreeData)
          /\ UNCHANGED <<pos, out>>
    /\ UNCHANGED <<disk, sb, call, table, inode, buf, walk, faults>>

(* The call returns; a caller of read_file owns the data and frees it. *)
Return ==
    /\ pc = "done"
    /\ heap' = heap \ (IF data = Nil THEN {} ELSE FreeData)
    /\ pc' = "idle"
    /\ call' = NoCall
    /\ table' = 0 /\ ip' = Nil /\ inode' = Nil /\ data' = Nil /\ buf' = <<>>
    /\ pos' = 0 /\ walk' = Nil /\ out' = <<>>
    /\ res' = FALSE
    /\ faults' = NoFault
    /\ UNCHANGED <<disk, sb>>

Step ==
    \/ ReadSuperblock \/ ResolvePath \/ ReadBgd \/ ReadInode \/ AllocData
    \/ NextBlock \/ ReadBlockPtr \/ CopyBlock \/ FindInDirData \/ ForEachEntry \/ Return

Next ==
    \/ Mount
    \/ Drop
    \/ \E op \in {"read_file", "exists", "list_dir"}, p \in Paths : Call(op, p)
    \/ Step

Spec == Init /\ [][Next]_vars

(* The driver runs on; nobody has to call it. *)
FairSpec == Spec /\ WF_vars(Step)

-----------------------------------------------------------------------------
(* The format, for reference.  A block map is the leaves of the inode's     *)
(* pointer trees in order, and a file is the words of these blocks.         *)
PtrsPerBlock(d) == BlockSize(d) \div PTR

(* The sequences in ss, each of length n, one after the other. *)
Concat(ss, n) ==
    [k \in 1 .. Len(ss) * n |-> ss[((k - 1) \div n) + 1][((k - 1) % n) + 1]]

Pointers(d, b) ==
    [k \in 1 .. PtrsPerBlock(d) |->
        IF b = 0 THEN 0 ELSE PtrAt(d, b * BlockSize(d) + (k - 1) * PTR)]

Leaves(d, bs) == Concat([k \in 1 .. Len(bs) |-> Pointers(d, bs[k])], PtrsPerBlock(d))

BlockMap(d, i) ==
    [k \in 1 .. NDIRECT |-> i.i_block[k - 1]]
        \o Leaves(d, <<i.i_block[NDIRECT]>>)
        \o Leaves(d, Leaves(d, <<i.i_block[NDIRECT + 1]>>))
        \o Leaves(d, Leaves(d, Leaves(d, <<i.i_block[NDIRECT + 2]>>)))

Words(d, b) == [j \in 1 .. BlockSize(d) |-> IF b = 0 THEN 0 ELSE b * BlockSize(d) + j - 1]

Content(d, i) ==
    LET bm == BlockMap(d, i)
    IN  SubSeq(Concat([k \in 1 .. Len(bm) |-> Words(d, bm[k])], BlockSize(d)), 1, size(i))

(* The entries of a directory by the place of their first word. *)
DirEntries(d, i) == [k \in 1 .. size(i) |-> EntryAt(d, Content(d, i)[k])]

InUse(e) == e.live /\ e.inode # 0

(* The inodes in the first k places. *)
ListedTo(es) ==
    LET to[k \in 0 .. Len(es)] ==
            IF k = 0 THEN <<>>
            ELSE IF InUse(es[k]) THEN Append(to[k - 1], es[k].inode) ELSE to[k - 1]
    IN  to

Listed(d, i) == ListedTo(DirEntries(d, i))[size(i)]

LookupIn(d, i, name) ==
    LET es == DirEntries(d, i)
        hits == {k \in 1 .. Len(es) : InUse(es[k]) /\ es[k].name = name}
    IN  IF i.i_mode # "dir" \/ hits = {} THEN 0 ELSE es[CHOOSE k \in hits : TRUE].inode

(* The inodes that a path leads through, 0 from where it does not exist. *)
Visited(d, path) ==
    LET at[k \in 0 .. Len(path)] ==
            IF k = 0 THEN ROOT_INO
            ELSE IF path[k] \in {"", "."} \/ at[k - 1] = 0 THEN at[k - 1]
            ELSE LookupIn(d, d.by_number[at[k - 1]], path[k])
    IN  at

Resolved(d, path) == Visited(d, path)[Len(path)]

IsFile(d, n) == n # 0 /\ d.by_number[n].i_mode = "file"

(* What makes a disk an ext3 file system.  Inode n is the k-th of the table *)
(* of some group g; the descriptors are in the block behind the superblock. *)
InodesPlaced(d) ==
    LET s == d.sb
        isize == IF s.s_rev_level = 0 THEN INODE ELSE s.s_inode_size
        gdt == (KB \div BlockSize(d) + 1) * BlockSize(d)
    IN  /\ isize > 0
        /\ DOMAIN d.by_number \subseteq Nat \ {0}
        /\ \A n \in DOMAIN d.by_number :
              \E g \in 0 .. n, k \in 0 .. s.s_inodes_per_group - 1 :
                 /\ n = g * s.s_inodes_per_group + k + 1
                 /\ gdt + g * BGD \in DOMAIN d.bgd
                 /\ d.bgd[gdt + g * BGD] * BlockSize(d) + k * isize \in DOMAIN d.inode
                 /\ d.by_number[n] = d.inode[d.bgd[gdt + g * BGD] * BlockSize(d) + k * isize]

(* A file is no longer than its block map, whose ranges are counted as u32. *)
Addressable(d, i) ==
    LET P == PtrsPerBlock(d)
    IN  /\ size(i) <= (NDIRECT + P + P * P + ((P * P * P) % U32)) * BlockSize(d)
        /\ size(i) <= U32 * BlockSize(d)

(* From the first place of a directory each entry leads to the next, up to  *)
(* the end; names are different and inodes exist.                           *)
EntriesChained(d, es) ==
    LET starts == {k \in 1 .. Len(es) : es[k].live}
    IN  /\ es # <<>> => 1 \in starts
        /\ \A k \in starts :
              /\ es[k].rec_len > 0 /\ k + HDR - 1 <= Len(es)
              /\ k + es[k].rec_len \in starts \cup {Len(es) + 1}
              /\ \A j \in starts : j <= k \/ j >= k + es[k].rec_len
              /\ es[k].inode # 0 => es[k].inode \in DOMAIN d.by_number
        /\ \A j, k \in starts :
              InUse(es[j]) /\ InUse(es[k]) /\ es[j].name = es[k].name => j = k

(* The block size is the one that s_log_block_size stands for. *)
SizeFits(d) ==
    /\ d.sb.s_log_block_size < BITS
    /\ KB * Shl[d.sb.s_log_block_size] < U32

IsExt3(d) ==
    /\ SizeFits(d)
    /\ InodesPlaced(d)
    /\ ROOT_INO \in DOMAIN d.by_number
    /\ PTR <= BlockSize(d) /\ PtrsPerBlock(d) * PtrsPerBlock(d) < U32
    /\ 0 \notin DOMAIN d.entry
    /\ \A n \in DOMAIN d.by_number :
          LET i == d.by_number[n]
          IN  Addressable(d, i) /\ (i.i_mode = "dir" => EntriesChained(d, DirEntries(d, i)))

-----------------------------------------------------------------------------
(* On an ext3 file system read_file() returns the file that the path names, *)
(* word by word, holes as zeroes.  Only where the read of a block pointer   *)
(* failed may zeroes stand for data.  It returns nothing only when a read   *)
(* or kmalloc failed, or the path does not name a file with anything in it. *)
ReadFileCorrect ==
    (pc = "done" /\ call.op = "read_file" /\ IsExt3(disk)) =>
        LET n == Resolved(disk, call.path)
            words == Content(disk, disk.by_number[n])
        IN  IF res
            THEN /\ IsFile(disk, n) /\ data.size = Len(words)
                 /\ \A k \in 1 .. data.size :
                      buf[k - 1] = words[k] \/ (faults.ptr /\ buf[k - 1] = 0)
            ELSE IsFile(disk, n) /\ size(disk.by_number[n]) > 0 => faults.any

(* exists() and list_dir() agree with the directories of an ext3 file       *)
(* system.  exists() may miss a file when something failed, and never       *)
(* invents one.  list_dir() reports the entries in order: all of them, or   *)
(* those before the first block that a failed pointer read hid.             *)
LookupCorrect ==
    /\ (pc = "done" /\ call.op = "exists" /\ IsExt3(disk)) =>
          IF res THEN Resolved(disk, call.path) # 0
          ELSE Resolved(disk, call.path) # 0 => faults.any
    /\ (pc = "done" /\ call.op = "list_dir" /\ res /\ IsExt3(disk)) =>
          LET n == Resolved(disk, call.path)
              all == Listed(disk, disk.by_number[n])
          IN  /\ n # 0
              /\ IsPrefix(out, all)
              /\ faults.ptr \/ out = all

(* On every path through the driver, with every failure, exactly the blocks *)
(* it has pointers to are allocated, and each is freed with the size it was *)
(* allocated with: nothing leaks and nothing is freed twice.                *)
NothingLeaks ==
    /\ heap = {sb, ip, data} \ {Nil}
    /\ pc = "unmounted" => heap = {}
    /\ pc = "idle" => heap = {sb}

(* The data read stays within its buffer when the size is a whole number of *)
(* blocks, as that of directories is; otherwise the last block read goes    *)
(* past it, by less than a block.                                           *)
OverrunBounded ==
    data # Nil =>
        \A i \in DOMAIN buf :
            i < data.size \/ (Wanted = "file" /\ i < blocks_needed * block_size)

(* A superblock whose fields the driver can compute with. *)
Computable(d) ==
    LET P == PtrsPerBlock(d)
    IN  /\ SizeFits(d)
        /\ d.sb.s_inodes_per_group # 0
        /\ P * P * P < U32

(* Every call returns, whatever fails and whatever the directories, inodes  *)
(* and block pointers hold; only arithmetic on the fields of the superblock *)
(* can stop the kernel instead: no inodes in a group, a block size that is  *)
(* shifted out, or more block pointers than a u32 counts.                   *)
CallsEnd == []<>(pc \in {"unmounted", "idle"} \/ (pc = "panic" /\ ~Computable(disk)))

=============================================================================
