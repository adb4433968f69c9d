------------------------------ MODULE MCBoot ------------------------------
(* File systems of a few blocks, laid out the way mke2fs does, and archives *)
(* of a few members.                                                        *)
EXTENDS Boot, TLC

\* The offset of inode n: the n-th of the tables of the groups.
Loc(s, bs, isize, tables, n) ==
    LET gi == CHOOSE gi \in (DOMAIN tables) \X (0 .. s.s_inodes_per_group - 1) :
                  n = gi[1] * s.s_inodes_per_group + gi[2] + 1
    IN  tables[gi[1]] * bs + gi[2] * isize

\* A disk from its superblock, inode tables, inodes by number, indirect
\* blocks and directory blocks.
Disk(s, tables, inodes, ind, dirs) ==
    LET bs == (KB * 2^(s.s_log_block_size % BITS)) % U32
        isize == IF s.s_rev_level = 0 THEN INODE ELSE s.s_inode_size
        bgdt == KB \div bs + 1
        Inverse1(f, o) == CHOOSE x \in DOMAIN f : f[x] = o
        bgdAt == [g \in DOMAIN tables |-> bgdt * bs + g * BGD]
        inoAt == [n \in DOMAIN inodes |-> Loc(s, bs, isize, tables, n)]
        words(m) == {<<b, k>> \in (DOMAIN m) \X (0 .. bs - 1) : k + 1 \in DOMAIN m[b]}
    IN  [sb |-> s,
         bgd |-> [o \in Range(bgdAt) |-> tables[Inverse1(bgdAt, o)]],
         inode |-> [o \in Range(inoAt) |-> inodes[Inverse1(inoAt, o)]],
         by_number |-> inodes,
         ptr |-> [o \in {w[1] * bs + w[2] * PTR : w \in words(ind)} |-> ind[o \div bs][(o % bs) + 1]],
         entry |-> [o \in {w[1] * bs + w[2] : w \in words(dirs)} |-> dirs[o \div bs][(o % bs) + 1]]]

Sb(magic, log, ipg, rev, isize) ==
    [magic |-> magic, s_log_block_size |-> log, s_inodes_per_group |-> ipg,
     s_rev_level |-> rev, s_inode_size |-> isize]

I(mode, sz, high, blocks) ==
    [i_mode |-> mode, i_size |-> sz, i_size_high |-> high,
     i_block |-> [k \in 0 .. NDIRECT + 2 |-> blocks[k + 1]]]

E(ino, len, name) == [inode |-> ino, rec_len |-> len, name |-> name, live |-> TRUE]
Dead(ino, len, name) == [inode |-> ino, rec_len |-> len, name |-> name, live |-> FALSE]

\* Inodes: 2 the root, 3 and 5 files, 4 a directory.  The root has three
\* blocks, the last one behind an indirect block; the entry of d covers a
\* deleted one, and there is an unused entry.
Empty == I("none", 0, 0, <<0, 0, 0, 0, 0>>)

Inodes(f, g) ==
    1 :> Empty @@ 2 :> I("dir", 6, 0, <<7, 11, 8, 0, 0>>) @@ 3 :> f
        @@ 4 :> I("dir", 2, 1, <<10, 0, 0, 0, 0>>) @@ 5 :> g

Dirs == 7 :> <<E(0, 1, "g"), E(3, 1, "f")>> @@ 11 :> <<E(5, 2, "h")>>
            @@ 9 :> <<E(4, 2, "d"), Dead(3, 1, "g")>> @@ 10 :> <<E(5, 1, "g"), E(2, 1, "up")>>

Ind == 8 :> <<9, 0>>

\* A file with all levels of indirection, some of it holes.
Big == 20 :> <<40, 41>> @@ 21 :> <<22, 23>> @@ 22 :> <<42, 0>> @@ 23 :> <<43, 44>>
           @@ 24 :> <<25, 26>> @@ 25 :> <<27, 0>> @@ 26 :> <<0, 28>>
           @@ 27 :> <<45, 46>> @@ 28 :> <<47, 48>>

Tables == 0 :> 4 @@ 1 :> 5 @@ 2 :> 6
Sb0 == Sb(TRUE, 0, 2, 0, 0)

MCFormatted ==
    {Disk(Sb0, Tables, Inodes(I("file", 1, 0, <<30, 0, 0, 0, 0>>),
                              I("file", 0, 0, <<0, 0, 0, 0, 0>>)), Ind, Dirs),
     \* blocks of twice the size, inodes of twice the size
     Disk(Sb(TRUE, 1, 3, 1, 2), 0 :> 2 @@ 1 :> 4,
          1 :> Empty @@ 2 :> I("dir", 4, 0, <<7, 0, 0, 0, 0>>)
            @@ 3 :> I("file", 17, 0, <<11, 0, 12, 0, 0>>)
            @@ 4 :> I("dir", 4, 0, <<10, 0, 0, 0, 0>>)
            @@ 5 :> I("file", 4, 0, <<14, 0, 0, 0, 0>>),
          12 :> <<13, 0, 15, 0>>,
          7 :> <<E(3, 1, "f"), E(0, 2, "g"), Dead(3, 1, "d"), E(4, 1, "d")>>
            @@ 10 :> <<E(5, 4, "g"), Dead(3, 1, "g")>>),
     \* without the magic number
     Disk(Sb(FALSE, 0, 2, 0, 0), Tables, Inodes(Empty, Empty), Ind, Dirs)}
    \cup
    \* files that end in each level of indirection, one that fills the block
    \* map, and one without single indirect blocks
    {Disk(Sb0, Tables, Inodes(I("file", n % U32, n \div U32, <<30, 0, 20, 21, 24>>),
                              I("file", 11, 0, <<0, 32, 0, 21, 0>>)), Ind @@ Big, Dirs) :
        n \in {1, 2, 3, 6, 7, 14, 15, 31, 32}}

\* A directory with an inode that does not exist, an entry that leads past
\* its end and an indirect block that refers to itself.
Corrupt ==
    Disk(Sb0, Tables, Inodes(I("file", 13, 0, <<30, 0, 20, 20, 20>>), Empty),
         8 :> <<8, 8>> @@ 20 :> <<20, 0>>,
         7 :> <<E(9, 1, "d"), E(3, 3, "f")>> @@ 8 :> <<E(4, 1, "g"), E(5, 9, "g")>>
            @@ 11 :> <<E(5, 2, "h"), E(4, 0, "h")>>)

\* Superblocks that the driver cannot compute with: no inodes in a group, a
\* shift that is too wide, one that leaves no block size (with an inode that is
\* found all the same), and a file with more block pointers than a u32 counts.
BadSuper ==
    {[Corrupt EXCEPT !.sb.s_inodes_per_group = 0],
     [Corrupt EXCEPT !.sb.s_log_block_size = BITS],
     [Corrupt EXCEPT !.sb.s_log_block_size = BITS - 1,
                     !.inode = 1 :> I("dir", 2, 0, <<7, 0, 0, 0, 0>>)],
     Disk(Sb(TRUE, 1, 3, 1, 2), 0 :> 2 @@ 1 :> 4,
          1 :> Empty @@ 2 :> I("dir", 4, 0, <<7, 0, 0, 0, 0>>)
            @@ 3 :> I("file", 25, 2, <<0, 0, 0, 0, 0>>),
          <<>>, 7 :> <<E(3, 4, "f")>>)}

MCDisks == MCFormatted \cup {Corrupt} \cup BadSuper

ASSUME DisksAsDescribed ==
    /\ \A d \in MCFormatted : IsExt3(d)
    /\ \A d \in {Corrupt} \cup BadSuper : ~IsExt3(d)
    /\ \A d \in BadSuper : ~Computable(d)

MCPaths == {<<>>, <<"f">>, <<"d", "", ".", "g">>, <<"g">>, <<"f", "g">>, <<"d", "">>,
            <<"d", "up", "f">>}

---------------------------------------------------------------------------
Seg(load, off, va, filesz, memsz) ==
    [load |-> load, offset |-> off, vaddr |-> va, filesz |-> filesz, memsz |-> memsz]

Elf(len, start, phdrs) ==
    [header_ok |-> TRUE, table_overflows |-> FALSE, len |-> len, entry |-> start, phdrs |-> phdrs]

Mod(f) == [name |-> "module", dir |-> FALSE, elf |-> f]
Other(name, dir, len) ==
    [name |-> name, dir |-> dir,
     elf |-> [header_ok |-> FALSE, table_overflows |-> FALSE, len |-> len, entry |-> 0, phdrs |-> <<>>]]

\* One segment with zeroes behind its data; two that are out of order, with
\* a gap and a header that is not PT_LOAD between them.
Good == {Mod(Elf(9, 8, <<Seg(TRUE, 2, 8, 2, 3)>>)),
         Mod(Elf(8, 11, <<Seg(TRUE, 1, 10, 2, 2), Seg(FALSE, 0, 0, 9, 9), Seg(TRUE, 4, 8, 1, 1)>>))}

\* A module that is refused after its first segment was copied.
Half == Mod(Elf(12, 8, <<Seg(TRUE, 2, 8, 4, 4), Seg(TRUE, 9, 9, 4, 3)>>))

\* Too large, no segment, no ELF file; a segment with more data than memory,
\* in and outside the buffer; an end and an offset that overflow; an empty
\* segment at the last address; a table whose end overflows.
Bad == {Mod(Elf(9, 8, <<Seg(TRUE, 0, 8, 1, 5)>>)),
        Mod(Elf(9, 8, <<Seg(FALSE, 0, 8, 1, 1)>>)),
        Other("module", FALSE, 3),
        Mod(Elf(9, 8, <<Seg(TRUE, 0, 8, 3, 2)>>)),
        Mod(Elf(9, 8, <<Seg(TRUE, 0, 8, 5, 2)>>)),
        Mod(Elf(9, 30, <<Seg(TRUE, 0, 30, 1, 4), Seg(TRUE, 0, 1, 1, 2)>>)),
        Mod(Elf(9, 8, <<Seg(TRUE, 30, 8, 4, 4)>>)),
        Mod(Elf(0, 8, <<Seg(TRUE, 31, 8, 1, 1)>>)),
        Mod(Elf(9, 31, <<Seg(TRUE, 0, 31, 0, 0)>>)),
        Mod([Elf(9, 8, <<Seg(TRUE, 2, 8, 2, 3)>>) EXCEPT !.table_overflows = TRUE])}

NotModules == {[Other("font", FALSE, 8) EXCEPT !.elf.header_ok = TRUE],
               Other("font", FALSE, 7), Other("font", TRUE, 0), Other("module", TRUE, 0),
               Other("unnamed", TRUE, 0), Other("unnamed", FALSE, 1)}

\* An archive of the members ms, of which the last bytes are cut off.
Archive(ms, cut) ==
    LET at[k \in 1 .. Len(ms) + 1] ==
            IF k = 1 THEN 0 ELSE at[k - 1] + BLOCK + Padded(ms[k - 1].elf.len)
        h == [k \in 1 .. Len(ms) |->
                [name |-> ms[k].name, dir |-> ms[k].dir, member |-> k,
                 digits |-> <<0, ms[k].elf.len \div 8, ms[k].elf.len % 8, 8, 1>>]]
        k0(o) == CHOOSE k \in 1 .. Len(ms) : at[k] = o
    IN  [len |-> at[Len(ms) + 1] + 2 * BLOCK - cut,
         header |-> [o \in {at[k] : k \in 1 .. Len(ms)} |-> h[k0(o)]],
         list |-> h,
         members |-> [k \in 1 .. Len(ms) |-> ms[k].elf]]

\* Every member before and behind a module, and every pair that is no module;
\* more modules than buffers and more members than entries, with a module that
\* was refused and members that are not modules among them; archives that are
\* cut off, and one whose name is not UTF-8.
MCArchives ==
    LET all == Good \cup {Half} \cup Bad \cup NotModules
        some == Good \cup {Half, Other("unnamed", FALSE, 1)}
    IN  {Archive(ms, 0) : ms \in (all \X Good) \cup (Good \X all)}
          \cup {Archive(ms, 0) : ms \in some \X some \X Good \X Good}
          \cup {Archive(<<m>>, c) : m \in Good, c \in {16, 17, 23, 24, 25}}
          \cup {Archive(<<m, Other("invalid", FALSE, 1)>>, 0) : m \in Good}
          \cup {Archive(ms, 0) : ms \in NotModules \X NotModules}
===========================================================================
