----------------------------- MODULE BootProofs -----------------------------
(***************************************************************************)
(* Proofs about Ext3 and Loader, and about Boot, which runs both: for      *)
(* every disk, every path and every archive.                               *)
(***************************************************************************)
EXTENDS Boot, NumberProofs, FiniteSetTheorems, TLAPS

Block == [id : Nat, size : Nat]

(* The labels at which the inode, and the data, of the call are allocated. *)
HasInode == {"inode", "use_inode", "block", "walk", "scan"}
HasData == {"block", "walk", "scan"}

(* What each label says of the driver's three pointers: which of them are   *)
(* blocks, that no two are the same block, and the size each was allocated  *)
(* with; a directory scan never runs for the file that read_file wants.     *)
PointersInv ==
    /\ disk \in Disks
    /\ sb \in Block \cup {Nil} /\ ip \in Block \cup {Nil} /\ data \in Block \cup {Nil}
    /\ sb = Nil <=> pc = "unmounted"
    /\ pc \in HasInode => ip # Nil
    /\ ip # Nil => pc \in HasInode \cup {"panic"}
    /\ pc \in HasData => data # Nil
    /\ data # Nil => pc \in HasData \cup {"done", "panic"}
    /\ sb # Nil => sb.size = PAGE
    /\ ip # Nil => ip.size = inode_alloc_size
    /\ data # Nil => data.size = size(inode)
    /\ sb # Nil /\ ip # Nil => sb.id # ip.id
    /\ sb # Nil /\ data # Nil => sb.id # data.id
    /\ ip # Nil /\ data # Nil => ip.id # data.id
    /\ pc = "use_inode" => size(inode) \in Nat
    /\ pc = "scan" => Wanted = "dir"

LeakInv == PointersInv /\ heap = {sb, ip, data} \ {Nil}

-----------------------------------------------------------------------------
(* kmalloc hands out a block whose id no allocated block has. *)
LEMMA KmallocFresh ==
  ASSUME NEW n \in Nat, NEW b \in Kmalloc(n)
  PROVE  b \in Block /\ b.size = n /\ b # Nil /\ \A c \in heap : c.id # b.id
BY Ext3Constants DEF Kmalloc, FreeIds, Block

(* kfree names the block exactly when it is given the block's own size. *)
LEMMA KfreeExact ==
  ASSUME NEW b \in Block
  PROVE  Kfree(b, b.size) = b
BY DEF Kfree, Block

(* The sizes that the driver asks for are numbers. *)
LEMMA Sizes ==
  ASSUME disk \in Disks
  PROVE  /\ PAGE \in Nat
         /\ inode_alloc_size \in Nat
         /\ \A o : size(InodeAt(o)) \in Nat
<1>1. DiskType(disk) /\ PAGE \in Nat /\ INODE \in Nat /\ U32 \in Nat
  BY Ext3Constants
<1>2. inode_alloc_size \in Nat
  BY <1>1 DEF inode_alloc_size, inode_size, DiskType
<1>3. ASSUME NEW o PROVE size(InodeAt(o)) \in Nat
  <2>1. InodeAt(o).i_size \in Nat /\ InodeAt(o).i_size_high \in Nat
    BY <1>1 DEF DiskType, InodeAt
  <2>2. InodeAt(o).i_size_high * U32 \in Nat
    BY <1>1, <2>1
  <2> QED
    BY <2>1, <2>2 DEF size
<1> QED
  BY <1>1, <1>2, <1>3

(* Mount allocates the superblock's page, ReadSuperblock and Drop free it. *)
LEMMA MountSteps ==
  ASSUME LeakInv, Mount \/ ReadSuperblock \/ Drop
  PROVE  LeakInv'
<1>0. disk \in Disks /\ PAGE \in Nat /\ Nil \notin Block
  BY Ext3Constants, Sizes DEF LeakInv, PointersInv, Block
<1> USE DEF LeakInv, PointersInv, HasInode, HasData, local, inode_alloc_size, inode_size
<1>1. CASE Mount
  <2>1. PICK b \in Kmalloc(PAGE) : sb' = b /\ heap' = heap \cup {b}
    BY <1>1 DEF Mount
  <2>2. b \in Block /\ b.size = PAGE /\ b # Nil
    BY <1>0, <2>1, KmallocFresh
  <2> QED
    BY <1>1, <2>1, <2>2 DEF Mount
<1>2. ASSUME sb # Nil, ip = Nil, data = Nil, heap' = heap \ {Kfree(sb, PAGE)}, sb' = Nil,
             pc' = "unmounted", UNCHANGED <<disk, call, local, res, faults>>
      PROVE  LeakInv'
  <2>1. Kfree(sb, PAGE) = sb
    BY <1>2, KfreeExact
  <2> QED
    BY <1>2, <2>1
<1>3. CASE ReadSuperblock
  <2>1. sb # Nil /\ ip = Nil /\ data = Nil
    BY <1>3 DEF ReadSuperblock
  <2>2. CASE pc' \in {"idle", "panic"} /\ UNCHANGED <<heap, sb>>
    BY <1>3, <2>1, <2>2 DEF ReadSuperblock
  <2> QED
    BY <1>2, <1>3, <2>1, <2>2 DEF ReadSuperblock
<1>4. CASE Drop
  BY <1>2, <1>4 DEF Drop
<1> QED
  BY <1>1, <1>3, <1>4

(* What the driver frees are the inode's and the data's blocks. *)
LEMMA FreedBlocks ==
  ASSUME LeakInv
  PROVE  /\ ip # Nil => FreeInode = {ip}
         /\ data # Nil => FreeData = {data}
BY KfreeExact DEF LeakInv, PointersInv, FreeInode, FreeData

(* A call that ends gives back the inode and, unless it is read_file that   *)
(* returns it, the data: what it frees has to be exactly that.              *)
LEMMA EndsKeepsLeakInv ==
  ASSUME LeakInv, sb # Nil, NEW r \in BOOLEAN, NEW freed, Ends(r, freed),
         UNCHANGED <<disk, sb, call, inode>>,
         freed = {ip, IF r /\ call.op = "read_file" THEN Nil ELSE data} \ {Nil}
  PROVE  LeakInv'
<1>1. /\ ip' = Nil /\ pc' = "done" /\ heap' = heap \ freed
      /\ data' = IF r /\ call.op = "read_file" THEN data ELSE Nil
  BY DEF Ends
<1>2. /\ ip # Nil => ip # sb
      /\ data # Nil => data # sb
      /\ ip # Nil /\ data # Nil => ip # data
  BY DEF LeakInv, PointersInv
<1>3. heap' = {sb', ip', data'} \ {Nil}
  BY <1>1, <1>2 DEF LeakInv
<1> QED
  BY <1>1, <1>3 DEF LeakInv, PointersInv, HasInode, HasData, inode_alloc_size, inode_size,
                    size

(* A call, and the loop of resolve_path over the components. *)
LEMMA PathSteps ==
  ASSUME LeakInv, ResolvePath \/ \E op, p : Call(op, p)
  PROVE  LeakInv'
<1> USE DEF LeakInv, PointersInv, HasInode, HasData
<1>1. CASE \E op, p : Call(op, p)
  BY <1>1 DEF Call, local, inode_alloc_size, inode_size, size
<1>2. CASE ResolvePath
  <2>1. ip = Nil /\ data = Nil /\ sb # Nil /\ pc = "resolve"
    BY <1>2 DEF ResolvePath
  <2>2. CASE Ends(TRUE, {}) /\ call.op = "exists" /\ UNCHANGED call
    BY <1>2, <2>1, <2>2, EndsKeepsLeakInv DEF ResolvePath
  <2>3. CASE pc' \in {"resolve", "read_inode"} /\ UNCHANGED <<heap, ip, data>>
    BY <1>2, <2>1, <2>3 DEF ResolvePath, inode_alloc_size, inode_size
  <2> QED
    BY <1>2, <2>2, <2>3 DEF ResolvePath
<1> QED
  BY <1>1, <1>2

(* read_inode, and read_inode_data up to its kmalloc: the inode's block and *)
(* the data's block are new ones, and each failure frees what there is.     *)
LEMMA InodeSteps ==
  ASSUME LeakInv, ReadBgd \/ ReadInode \/ AllocData
  PROVE  LeakInv'
<1>0. disk \in Disks /\ Nil \notin Block
  BY Ext3Constants DEF LeakInv, PointersInv, Block
<1> USE DEF LeakInv, PointersInv, HasInode, HasData
<1>1. CASE ReadBgd
  <2>1. ip = Nil /\ data = Nil /\ sb # Nil
    BY <1>1 DEF ReadBgd
  <2>2. CASE Fails({}, call.ino # 0)
    BY <2>1, <2>2, EndsKeepsLeakInv DEF Fails
  <2>3. CASE pc' = "panic" /\ UNCHANGED <<disk, heap, sb, ip, inode, data>>
    BY <2>1, <2>3
  <2>4. CASE pc' = "inode" /\ ~Fails({}, call.ino # 0)
    <3>1. PICK b \in Kmalloc(inode_alloc_size) : ip' = b /\ heap' = heap \cup {b}
      BY <1>1, <2>4 DEF ReadBgd
    <3>2. b \in Block /\ b.size = inode_alloc_size /\ b # Nil /\ b.id # sb.id
      BY <1>0, <2>1, <3>1, KmallocFresh, Sizes
    <3>3. pc' = "inode" /\ UNCHANGED <<disk, sb, call, data>>
      BY <1>1, <2>4 DEF ReadBgd
    <3>4. inode_alloc_size' = inode_alloc_size
      BY <3>3 DEF inode_alloc_size, inode_size
    <3> QED
      BY <2>1, <3>1, <3>2, <3>3, <3>4
  <2> QED
    BY <1>1, <2>2, <2>3, <2>4 DEF ReadBgd, local
<1>2. CASE ReadInode
  <2>1. ip # Nil /\ data = Nil /\ sb # Nil
    BY <1>2 DEF ReadInode
  <2>2. CASE Fails(FreeInode, TRUE)
    BY <2>1, <2>2, FreedBlocks, EndsKeepsLeakInv DEF Fails
  <2>3. CASE ~Fails(FreeInode, TRUE)
    <3>1. /\ pc' = "use_inode" /\ UNCHANGED <<disk, heap, sb, ip, data>>
          /\ inode' = InodeAt(table * block_size + index(call.ino) * inode_size)
      BY <1>2, <2>3 DEF ReadInode
    <3>2. size(inode') \in Nat
      BY <1>0, <3>1, Sizes
    <3>3. inode_alloc_size' = inode_alloc_size /\ size(inode)' = size(inode')
      BY <3>1 DEF inode_alloc_size, inode_size, size
    <3> QED
      BY <2>1, <3>1, <3>2, <3>3
  <2> QED
    BY <2>2, <2>3
<1>3. CASE AllocData
  <2>1. ip # Nil /\ data = Nil /\ sb # Nil /\ size(inode) \in Nat
    BY <1>3 DEF AllocData
  <2>2. ASSUME NEW f, Fails(FreeInode, f) PROVE LeakInv'
    BY <2>1, <2>2, FreedBlocks, EndsKeepsLeakInv DEF Fails
  <2>3. CASE \E b \in Kmalloc(size(inode)) : data' = b /\ heap' = heap \cup {b}
    <3>1. PICK b \in Kmalloc(size(inode)) : data' = b /\ heap' = heap \cup {b}
      BY <2>3
    <3>2. b \in Block /\ b.size = size(inode) /\ b # Nil /\ b.id # sb.id /\ b.id # ip.id
      BY <2>1, <3>1, KmallocFresh
    <3>3. CASE pc' \in {"block", "panic"} /\ UNCHANGED <<disk, sb, ip, inode>>
      <4>1. inode_alloc_size' = inode_alloc_size /\ size(inode)' = size(inode)
        BY <3>3 DEF inode_alloc_size, inode_size, size
      <4> QED
        BY <2>1, <3>1, <3>2, <3>3, <4>1
    <3> QED
      BY <1>3, <2>2, <3>3 DEF AllocData
  <2> QED
    BY <1>3, <2>2, <2>3 DEF AllocData
<1> QED
  BY <1>1, <1>2, <1>3

(* The block loop, and the steps of resolve_block. *)
LEMMA BlockSteps ==
  ASSUME LeakInv, NextBlock \/ ReadBlockPtr \/ CopyBlock
  PROVE  LeakInv'
<1>1. ip # Nil /\ data # Nil /\ sb # Nil /\ pc \in {"block", "walk"}
  BY DEF NextBlock, ReadBlockPtr, CopyBlock, LeakInv, PointersInv, HasInode, HasData
<1>2. CASE UNCHANGED <<disk, heap, sb, call, ip, inode, data>> /\ pc' \in {"block", "walk", "panic"}
  BY <1>1, <1>2 DEF LeakInv, PointersInv, HasInode, HasData, inode_alloc_size, inode_size,
                    size
<1>3. CASE NextBlock
  <2>1. CASE Wanted = "file" /\ Ends(TRUE, FreeInode)
    <3>1. call.op = "read_file"
      BY <2>1 DEF Wanted
    <3> QED
      BY <1>1, <1>3, <2>1, <3>1, FreedBlocks, EndsKeepsLeakInv DEF NextBlock
  <2>2. CASE pc' = "scan" /\ Wanted = "dir" /\ UNCHANGED <<heap, ip, data>>
    BY <1>1, <1>3, <2>2
       DEF NextBlock, LeakInv, PointersInv, HasInode, HasData, inode_alloc_size, inode_size,
           size, Wanted
  <2> QED
    BY <1>2, <1>3, <2>1, <2>2 DEF NextBlock
<1>4. CASE ReadBlockPtr
  BY <1>1, <1>2, <1>4 DEF ReadBlockPtr
<1>5. CASE CopyBlock
  <2>1. CASE Fails(FreedOnBadBlock, TRUE)
    <3>1. FreedOnBadBlock = {ip, data}
      BY <1>1, FreedBlocks DEF FreedOnBadBlock
    <3> QED
      BY <1>1, <2>1, <3>1, EndsKeepsLeakInv DEF Fails
  <2> QED
    BY <1>2, <1>5, <2>1 DEF CopyBlock
<1> QED
  BY <1>3, <1>4, <1>5

(* The directory scans free the data and the inode when they end. *)
LEMMA ScanSteps ==
  ASSUME LeakInv, FindInDirData \/ ForEachEntry
  PROVE  LeakInv'
<1>1. /\ ip # Nil /\ data # Nil /\ sb # Nil /\ pc = "scan" /\ Wanted = "dir"
      /\ ip # data /\ sb # ip /\ sb # data
  BY DEF FindInDirData, ForEachEntry, LeakInv, PointersInv, HasInode, HasData
<1>2. FreeInode \cup FreeData = {ip, data}
  BY <1>1, FreedBlocks
<1>3. CASE UNCHANGED <<disk, heap, sb, pc, call, ip, inode, data>>
  BY <1>1, <1>3 DEF LeakInv, PointersInv, HasInode, HasData, inode_alloc_size, inode_size,
                    size, Wanted
<1>4. CASE FindInDirData
  <2>1. CASE Fails(FreeInode \cup FreeData, FALSE)
    BY <1>1, <1>2, <2>1, EndsKeepsLeakInv DEF Fails
  <2>2. CASE More /\ Matches /\ ~Fails(FreeInode \cup FreeData, FALSE)
    <3>1. /\ heap' = heap \ {ip, data} /\ ip' = Nil /\ data' = Nil
          /\ pc' = "resolve" /\ UNCHANGED <<disk, sb, inode>>
      BY <1>2, <1>4, <2>2 DEF FindInDirData
    <3> QED
      BY <1>1, <3>1 DEF LeakInv, PointersInv, HasInode, HasData
  <2> QED
    BY <1>3, <1>4, <2>1, <2>2 DEF FindInDirData
<1>5. CASE ForEachEntry
  <2>1. CASE Ends(TRUE, FreeInode \cup FreeData)
    <3>1. call.op # "read_file"
      BY <1>1, <1>5 DEF ForEachEntry, Wanted
    <3> QED
      BY <1>1, <1>2, <1>5, <2>1, <3>1, EndsKeepsLeakInv DEF ForEachEntry
  <2> QED
    BY <1>3, <1>5, <2>1 DEF ForEachEntry
<1> QED
  BY <1>4, <1>5

(* The caller of read_file frees the data it got. *)
LEMMA ReturnStep ==
  ASSUME LeakInv, Return
  PROVE  LeakInv'
<1>1. pc = "done" /\ ip = Nil /\ sb # Nil /\ (data # Nil => data # sb)
  BY DEF Return, LeakInv, PointersInv, HasInode
<1>2. heap' = heap \ ({data} \ {Nil})
  BY FreedBlocks DEF Return
<1> QED
  BY <1>1, <1>2 DEF Return, LeakInv, PointersInv, HasInode, HasData

(* Every step of the driver keeps LeakInv. *)
LEMMA LeakStep == LeakInv /\ [Next]_vars => LeakInv'
<1> SUFFICES ASSUME LeakInv, [Next]_vars PROVE LeakInv'
  OBVIOUS
<1>1. CASE UNCHANGED vars
  BY <1>1 DEF vars, local, LeakInv, PointersInv, inode_alloc_size, inode_size, size, Wanted
<1> QED
  BY <1>1, MountSteps, PathSteps, InodeSteps, BlockSteps, ScanSteps, ReturnStep
     DEF Next, Step

(* No call is in progress when the machine starts. *)
LEMMA LeakInit == Init => LeakInv
BY DEF Init, LeakInv, PointersInv, HasInode, HasData

(* The pointers account for the whole heap, by label. *)
LEMMA LeakInvMeans == LeakInv => NothingLeaks
BY DEF LeakInv, PointersInv, NothingLeaks, HasInode, HasData

(* The boot thread uses the driver only through its own steps. *)
LEMMA DriverStep == [BootNext]_bootVars => [Next]_vars
BY DEF BootNext, bootVars, UseDisk, LoadModules, Over

(* The ext3 driver alone: on every path through mount, read_file, exists,   *)
(* list_dir and drop, with every failure and for every disk, the blocks     *)
(* that are allocated are exactly those it has pointers to.                 *)
THEOREM NoLeaks == Spec => []NothingLeaks
BY LeakInit, LeakStep, LeakInvMeans, PTL DEF Spec

(* The same while the boot thread uses the driver and then loads modules. *)
THEOREM BootNoLeaks == BootSpec => []NothingLeaks
BY DriverStep, LeakInit, LeakStep, LeakInvMeans, PTL DEF BootSpec, BootInit

-----------------------------------------------------------------------------
(* Rounding a size up to blocks: block p of the file starts inside it, and  *)
(* a whole number of blocks is not rounded.                                 *)
LEMMA BlockArithmetic ==
  ASSUME NEW s \in Nat, NEW b \in Nat \ {0}
  PROVE  /\ (s + b - 1) \div b \in Nat
         /\ \A p \in Nat : p < (s + b - 1) \div b => p * b < s
         /\ s % b = 0 => ((s + b - 1) \div b) * b = s
<1>1. s + b - 1 \in Nat
  OBVIOUS
<1>2. (s + b - 1) \div b \in Nat
  BY <1>1
<1>3. ASSUME NEW p \in Nat, p < (s + b - 1) \div b PROVE p * b < s
  BY <1>3
<1>4. ASSUME s % b = 0 PROVE ((s + b - 1) \div b) * b = s
  <2> DEFINE q == s \div b
  <2>1. q \in Nat /\ b * q = s
    BY <1>4
  <2> HIDE DEF q
  <2>2. s + b - 1 = b * q + (b - 1)
    BY <2>1
  <2>3. (b * q + (b - 1)) \div b = q
    BY <2>1
  <2> QED
    BY <2>1, <2>2, <2>3
<1> QED
  BY <1>2, <1>3, <1>4

(* How many blocks may have been written to the buffer. *)
Reached == IF pc \in {"block", "walk"} THEN pos ELSE blocks_needed

(* The buffer has been written within the file or within the blocks reached *)
(* so far, and a directory fills its last block.                            *)
BufferInv ==
    /\ pc \in {"block", "walk"} => pos \in Nat /\ pos <= blocks_needed
    /\ pc = "walk" => pos < blocks_needed
    /\ pc = "use_inode" /\ inode.i_mode = "dir" /\ block_size # 0 =>
          size(inode) % block_size = 0
    /\ data # Nil /\ pc = "panic" => \A i \in DOMAIN buf : i \in Nat /\ i < size(inode)
    /\ data # Nil /\ pc # "panic" =>
          /\ size(inode) \in Nat /\ block_size # 0
          /\ Wanted = "dir" => size(inode) = blocks_needed * block_size
          /\ \A i \in DOMAIN buf :
                i \in Nat /\ (i < size(inode) \/ i < Reached * block_size)

(* Without data, and outside the labels that BufferInv speaks of, there is  *)
(* nothing to show.                                                         *)
LEMMA BufferIdle ==
  ASSUME data' = Nil, pc' \notin {"use_inode", "block", "walk"}
  PROVE  BufferInv'
BY DEF BufferInv

(* The accessors of the superblock and the inode only change with them. *)
LEMMA AccessorsFrame ==
  ASSUME UNCHANGED <<disk, inode>>
  PROVE  /\ block_size' = block_size
         /\ size(inode)' = size(inode)
         /\ blocks_needed' = blocks_needed
BY DEF block_size, size, blocks_needed

(* The inode just read is that of the disk. *)
LEMMA BufferReadInode ==
  ASSUME LeakInv, BufferInv, ReadInode
  PROVE  BufferInv'
<1>1. data = Nil /\ disk \in Disks
  BY DEF ReadInode, LeakInv, PointersInv, HasData
<1>2. CASE Fails(FreeInode, TRUE)
  BY <1>2, BufferIdle DEF Fails, Ends
<1>3. CASE ~Fails(FreeInode, TRUE)
  <2> DEFINE o == table * block_size + index(call.ino) * inode_size
  <2>1. inode' = InodeAt(o) /\ pc' = "use_inode" /\ data' = Nil /\ disk' = disk
    BY <1>1, <1>3 DEF ReadInode
  <2> HIDE DEF o
  <2>2. DiskType(disk)
    BY <1>1, Ext3Constants
  <2>3. block_size' = block_size /\ size(inode)' = size(InodeAt(o))
    BY <2>1 DEF block_size, size
  <2>4. ASSUME InodeAt(o).i_mode = "dir", block_size # 0 PROVE size(InodeAt(o)) % block_size = 0
    <3>1. o \in DOMAIN disk.inode /\ InodeAt(o) = disk.inode[o]
      BY <2>4 DEF InodeAt
    <3>2. size(InodeAt(o)) = InodeAt(o).i_size
      BY <2>2, <2>4, <3>1 DEF size, DiskType
    <3> QED
      BY <2>2, <2>4, <3>1, <3>2 DEF DiskType, block_size
  <2> QED
    BY <2>1, <2>3, <2>4 DEF BufferInv
<1> QED
  BY <1>2, <1>3

(* The buffer starts with the size of the inode. *)
LEMMA BufferAlloc ==
  ASSUME LeakInv, BufferInv, AllocData
  PROVE  BufferInv'
<1>1. data = Nil /\ disk \in Disks /\ size(inode) \in Nat /\ pc = "use_inode"
  BY DEF AllocData, LeakInv, PointersInv, HasData
<1>2. ASSUME NEW f, Fails(FreeInode, f) PROVE BufferInv'
  BY <1>2, BufferIdle DEF Fails, Ends
<1>3. CASE /\ inode.i_mode = Wanted
           /\ buf' = [i \in 0 .. size(inode) - 1 |-> Junk]
           /\ pos' = 0 /\ pc' = "block" /\ block_size # 0
           /\ UNCHANGED <<disk, call, inode>>
  <2>1. block_size \in Nat \ {0}
    BY <1>1, <1>3, Ext3Constants DEF DiskType, block_size
  <2>2. /\ blocks_needed \in Nat
        /\ size(inode) % block_size = 0 => blocks_needed * block_size = size(inode)
    BY <1>1, <2>1, BlockArithmetic DEF blocks_needed
  <2>3. Wanted' = Wanted
    BY <1>3 DEF Wanted
  <2>4. block_size' = block_size /\ size(inode)' = size(inode) /\ blocks_needed' = blocks_needed
    BY <1>3, AccessorsFrame
  <2>5. \A i \in DOMAIN buf' : i \in Nat /\ i < size(inode)
    BY <1>1, <1>3
  <2> QED
    BY <1>1, <1>3, <2>1, <2>2, <2>3, <2>4, <2>5 DEF BufferInv
<1>4. CASE /\ buf' = [i \in 0 .. size(inode) - 1 |-> Junk]
           /\ pc' = "panic" /\ UNCHANGED <<disk, inode>>
  <2>1. size(inode)' = size(inode)
    BY <1>4, AccessorsFrame
  <2> QED
    BY <1>1, <1>4, <2>1 DEF BufferInv
<1> QED
  BY <1>2, <1>3, <1>4 DEF AllocData

(* A block that is copied lies within the blocks reached, a hole within the *)
(* file.                                                                    *)
LEMMA BufferCopy ==
  ASSUME LeakInv, BufferInv, CopyBlock
  PROVE  BufferInv'
<1>1. disk \in Disks /\ data # Nil /\ pc = "walk"
  BY DEF CopyBlock, LeakInv, PointersInv, HasData
<1>2. CASE Fails(FreedOnBadBlock, TRUE)
  BY <1>2, BufferIdle DEF Fails, Ends
<1>3. CASE ~Fails(FreedOnBadBlock, TRUE)
  <2>1. /\ pos' = pos + 1 /\ pc' = "block"
        /\ UNCHANGED <<disk, call, inode, data>>
    BY <1>3 DEF CopyBlock
  <2>2. block_size \in Nat \ {0} /\ size(inode) \in Nat
    BY <1>1, Ext3Constants DEF DiskType, block_size, BufferInv
  <2>3. pos \in Nat /\ pos < blocks_needed /\ blocks_needed \in Nat
    BY <1>1, <2>2, BlockArithmetic DEF BufferInv, blocks_needed
  <2>4. buf_off \in Nat /\ buf_off < size(inode)
    BY <2>2, <2>3, BlockArithmetic DEF buf_off, blocks_needed
  <2>5. (pos + 1) * block_size = buf_off + block_size
    BY <2>2, <2>3 DEF buf_off
  <2>6. chunk \in Nat /\ buf_off + chunk <= size(inode)
    BY <2>2, <2>4 DEF chunk
  <2>7. DOMAIN buf' = DOMAIN buf \cup (buf_off .. buf_off + (IF walk.ptr = 0 THEN chunk ELSE block_size) - 1)
    BY <1>3 DEF CopyBlock, Written
  <2>8. ASSUME NEW i \in DOMAIN buf'
        PROVE  i \in Nat /\ (i < size(inode) \/ i < (pos + 1) * block_size)
    <3>1. CASE i \in DOMAIN buf
      <4>1. i \in Nat /\ (i < size(inode) \/ i < buf_off)
        BY <1>1, <3>1 DEF BufferInv, Reached, buf_off
      <4> QED
        BY <2>2, <2>4, <2>5, <4>1
    <3>2. CASE i \notin DOMAIN buf
      BY <2>2, <2>4, <2>5, <2>6, <2>7, <2>8, <3>2
    <3> QED
      BY <3>1, <3>2
  <2>9. block_size' = block_size /\ size(inode)' = size(inode) /\ blocks_needed' = blocks_needed
    BY <2>1, AccessorsFrame
  <2>10. Wanted' = Wanted
    BY <2>1 DEF Wanted
  <2>11. Reached' = pos + 1 /\ (Reached * block_size)' = (pos + 1) * block_size
    BY <2>1, <2>9 DEF Reached
  <2>12. pos' \in Nat /\ pos' <= blocks_needed'
    BY <2>1, <2>3, <2>9
  <2>13. Wanted' = "dir" => size(inode)' = (blocks_needed * block_size)'
    <3>1. Wanted = "dir" => size(inode) = blocks_needed * block_size
      BY <1>1 DEF BufferInv
    <3> QED
      BY <2>9, <2>10, <3>1
  <2>14. \A i \in DOMAIN buf' : i \in Nat /\ (i < size(inode)' \/ i < (Reached * block_size)')
    BY <2>8, <2>9, <2>11
  <2> QED
    BY <2>1, <2>2, <2>9, <2>12, <2>13, <2>14 DEF BufferInv
<1> QED
  BY <1>2, <1>3

(* NextBlock and ReadBlockPtr write nothing; the block loop ends when the   *)
(* blocks needed are reached.                                               *)
LEMMA BufferWalk ==
  ASSUME LeakInv, BufferInv, NextBlock \/ ReadBlockPtr
  PROVE  BufferInv'
<1>1. data # Nil /\ pc \in {"block", "walk"}
  BY DEF NextBlock, ReadBlockPtr, LeakInv, PointersInv, HasData
<1>2. UNCHANGED <<disk, call, inode, buf>>
  BY DEF NextBlock, ReadBlockPtr
<1>3. block_size' = block_size /\ size(inode)' = size(inode) /\ blocks_needed' = blocks_needed
  BY <1>2, AccessorsFrame
<1>4. Wanted' = Wanted
  BY <1>2 DEF Wanted
<1>5. CASE NextBlock
  <2>1. CASE pos < blocks_needed /\ pc' = "walk" /\ UNCHANGED pos
    BY <1>1, <1>2, <1>3, <1>4, <2>1 DEF BufferInv, Reached
  <2>2. CASE pos = blocks_needed /\ pc' \in {"scan", "done"}
    BY <1>1, <1>2, <1>3, <1>4, <1>5, <2>2 DEF BufferInv, Reached, NextBlock
  <2>3. CASE pos < blocks_needed /\ pc' = "panic"
    <3>1. /\ block_size \in Nat \ {0} /\ size(inode) \in Nat /\ pos \in Nat
          /\ \A i \in DOMAIN buf : i \in Nat /\ (i < size(inode) \/ i < pos * block_size)
      BY <1>1, <1>5, Ext3Constants
         DEF NextBlock, BufferInv, Reached, LeakInv, PointersInv, DiskType, block_size
    <3>2. pos * block_size < size(inode) /\ pos * block_size \in Nat
      BY <2>3, <3>1, BlockArithmetic DEF blocks_needed
    <3>3. \A i \in DOMAIN buf : i \in Nat /\ i < size(inode)
      BY <3>1, <3>2
    <3> QED
      BY <1>2, <1>3, <2>3, <3>3 DEF BufferInv
  <2> QED
    BY <1>5, <2>1, <2>2, <2>3 DEF NextBlock, Ends
<1>6. CASE ReadBlockPtr
  BY <1>1, <1>2, <1>3, <1>4, <1>6 DEF ReadBlockPtr, BufferInv, Reached
<1> QED
  BY <1>5, <1>6

(* Every step keeps BufferInv: what neither reads the inode nor copies      *)
(* blocks leaves the buffer alone or ends without data.                     *)
LEMMA BufferStep == LeakInv /\ BufferInv /\ [Next]_vars => BufferInv'
<1> SUFFICES ASSUME LeakInv, BufferInv, [Next]_vars PROVE BufferInv'
  OBVIOUS
<1>1. CASE Mount \/ ReadSuperblock \/ Drop \/ \E op, p : Call(op, p)
  <2>1. data = Nil /\ data' = Nil
    BY <1>1 DEF Mount, ReadSuperblock, Drop, Call, local, LeakInv, PointersInv, HasData
  <2>2. pc' \in {"superblock", "idle", "unmounted", "resolve", "panic"}
    BY <1>1 DEF Mount, ReadSuperblock, Drop, Call
  <2> QED
    BY <2>1, <2>2, BufferIdle
<1>2. CASE ResolvePath \/ ReadBgd
  <2>1. data = Nil
    BY <1>2 DEF ResolvePath, ReadBgd, LeakInv, PointersInv, HasData
  <2>2. data' = Nil
    BY <1>2, <2>1 DEF ResolvePath, ReadBgd, Fails, Ends, local
  <2>3. pc' \in {"resolve", "read_inode", "done", "inode", "panic"}
    BY <1>2 DEF ResolvePath, ReadBgd, Fails, Ends
  <2> QED
    BY <2>2, <2>3, BufferIdle
<1>3. CASE FindInDirData \/ ForEachEntry
  <2>1. CASE pc' = pc /\ UNCHANGED <<disk, call, inode, data, buf>>
    <3>1. block_size' = block_size /\ size(inode)' = size(inode) /\ blocks_needed' = blocks_needed
      BY <2>1, AccessorsFrame
    <3>2. Wanted' = Wanted /\ Reached = blocks_needed /\ Reached' = blocks_needed
      BY <1>3, <2>1, <3>1 DEF Wanted, Reached, FindInDirData, ForEachEntry
    <3> QED
      BY <1>3, <2>1, <3>1, <3>2 DEF BufferInv, FindInDirData, ForEachEntry
  <2>2. CASE pc' \in {"resolve", "done"}
    <3>1. pc = "scan" /\ Wanted = "dir"
      BY <1>3 DEF FindInDirData, ForEachEntry, LeakInv, PointersInv
    <3>2. data' = Nil
      BY <1>3, <2>2, <3>1 DEF FindInDirData, ForEachEntry, Fails, Ends, Wanted
    <3> QED
      BY <2>2, <3>2, BufferIdle
  <2> QED
    BY <1>3, <2>1, <2>2 DEF FindInDirData, ForEachEntry, Fails, Ends
<1>4. CASE Return
  BY <1>4, BufferIdle DEF Return
<1>5. CASE UNCHANGED vars
  <2>1. block_size' = block_size /\ size(inode)' = size(inode) /\ blocks_needed' = blocks_needed
    BY <1>5, AccessorsFrame DEF vars, local
  <2> QED
    BY <1>5, <2>1 DEF vars, local, BufferInv, Wanted, Reached
<1> QED
  BY <1>1, <1>2, <1>3, <1>4, <1>5, BufferReadInode, BufferAlloc, BufferCopy, BufferWalk
     DEF Next, Step

(* read_inode_data never writes past the last block of a file, and not past *)
(* the end of a directory, for every disk whose directories are whole       *)
(* blocks.                                                                  *)
THEOREM OverrunIsBounded == BootSpec => []OverrunBounded
<1>1. Init => BufferInv
  BY DEF Init, BufferInv
<1>2. LeakInv /\ BufferInv => OverrunBounded
  <2> SUFFICES ASSUME LeakInv, BufferInv, data # Nil, NEW i \in DOMAIN buf
               PROVE  i < data.size \/ (Wanted = "file" /\ i < blocks_needed * block_size)
    BY DEF OverrunBounded
  <2>1. data.size = size(inode) /\ Wanted \in {"file", "dir"} /\ disk \in Disks
    BY DEF LeakInv, PointersInv, Wanted
  <2>a. CASE pc = "panic"
    BY <2>1, <2>a DEF BufferInv
  <2> SUFFICES ASSUME pc # "panic" PROVE  i < data.size \/ (Wanted = "file" /\ i < blocks_needed * block_size)
    BY <2>a
  <2>2. block_size \in Nat \ {0} /\ size(inode) \in Nat
    BY <2>1, Ext3Constants DEF DiskType, block_size, BufferInv
  <2>3. blocks_needed \in Nat
    BY <2>2, BlockArithmetic DEF blocks_needed
  <2>4. Reached \in Nat /\ Reached <= blocks_needed
    BY <2>3 DEF Reached, BufferInv
  <2>5. Reached * block_size <= blocks_needed * block_size
    BY <2>2, <2>3, <2>4
  <2>6. Reached * block_size \in Nat /\ blocks_needed * block_size \in Nat
    BY <2>2, <2>3, <2>4
  <2> QED
    BY <2>1, <2>2, <2>5, <2>6 DEF BufferInv
<1> QED
  BY <1>1, <1>2, LeakInit, LeakStep, BufferStep, DriverStep, PTL DEF BootSpec, BootInit

-----------------------------------------------------------------------------
(* The format of the disk: what the reference definitions say of each       *)
(* block, word, entry and path.                                             *)

(* A sequence of entries as DirEntries yields them. *)
EntrySeq(es) ==
    /\ Len(es) \in Nat
    /\ \A k \in 1 .. Len(es) : es[k].inode \in Nat

(* What ListedTo computes. *)
LEMMA ListedFacts ==
  ASSUME NEW es, EntrySeq(es)
  PROVE  /\ ListedTo(es) \in [0 .. Len(es) -> Seq(Nat)]
         /\ ListedTo(es)[0] = <<>>
         /\ \A k \in 1 .. Len(es) :
               ListedTo(es)[k] = IF InUse(es[k]) THEN Append(ListedTo(es)[k - 1], es[k].inode)
                                 ELSE ListedTo(es)[k - 1]
<1>1. PICK n \in Nat : n = Len(es)
  BY DEF EntrySeq
<1>2. PICK T : T = Seq(Nat)
  OBVIOUS
<1> DEFINE Add(s, k) == IF InUse(es[k]) THEN Append(s, es[k].inode) ELSE s
<1>3. \A s \in T, k \in 1 .. n : Add(s, k) \in T
  <2> SUFFICES ASSUME NEW s \in T, NEW k \in 1 .. n PROVE Append(s, es[k].inode) \in T
    OBVIOUS
  <2>1. es[k].inode \in Nat
    BY <1>1 DEF EntrySeq
  <2> QED
    BY <1>2, <2>1
<1>4. PICK a : a = <<>> /\ a \in T
  <2>1. <<>> \in T
    BY <1>2
  <2> QED
    BY <2>1
<1> HIDE DEF Add
<1>5. PICK g : g \in [T \X (1 .. n) -> T] /\ \A s \in T, k \in 1 .. n : g[<<s, k>>] = Add(s, k)
  <2> DEFINE g == [x \in T \X (1 .. n) |-> Add(x[1], x[2])]
  <2>1. g \in [T \X (1 .. n) -> T] /\ \A s \in T, k \in 1 .. n : g[<<s, k>>] = Add(s, k)
    BY <1>3
  <2> QED
    BY <2>1
<1>6. PICK f : f \in [0 .. n -> T] /\ Runs(f, n, a, g)
  BY <1>4, <1>5, Recursion
<1>7. ASSUME NEW k \in 1 .. n PROVE f[k] = Add(f[k - 1], k)
  <2>1. f[k - 1] \in T
    BY <1>6
  <2> QED
    BY <1>5, <1>6, <2>1 DEF Runs
<1> DEFINE F(h) == [k \in 0 .. n |-> IF k = 0 THEN a ELSE Add(h[k - 1], k)]
<1>8. f = F(f)
  BY <1>6, <1>7 DEF Runs
<1>9. ListedTo(es) = CHOOSE h : h = F(h)
  BY <1>1, <1>4 DEF ListedTo, Add
<1> HIDE DEF F
<1>10. ListedTo(es) = F(ListedTo(es))
  BY <1>8, <1>9
<1>11. PICK to : to = ListedTo(es)
  OBVIOUS
<1>12. to = F(to)
  BY <1>10, <1>11
<1>13. /\ to[0] = a /\ to = [k \in 0 .. n |-> to[k]]
       /\ \A k \in 1 .. n : to[k] = Add(to[k - 1], k)
  BY <1>12 DEF F
<1> DEFINE S == {k \in Nat : k <= n => to[k] \in T}
<1>14. 0 \in S
  BY <1>4, <1>13
<1>15. ASSUME NEW k \in Nat, k \in S PROVE k + 1 \in S
  <2> SUFFICES ASSUME k + 1 <= n PROVE to[k + 1] \in T
    OBVIOUS
  <2>1. to[k] \in T /\ k + 1 \in 1 .. n /\ (k + 1) - 1 = k
    BY <1>15
  <2> QED
    BY <1>3, <1>13, <2>1
<1> HIDE DEF S
<1>16. Nat \subseteq S
  BY <1>14, <1>15, Induct
<1>17. \A k \in 0 .. n : to[k] \in T
  BY <1>16 DEF S
<1> QED
  BY <1>2, <1>1, <1>4, <1>11, <1>13, <1>17 DEF Add

(* Places without an entry in use add nothing. *)
LEMMA ListedGap ==
  ASSUME NEW es, EntrySeq(es), NEW j \in 0 .. Len(es), NEW k \in 0 .. Len(es), j <= k,
         \A i \in j + 1 .. k : ~InUse(es[i])
  PROVE  ListedTo(es)[k] = ListedTo(es)[j]
<1>1. PICK n \in Nat : n = Len(es)
  BY DEF EntrySeq
<1>2. PICK to : to = ListedTo(es)
  OBVIOUS
<1> DEFINE S == {m \in Nat : j + m <= k => to[j + m] = to[j]}
<1>3. 0 \in S
  OBVIOUS
<1>4. ASSUME NEW m \in Nat, m \in S PROVE m + 1 \in S
  <2> SUFFICES ASSUME j + (m + 1) <= k PROVE to[j + (m + 1)] = to[j]
    OBVIOUS
  <2>1. to[j + m] = to[j]
    BY <1>1, <1>4
  <2>2. PICK i \in 1 .. n : i = j + (m + 1)
    BY <1>1
  <2>3. ~InUse(es[i]) /\ i - 1 = j + m
    BY <1>1, <2>2
  <2>4. to[i] = to[i - 1]
    BY <1>1, <1>2, <2>2, <2>3, ListedFacts
  <2> QED
    BY <2>1, <2>2, <2>3, <2>4
<1> HIDE DEF S
<1>5. Nat \subseteq S
  BY <1>3, <1>4, Induct
<1>6. k - j \in S /\ j + (k - j) = k
  BY <1>1, <1>5
<1> QED
  BY <1>1, <1>2, <1>6 DEF S

(* What is listed up to a place comes first in what is listed in all. *)
LEMMA ListedPrefix ==
  ASSUME NEW es, EntrySeq(es), NEW j \in 0 .. Len(es)
  PROVE  IsPrefix(ListedTo(es)[j], ListedTo(es)[Len(es)])
<1>1. PICK n \in Nat : n = Len(es)
  BY DEF EntrySeq
<1>2. PICK to : to = ListedTo(es)
  OBVIOUS
<1>3. PICK s : s = to[j]
  OBVIOUS
<1>4. s \in Seq(Nat)
  BY <1>1, <1>2, <1>3, ListedFacts
<1> DEFINE Starts1(t) == t \in Seq(Nat) /\ Len(s) <= Len(t) /\ \A i \in 1 .. Len(s) : t[i] = s[i]
           S == {m \in Nat : j + m <= n => Starts1(to[j + m])}
<1>5. 0 \in S
  BY <1>1, <1>3, <1>4
<1>6. ASSUME NEW m \in Nat, m \in S PROVE m + 1 \in S
  <2> SUFFICES ASSUME j + (m + 1) <= n PROVE Starts1(to[j + (m + 1)])
    OBVIOUS
  <2>1. Starts1(to[j + m])
    BY <1>1, <1>6
  <2>2. PICK k \in 1 .. n : k = j + (m + 1)
    BY <1>1
  <2>3. PICK t : t = to[k - 1]
    OBVIOUS
  <2>4. Starts1(t)
    BY <1>1, <2>1, <2>2, <2>3
  <2>5. PICK x \in Nat : x = es[k].inode
    BY <1>1 DEF EntrySeq
  <2>6. to[k] \in {t, Append(t, x)}
    BY <1>1, <1>2, <2>3, <2>5, ListedFacts
  <2>7. Starts1(Append(t, x))
    BY <1>4, <2>4
  <2> QED
    BY <2>2, <2>4, <2>6, <2>7
<1> HIDE DEF S
<1>7. Nat \subseteq S
  BY <1>5, <1>6, Induct
<1>8. n - j \in S /\ j + (n - j) = n
  BY <1>1, <1>7
<1>9. Starts1(to[n])
  BY <1>1, <1>8 DEF S
<1>10. PICK t \in Seq(Nat) : t = to[n]
  BY <1>9
<1>11. SubSeq(s, 1, Len(s)) = SubSeq(t, 1, Len(s))
  BY <1>4, <1>9, <1>10
<1> QED
  BY <1>1, <1>2, <1>3, <1>4, <1>9, <1>10, <1>11 DEF IsPrefix

(* What the inodes of a file system are. *)
LEMMA InodeTyped ==
  ASSUME NEW d \in Disks, IsExt3(d), NEW n \in DOMAIN d.by_number
  PROVE  /\ size(d.by_number[n]) \in Nat
         /\ d.by_number[n].i_block \in [0 .. NDIRECT + 2 -> Nat]
         /\ d.by_number[n].i_mode = "dir" => size(d.by_number[n]) % BlockSize(d) = 0
         /\ n \in Nat \ {0}
         /\ BlockSize(d) \in Nat \ {0}
<1>1. DiskType(d) /\ U32 \in Nat
  BY Ext3Constants
<1>2. n \in Nat \ {0} /\ \E o \in DOMAIN d.inode : d.by_number[n] = d.inode[o]
  BY DEF IsExt3, InodesPlaced
<1>3. PICK o \in DOMAIN d.inode : d.by_number[n] = d.inode[o]
  BY <1>2
<1>4. PICK i : i = d.inode[o]
  OBVIOUS
<1>5. /\ i.i_size \in Nat /\ i.i_size_high \in Nat /\ i.i_block \in [0 .. NDIRECT + 2 -> Nat]
      /\ i.i_mode = "dir" => i.i_size % BlockSize(d) = 0
      /\ BlockSize(d) \in Nat \ {0}
  <2>1. BlockSize(d) \in Nat /\ PTR \in Nat \ {0} /\ PTR <= BlockSize(d)
    BY <1>1, Ext3Constants DEF DiskType, IsExt3
  <2>2. BlockSize(d) # 0
    BY <2>1
  <2> QED
    BY <1>1, <1>4, <2>1, <2>2 DEF DiskType
<1>6. i.i_size_high * U32 \in Nat
  BY <1>1, <1>5
<1>7. size(i) \in Nat /\ (i.i_mode = "dir" => size(i) = i.i_size)
  BY <1>5, <1>6 DEF size
<1> QED
  BY <1>2, <1>3, <1>4, <1>5, <1>7

(* A directory has as many places as words. *)
LEMMA EntriesTyped ==
  ASSUME NEW d \in Disks, NEW i, size(i) \in Nat
  PROVE  /\ EntrySeq(DirEntries(d, i))
         /\ Len(DirEntries(d, i)) = size(i)
         /\ \A k \in 1 .. size(i) : DirEntries(d, i)[k] = EntryAt(d, Content(d, i)[k])
         /\ \A o : EntryAt(d, o).inode \in Nat /\ EntryAt(d, o).rec_len \in Nat
<1>1. DiskType(d)
  BY Ext3Constants
<1>2. ASSUME NEW o PROVE EntryAt(d, o).inode \in Nat /\ EntryAt(d, o).rec_len \in Nat
  BY <1>1 DEF DiskType, EntryAt
<1>3. PICK c : c = Content(d, i)
  OBVIOUS
<1>4. PICK n \in Nat : n = size(i)
  OBVIOUS
<1> DEFINE E(o) == EntryAt(d, o)
<1> HIDE DEF E
<1>5. DirEntries(d, i) = [k \in 1 .. n |-> E(c[k])]
  BY <1>3, <1>4 DEF DirEntries, E
<1>6. PICK es : es = DirEntries(d, i)
  OBVIOUS
<1>7. Len(es) = n /\ \A k \in 1 .. n : es[k] = E(c[k])
  BY <1>5, <1>6
<1>8. \A o : E(o).inode \in Nat
  BY <1>2 DEF E
<1>9. EntrySeq(es)
  BY <1>7, <1>8 DEF EntrySeq
<1> QED
  BY <1>2, <1>3, <1>4, <1>6, <1>7, <1>9 DEF E

(* The lookup of a name yields the entry in use that has it, or 0. *)
LEMMA LookupFacts ==
  ASSUME NEW d \in Disks, IsExt3(d), NEW n \in DOMAIN d.by_number, NEW name,
         NEW i, i = d.by_number[n], NEW es, es = DirEntries(d, i)
  PROVE  /\ LookupIn(d, i, name) \in DOMAIN d.by_number \cup {0}
         /\ i.i_mode # "dir" => LookupIn(d, i, name) = 0
         /\ (\A k \in 1 .. size(i) : InUse(es[k]) => es[k].name # name) => LookupIn(d, i, name) = 0
         /\ \A k \in 1 .. size(i) :
               i.i_mode = "dir" /\ InUse(es[k]) /\ es[k].name = name
                  => LookupIn(d, i, name) = es[k].inode
<1>1. size(i) \in Nat
  BY InodeTyped
<1>2. Len(es) = size(i)
  BY <1>1, EntriesTyped
<1>3. PICK hits : hits = {k \in 1 .. size(i) : InUse(es[k]) /\ es[k].name = name}
  OBVIOUS
<1>4. LookupIn(d, i, name) =
         IF i.i_mode # "dir" \/ hits = {} THEN 0 ELSE es[CHOOSE k \in hits : TRUE].inode
  BY <1>2, <1>3 DEF LookupIn
<1>5. i.i_mode = "dir" => EntriesChained(d, es)
  BY DEF IsExt3
<1>6. ASSUME i.i_mode = "dir", NEW k \in hits
      PROVE  LookupIn(d, i, name) = es[k].inode /\ es[k].inode \in DOMAIN d.by_number
  <2>1. PICK c \in hits : c = CHOOSE j \in hits : TRUE
    BY <1>6
  <2>2. EntriesChained(d, es)
    BY <1>5, <1>6
  <2>3. c = k
    <3>1. /\ c \in 1 .. Len(es) /\ k \in 1 .. Len(es)
          /\ InUse(es[c]) /\ InUse(es[k]) /\ es[c].name = es[k].name
      BY <1>2, <1>3, <1>6, <2>1
    <3>2. es[c].live /\ es[k].live
      BY <3>1 DEF InUse
    <3> QED
      BY <2>2, <3>1, <3>2 DEF EntriesChained
  <2>4. es[k].inode \in DOMAIN d.by_number
    BY <1>2, <1>3, <1>6, <2>2 DEF EntriesChained, InUse
  <2> QED
    BY <1>4, <1>6, <2>1, <2>3, <2>4
<1> QED
  BY <1>3, <1>4, <1>6

(* What Visited computes. *)
LEMMA VisitedFacts ==
  ASSUME NEW d \in Disks, IsExt3(d), NEW path \in Seq(STRING)
  PROVE  /\ \A k \in 0 .. Len(path) : Visited(d, path)[k] \in DOMAIN d.by_number \cup {0}
         /\ Visited(d, path)[0] = ROOT_INO
         /\ \A k \in 1 .. Len(path) :
               Visited(d, path)[k] =
                  IF path[k] \in {"", "."} \/ Visited(d, path)[k - 1] = 0
                  THEN Visited(d, path)[k - 1]
                  ELSE LookupIn(d, d.by_number[Visited(d, path)[k - 1]], path[k])
<1>1. PICK n \in Nat : n = Len(path)
  OBVIOUS
<1>2. PICK T : T = DOMAIN d.by_number \cup {0}
  OBVIOUS
<1>3. PICK a : a \in T /\ a = ROOT_INO
  BY <1>2 DEF IsExt3
<1> DEFINE Go(x, k) == IF path[k] \in {"", "."} \/ x = 0 THEN x
                       ELSE LookupIn(d, d.by_number[x], path[k])
<1>4. \A x \in T, k \in 1 .. n : Go(x, k) \in T
  <2> SUFFICES ASSUME NEW x \in T, NEW k \in 1 .. n, x # 0
               PROVE  LookupIn(d, d.by_number[x], path[k]) \in T
    OBVIOUS
  <2>1. x \in DOMAIN d.by_number
    BY <1>2
  <2> QED
    BY <1>2, <2>1, LookupFacts
<1>5. Visited(d, path) = CHOOSE h : h = [k \in 0 .. n |-> IF k = 0 THEN a ELSE Go(h[k - 1], k)]
  BY <1>1, <1>3 DEF Visited
<1> HIDE DEF Go
<1>6. PICK g : g \in [T \X (1 .. n) -> T] /\ \A x \in T, k \in 1 .. n : g[<<x, k>>] = Go(x, k)
  <2> DEFINE g == [y \in T \X (1 .. n) |-> Go(y[1], y[2])]
  <2>1. g \in [T \X (1 .. n) -> T] /\ \A x \in T, k \in 1 .. n : g[<<x, k>>] = Go(x, k)
    BY <1>4
  <2> QED
    BY <2>1
<1>7. PICK f : f \in [0 .. n -> T] /\ Runs(f, n, a, g)
  BY <1>3, <1>6, Recursion
<1>8. ASSUME NEW k \in 1 .. n PROVE f[k] = Go(f[k - 1], k)
  <2>1. f[k - 1] \in T
    BY <1>7
  <2> QED
    BY <1>6, <1>7, <2>1 DEF Runs
<1> DEFINE F(h) == [k \in 0 .. n |-> IF k = 0 THEN a ELSE Go(h[k - 1], k)]
<1>9. f = F(f)
  BY <1>7, <1>8 DEF Runs
<1>10. Visited(d, path) = CHOOSE h : h = F(h)
  BY <1>5
<1> HIDE DEF F
<1>11. PICK at : at = Visited(d, path)
  OBVIOUS
<1>12. at = F(at)
  BY <1>9, <1>10, <1>11
<1>13. at[0] = a /\ \A k \in 1 .. n : at[k] = Go(at[k - 1], k)
  BY <1>12 DEF F
<1> DEFINE S == {k \in Nat : k <= n => at[k] \in T}
<1>14. 0 \in S
  BY <1>3, <1>13
<1>15. ASSUME NEW k \in Nat, k \in S PROVE k + 1 \in S
  <2> SUFFICES ASSUME k + 1 <= n PROVE at[k + 1] \in T
    OBVIOUS
  <2>1. at[k] \in T /\ k + 1 \in 1 .. n /\ (k + 1) - 1 = k
    BY <1>15
  <2> QED
    BY <1>4, <1>13, <2>1
<1> HIDE DEF S
<1>16. Nat \subseteq S
  BY <1>14, <1>15, Induct
<1>17. \A k \in 0 .. n : at[k] \in T
  BY <1>16 DEF S
<1> QED
  BY <1>1, <1>2, <1>3, <1>11, <1>13, <1>17 DEF Go

(* A path that is lost stays lost. *)
LEMMA Lost ==
  ASSUME NEW d \in Disks, IsExt3(d), NEW path \in Seq(STRING), NEW k \in 0 .. Len(path),
         Visited(d, path)[k] = 0
  PROVE  Resolved(d, path) = 0
<1>1. PICK n \in Nat : n = Len(path)
  OBVIOUS
<1>2. PICK at : at = Visited(d, path)
  OBVIOUS
<1> DEFINE S == {m \in Nat : k + m <= n => at[k + m] = 0}
<1>3. 0 \in S
  BY <1>1, <1>2
<1>4. ASSUME NEW m \in Nat, m \in S PROVE m + 1 \in S
  <2> SUFFICES ASSUME k + (m + 1) <= n PROVE at[k + (m + 1)] = 0
    OBVIOUS
  <2>1. at[k + m] = 0
    BY <1>1, <1>4
  <2>2. PICK j \in 1 .. n : j = k + (m + 1)
    BY <1>1
  <2>3. at[j - 1] = 0
    BY <1>1, <2>1, <2>2
  <2>4. at[j] = 0
    BY <1>1, <1>2, <2>3, VisitedFacts
  <2> QED
    BY <2>2, <2>4
<1> HIDE DEF S
<1>5. Nat \subseteq S
  BY <1>3, <1>4, Induct
<1>6. n - k \in S /\ k + (n - k) = n
  BY <1>1, <1>5
<1>7. at[n] = 0
  BY <1>1, <1>6 DEF S
<1> QED
  BY <1>1, <1>2, <1>7 DEF Resolved

-----------------------------------------------------------------------------
(* The block map: the leaves of the pointer trees, range by range. *)

(* Place p is the r-th of the q-th n places, all counted from 0. *)
IsPlace(p, q, n, r) == p = q * n + r + 1

(* What concatenation has at a place. *)
LEMMA ConcatAt ==
  ASSUME NEW n \in Nat \ {0}, NEW ss, Len(ss) \in Nat, NEW q \in Nat, q < Len(ss),
         NEW r \in Nat, r < n, NEW p, IsPlace(p, q, n, r)
  PROVE  p \in 1 .. Len(ss) * n /\ Concat(ss, n)[p] = ss[q + 1][r + 1]
<1>1. PICK m \in Nat : m = Len(ss)
  OBVIOUS
<1>2. PICK k \in Nat : k = n * q + r
  OBVIOUS
<1>3. k \div n = q
  BY <1>2, Quotient
<1>4. k % n = r
  BY <1>2, <1>3
<1>5. n * q + n <= n * m
  <2>1. n * (q + 1) <= n * m
    BY <1>1
  <2> QED
    BY <2>1
<1>6. k + 1 \in 1 .. m * n /\ (k + 1) - 1 = k
  BY <1>2, <1>5
<1>7. Concat(ss, n)[k + 1] = ss[(k \div n) + 1][(k % n) + 1]
  <2>1. PICK j \in 1 .. m * n : j = k + 1
    BY <1>6
  <2>2. Concat(ss, n)[j] = ss[((j - 1) \div n) + 1][((j - 1) % n) + 1]
    BY <1>1, <2>1 DEF Concat
  <2>3. j - 1 = k
    BY <2>1
  <2> QED
    BY <2>1, <2>2, <2>3
<1>8. p = k + 1
  BY <1>2 DEF IsPlace
<1> QED
  BY <1>1, <1>3, <1>4, <1>6, <1>7, <1>8

(* Concatenation of sequences of numbers. *)
LEMMA ConcatTyped ==
  ASSUME NEW n \in Nat \ {0}, NEW ss, Len(ss) \in Nat,
         \A q \in 1 .. Len(ss), r \in 1 .. n : ss[q][r] \in Nat
  PROVE  Concat(ss, n) \in Seq(Nat) /\ Len(Concat(ss, n)) = Len(ss) * n
<1>1. PICK m \in Nat : m = Len(ss)
  OBVIOUS
<1>2. PICK l \in Nat : l = m * n
  OBVIOUS
<1>3. ASSUME NEW k \in 1 .. l PROVE ss[((k - 1) \div n) + 1][((k - 1) % n) + 1] \in Nat
  <2>1. PICK q \in Nat : q = (k - 1) \div n
    OBVIOUS
  <2>2. PICK r \in Nat : r = (k - 1) % n /\ r < n
    OBVIOUS
  <2>3. n * q <= k - 1
    BY <2>1
  <2>4. n * q < n * m
    BY <1>2, <2>3
  <2>5. q < m
    BY <2>4, MulLess
  <2>6. q + 1 \in 1 .. m /\ r + 1 \in 1 .. n
    BY <2>2, <2>5
  <2>7. ss[q + 1][r + 1] \in Nat
    BY <1>1, <2>6
  <2> QED
    BY <2>1, <2>2, <2>7
<1> DEFINE W(k) == ss[((k - 1) \div n) + 1][((k - 1) % n) + 1]
<1>4. Concat(ss, n) = [k \in 1 .. l |-> W(k)]
  BY <1>1, <1>2 DEF Concat
<1>5. \A k \in 1 .. l : W(k) \in Nat
  BY <1>3
<1> HIDE DEF W
<1>6. [k \in 1 .. l |-> W(k)] \in Seq(Nat) /\ Len([k \in 1 .. l |-> W(k)]) = l
  BY <1>5
<1> QED
  BY <1>1, <1>2, <1>4, <1>6

(* The k-th pointer in block b. *)
Ptr(d, b, k) == IF b = 0 THEN 0 ELSE PtrAt(d, b * BlockSize(d) + k * PTR)

(* Disks whose blocks hold pointers. *)
Pointing(d) == d \in Disks /\ PTR <= BlockSize(d)

(* Pointers are block numbers, and a block holds at least one. *)
LEMMA PtrTyped ==
  ASSUME NEW d, Pointing(d)
  PROVE  /\ \A b, k : Ptr(d, b, k) \in Nat
         /\ PtrsPerBlock(d) \in Nat \ {0}
<1>1. DiskType(d) /\ PTR \in Nat \ {0} /\ PTR <= BlockSize(d)
  BY Ext3Constants DEF Pointing
<1>2. ASSUME NEW b, NEW k PROVE Ptr(d, b, k) \in Nat
  <2>1. \A o : PtrAt(d, o) \in Nat
    BY <1>1 DEF DiskType, PtrAt
  <2> QED
    BY <2>1 DEF Ptr
<1>3. PICK bs \in Nat \ {0} : bs = BlockSize(d)
  BY <1>1 DEF DiskType
<1>4. bs \div PTR \in Nat /\ bs \div PTR # 0
  BY <1>1, <1>3
<1> QED
  BY <1>2, <1>3, <1>4 DEF PtrsPerBlock

(* The pointers of a block, counted from 0. *)
LEMMA PointersAt ==
  ASSUME NEW d, Pointing(d), NEW b
  PROVE  \A r \in Nat : r < PtrsPerBlock(d) => Pointers(d, b)[r + 1] = Ptr(d, b, r)
<1>1. PICK P \in Nat \ {0} : P = PtrsPerBlock(d)
  BY PtrTyped
<1>2. ASSUME NEW r \in Nat, r < P PROVE Pointers(d, b)[r + 1] = Ptr(d, b, r)
  <2>1. PICK k \in 1 .. P : k = r + 1
    BY <1>2
  <2>2. Pointers(d, b)[k] = IF b = 0 THEN 0 ELSE PtrAt(d, b * BlockSize(d) + (k - 1) * PTR)
    BY <1>1, <2>1 DEF Pointers
  <2>3. k - 1 = r
    BY <2>1
  <2> QED
    BY <2>1, <2>2, <2>3 DEF Ptr
<1> QED
  BY <1>1, <1>2

(* s are the leaves under the blocks of bs, by block and by pointer. *)
IsLeaves(d, s, bs) ==
    /\ s \in Seq(Nat) /\ Len(s) = Len(bs) * PtrsPerBlock(d)
    /\ \A q, r \in Nat : q < Len(bs) /\ r < PtrsPerBlock(d) =>
          s[q * PtrsPerBlock(d) + r + 1] = Ptr(d, bs[q + 1], r)

(* Leaves() has the pointers of all the blocks in order. *)
LEMMA LeavesAt ==
  ASSUME NEW d, Pointing(d), NEW bs \in Seq(Nat)
  PROVE  IsLeaves(d, Leaves(d, bs), bs)
<1>1. PICK P : P = PtrsPerBlock(d)
  OBVIOUS
<1>2. P \in Nat \ {0}
  BY <1>1, PtrTyped
<1>3. PICK m \in Nat : m = Len(bs)
  OBVIOUS
<1> DEFINE Ps(b) == Pointers(d, b)
<1>4. \A b : \A r \in Nat : r < P => Ps(b)[r + 1] = Ptr(d, b, r)
  BY <1>1, PointersAt
<1>5. Leaves(d, bs) = Concat([k \in 1 .. m |-> Ps(bs[k])], P)
  BY <1>1, <1>3 DEF Leaves
<1> HIDE DEF Ps
<1>6. PICK ss : ss = [k \in 1 .. m |-> Ps(bs[k])]
  OBVIOUS
<1>7. Len(ss) = m /\ \A k \in 1 .. m : ss[k] = Ps(bs[k])
  BY <1>6
<1>8. ASSUME NEW q \in 1 .. m, NEW r \in 1 .. P PROVE ss[q][r] \in Nat
  <2>1. PICK s \in Nat : s < P /\ r = s + 1
    BY <1>2
  <2>2. ss[q][r] = Ptr(d, bs[q], s)
    BY <1>4, <1>7, <2>1
  <2> QED
    BY <2>2, PtrTyped
<1>9. Concat(ss, P) \in Seq(Nat) /\ Len(Concat(ss, P)) = m * P
  BY <1>2, <1>7, <1>8, ConcatTyped
<1>10. ASSUME NEW q \in Nat, NEW r \in Nat, q < m, r < P
      PROVE  Concat(ss, P)[q * P + r + 1] = Ptr(d, bs[q + 1], r)
  <2>1. Len(ss) \in Nat /\ q < Len(ss)
    BY <1>7, <1>10
  <2>2. PICK p : IsPlace(p, q, P, r)
    BY DEF IsPlace
  <2>3. Concat(ss, P)[p] = ss[q + 1][r + 1]
    BY <1>2, <1>10, <2>1, <2>2, ConcatAt
  <2>4. Concat(ss, P)[q * P + r + 1] = ss[q + 1][r + 1]
    BY <2>2, <2>3 DEF IsPlace
  <2>5. ss[q + 1] = Ps(bs[q + 1])
    BY <1>7, <1>10
  <2> QED
    BY <1>4, <1>10, <2>4, <2>5
<1> QED
  BY <1>1, <1>3, <1>5, <1>6, <1>9, <1>10 DEF IsLeaves

(* w is s, t, u and v one after the other. *)
FourParts(w, s, t, u, v) ==
    /\ w \in Seq(Nat) /\ Len(w) = Len(s) + Len(t) + Len(u) + Len(v)
    /\ \A k \in 1 .. Len(s) : w[k] = s[k]
    /\ \A k \in 1 .. Len(t) : w[Len(s) + k] = t[k]
    /\ \A k \in 1 .. Len(u) : w[Len(s) + Len(t) + k] = u[k]
    /\ \A k \in 1 .. Len(v) : w[Len(s) + Len(t) + Len(u) + k] = v[k]

TwoParts(x, s, t) ==
    /\ x \in Seq(Nat) /\ Len(x) = Len(s) + Len(t)
    /\ \A k \in Nat : k \in 1 .. Len(s) => x[k] = s[k]
    /\ \A k \in Nat : k \in 1 .. Len(t) => x[Len(s) + k] = t[k]

(* Two sequences joined. *)
LEMMA ConcatTwo ==
  ASSUME NEW s \in Seq(Nat), NEW t \in Seq(Nat)
  PROVE  TwoParts(s \o t, s, t)
BY DEF TwoParts

(* Four sequences joined. *)
LEMMA ConcatFour ==
  ASSUME NEW s \in Seq(Nat), NEW t \in Seq(Nat), NEW u \in Seq(Nat), NEW v \in Seq(Nat)
  PROVE  FourParts(s \o t \o u \o v, s, t, u, v)
<1>1. PICK a, b, c, e \in Nat : a = Len(s) /\ b = Len(t) /\ c = Len(u) /\ e = Len(v)
  OBVIOUS
<1>2. PICK x : x = s \o t
  OBVIOUS
<1>3. /\ x \in Seq(Nat) /\ Len(x) = a + b
      /\ \A k \in Nat : k \in 1 .. a => x[k] = s[k]
      /\ \A k \in Nat : k \in 1 .. b => x[a + k] = t[k]
  <2>1. TwoParts(x, s, t)
    BY <1>2, ConcatTwo
  <2> QED
    BY <1>1, <2>1 DEF TwoParts
<1>4. PICK y : y = x \o u
  OBVIOUS
<1>5. /\ y \in Seq(Nat) /\ Len(y) = (a + b) + c
      /\ \A k \in Nat : k \in 1 .. a + b => y[k] = x[k]
      /\ \A k \in Nat : k \in 1 .. c => y[(a + b) + k] = u[k]
  <2>1. TwoParts(y, x, u)
    BY <1>3, <1>4, ConcatTwo
  <2> QED
    BY <1>1, <1>3, <2>1 DEF TwoParts
<1>6. PICK w : w = y \o v
  OBVIOUS
<1>7. /\ w \in Seq(Nat) /\ Len(w) = ((a + b) + c) + e
      /\ \A k \in Nat : k \in 1 .. (a + b) + c => w[k] = y[k]
      /\ \A k \in Nat : k \in 1 .. e => w[((a + b) + c) + k] = v[k]
  <2>1. TwoParts(w, y, v)
    BY <1>5, <1>6, ConcatTwo
  <2> QED
    BY <1>1, <1>5, <2>1 DEF TwoParts
<1>8. w = s \o t \o u \o v
  BY <1>2, <1>4, <1>6
<1>9. ASSUME NEW k \in Nat, k \in 1 .. b PROVE w[a + k] = t[k]
  <2>1. PICK j \in Nat : j = a + k
    OBVIOUS
  <2> QED
    BY <1>3, <1>5, <1>7, <1>9, <2>1
<1>10. ASSUME NEW k \in Nat, k \in 1 .. c PROVE w[(a + b) + k] = u[k]
  <2>1. PICK j \in Nat : j = (a + b) + k
    OBVIOUS
  <2>2. j \in 1 .. (a + b) + c
    BY <1>10, <2>1
  <2>3. w[j] = y[j]
    BY <1>7, <2>2
  <2>4. y[(a + b) + k] = u[k]
    BY <1>5, <1>10
  <2> QED
    BY <2>1, <2>3, <2>4
<1>11. ASSUME NEW k \in Nat, k \in 1 .. a PROVE w[k] = s[k]
  BY <1>3, <1>5, <1>7, <1>11
<1>12. FourParts(w, s, t, u, v)
  BY <1>1, <1>7, <1>9, <1>10, <1>11 DEF FourParts
<1> QED
  BY <1>8, <1>12

(* The block map, range by range. *)
Ranges(d, i) ==
    LET bm == BlockMap(d, i)
        B == i.i_block
        P == PtrsPerBlock(d)
    IN  /\ bm \in Seq(Nat) /\ Len(bm) = NDIRECT + P + P * P + P * P * P
        /\ \A a \in Nat : a < NDIRECT => bm[a + 1] = B[a]
        /\ \A a \in Nat : a < P => bm[NDIRECT + a + 1] = Ptr(d, B[NDIRECT], a)
        /\ \A a, b \in Nat : a < P /\ b < P =>
              bm[NDIRECT + P + (a * P + b) + 1] = Ptr(d, Ptr(d, B[NDIRECT + 1], a), b)
        /\ \A a, b, c \in Nat : a < P /\ b < P /\ c < P =>
              bm[NDIRECT + P + P * P + ((a * P + b) * P + c) + 1] =
                 Ptr(d, Ptr(d, Ptr(d, B[NDIRECT + 2], a), b), c)

(* The block map is made of these four ranges. *)
LEMMA BlockMapAt ==
  ASSUME NEW d, Pointing(d), NEW i, i.i_block \in [0 .. NDIRECT + 2 -> Nat]
  PROVE  Ranges(d, i)
<1>1. PICK B : B = i.i_block /\ B \in [0 .. NDIRECT + 2 -> Nat]
  OBVIOUS
<1>2. PICK P : P = PtrsPerBlock(d)
  OBVIOUS
<1>3. PICK bm : bm = BlockMap(d, i)
  OBVIOUS
<1>4. NDIRECT \in Nat \ {0} /\ P \in Nat \ {0}
  BY <1>2, PtrTyped, Ext3Constants
<1>5. PICK D : D = [k \in 1 .. NDIRECT |-> B[k - 1]]
  OBVIOUS
<1>6. D \in Seq(Nat) /\ Len(D) = NDIRECT /\ \A a \in Nat : a < NDIRECT => D[a + 1] = B[a]
  BY <1>1, <1>4, <1>5
<1>7. ASSUME NEW x \in Nat
      PROVE  /\ Leaves(d, <<x>>) \in Seq(Nat) /\ Len(Leaves(d, <<x>>)) = P
             /\ \A a \in Nat : a < P => Leaves(d, <<x>>)[a + 1] = Ptr(d, x, a)
  <2>1. PICK s : s = <<x>>
    OBVIOUS
  <2>2. s \in Seq(Nat) /\ s = <<x>> /\ Len(s) = 1 /\ s[1] = x
    BY <2>1
  <2>3. IsLeaves(d, Leaves(d, s), s)
    BY <2>2, LeavesAt
  <2>4. /\ Leaves(d, s) \in Seq(Nat) /\ Len(Leaves(d, s)) = 1 * P
        /\ \A q, r \in Nat : q < 1 /\ r < P => Leaves(d, s)[q * P + r + 1] = Ptr(d, s[q + 1], r)
    BY <1>2, <2>2, <2>3 DEF IsLeaves
  <2>5. ASSUME NEW a \in Nat, a < P PROVE Leaves(d, s)[a + 1] = Ptr(d, x, a)
    <3>1. Leaves(d, s)[0 * P + a + 1] = Ptr(d, s[0 + 1], a)
      BY <2>4, <2>5
    <3>2. 0 * P + a + 1 = a + 1 /\ 0 + 1 = 1
      BY <1>4
    <3> QED
      BY <2>2, <3>1, <3>2
  <2>6. 1 * P = P
    BY <1>4
  <2>7. PICK l : l = Leaves(d, s)
    OBVIOUS
  <2>8. l = Leaves(d, <<x>>)
    BY <2>1, <2>7
  <2>9. l \in Seq(Nat) /\ Len(l) = P /\ \A a \in Nat : a < P => l[a + 1] = Ptr(d, x, a)
    BY <2>4, <2>5, <2>6, <2>7
  <2> QED
    BY <2>8, <2>9
<1>8. ASSUME NEW x \in Nat, NEW s, s = Leaves(d, Leaves(d, <<x>>))
      PROVE  /\ s \in Seq(Nat) /\ Len(s) = P * P
             /\ \A a, b \in Nat : a < P /\ b < P => s[a * P + b + 1] = Ptr(d, Ptr(d, x, a), b)
  <2>1. PICK t : t = Leaves(d, <<x>>)
    OBVIOUS
  <2>2. t \in Seq(Nat) /\ Len(t) = P /\ \A a \in Nat : a < P => t[a + 1] = Ptr(d, x, a)
    BY <1>7, <2>1
  <2>3. /\ s \in Seq(Nat) /\ Len(s) = Len(t) * P
        /\ \A q, r \in Nat : q < Len(t) /\ r < P => s[q * P + r + 1] = Ptr(d, t[q + 1], r)
    <3>1. IsLeaves(d, s, t)
      BY <1>8, <2>1, <2>2, LeavesAt
    <3> QED
      BY <1>2, <3>1 DEF IsLeaves
  <2> QED
    BY <1>4, <2>2, <2>3
<1>9. ASSUME NEW x \in Nat, NEW s, s = Leaves(d, Leaves(d, Leaves(d, <<x>>)))
      PROVE  /\ s \in Seq(Nat) /\ Len(s) = P * P * P
             /\ \A a, b, c \in Nat : a < P /\ b < P /\ c < P =>
                   s[(a * P + b) * P + c + 1] = Ptr(d, Ptr(d, Ptr(d, x, a), b), c)
  <2>1. PICK t : t = Leaves(d, Leaves(d, <<x>>))
    OBVIOUS
  <2>2. /\ t \in Seq(Nat) /\ Len(t) = P * P
        /\ \A a, b \in Nat : a < P /\ b < P => t[a * P + b + 1] = Ptr(d, Ptr(d, x, a), b)
    BY <1>8, <2>1
  <2>3. /\ s \in Seq(Nat) /\ Len(s) = Len(t) * P
        /\ \A q, r \in Nat : q < Len(t) /\ r < P => s[q * P + r + 1] = Ptr(d, t[q + 1], r)
    <3>1. IsLeaves(d, s, t)
      BY <1>9, <2>1, <2>2, LeavesAt
    <3> QED
      BY <1>2, <3>1 DEF IsLeaves
  <2>4. ASSUME NEW a \in Nat, NEW b \in Nat, NEW c \in Nat, a < P, b < P, c < P
        PROVE  s[(a * P + b) * P + c + 1] = Ptr(d, Ptr(d, Ptr(d, x, a), b), c)
    <3>1. PICK q \in Nat : q = a * P + b /\ q < P * P
      BY <1>4, <2>4, PairPlace
    <3>2. s[q * P + c + 1] = Ptr(d, t[q + 1], c)
      BY <2>2, <2>3, <2>4, <3>1
    <3>3. t[q + 1] = Ptr(d, Ptr(d, x, a), b)
      BY <2>2, <2>4, <3>1
    <3> QED
      BY <3>1, <3>2, <3>3
  <2> QED
    BY <2>2, <2>3, <2>4
<1>10. B[NDIRECT] \in Nat /\ B[NDIRECT + 1] \in Nat /\ B[NDIRECT + 2] \in Nat
  BY <1>1, <1>4
<1>11. PICK t : t = Leaves(d, <<B[NDIRECT]>>)
  OBVIOUS
<1>12. PICK u : u = Leaves(d, Leaves(d, <<B[NDIRECT + 1]>>))
  OBVIOUS
<1>13. PICK v : v = Leaves(d, Leaves(d, Leaves(d, <<B[NDIRECT + 2]>>)))
  OBVIOUS
<1>14. /\ t \in Seq(Nat) /\ Len(t) = P
       /\ \A a \in Nat : a < P => t[a + 1] = Ptr(d, B[NDIRECT], a)
  BY <1>7, <1>10, <1>11
<1>15. /\ u \in Seq(Nat) /\ Len(u) = P * P
       /\ \A a, b \in Nat : a < P /\ b < P =>
             u[a * P + b + 1] = Ptr(d, Ptr(d, B[NDIRECT + 1], a), b)
  BY <1>8, <1>10, <1>12
<1>16. /\ v \in Seq(Nat) /\ Len(v) = P * P * P
       /\ \A a, b, c \in Nat : a < P /\ b < P /\ c < P =>
             v[(a * P + b) * P + c + 1] = Ptr(d, Ptr(d, Ptr(d, B[NDIRECT + 2], a), b), c)
  BY <1>9, <1>10, <1>13
<1>17. bm = D \o t \o u \o v
  BY <1>1, <1>3, <1>5, <1>11, <1>12, <1>13 DEF BlockMap
<1>18. /\ bm \in Seq(Nat) /\ Len(bm) = Len(D) + Len(t) + Len(u) + Len(v)
       /\ \A k \in 1 .. Len(D) : bm[k] = D[k]
       /\ \A k \in 1 .. Len(t) : bm[Len(D) + k] = t[k]
       /\ \A k \in 1 .. Len(u) : bm[Len(D) + Len(t) + k] = u[k]
       /\ \A k \in 1 .. Len(v) : bm[Len(D) + Len(t) + Len(u) + k] = v[k]
  <2>1. FourParts(bm, D, t, u, v)
    BY <1>6, <1>14, <1>15, <1>16, <1>17, ConcatFour
  <2> QED
    BY <2>1 DEF FourParts
<1>19. PICK m \in Nat : m = P * P
  BY <1>4
<1>20. PICK o \in Nat : o = P * P * P /\ o = m * P
  BY <1>4, <1>19
<1>21. ASSUME NEW a \in Nat, a < NDIRECT PROVE bm[a + 1] = B[a]
  <2>1. PICK j \in 1 .. Len(D) : j = a + 1
    BY <1>4, <1>6, <1>21
  <2> QED
    BY <1>6, <1>18, <1>21, <2>1
<1>22. ASSUME NEW a \in Nat, a < P PROVE bm[NDIRECT + a + 1] = Ptr(d, B[NDIRECT], a)
  <2>1. PICK j \in 1 .. Len(t) : j = a + 1
    BY <1>4, <1>14, <1>22
  <2>2. bm[Len(D) + (a + 1)] = t[a + 1]
    BY <1>18, <2>1
  <2>3. Len(D) + (a + 1) = NDIRECT + a + 1
    BY <1>4, <1>6
  <2> QED
    BY <1>14, <1>22, <2>2, <2>3
<1>23. ASSUME NEW a \in Nat, NEW b \in Nat, a < P, b < P
       PROVE  bm[NDIRECT + P + (a * P + b) + 1] = Ptr(d, Ptr(d, B[NDIRECT + 1], a), b)
  <2>1. PICK k \in Nat : k = a * P + b /\ k < m
    BY <1>4, <1>19, <1>23, PairPlace
  <2>2. PICK j \in 1 .. Len(u) : j = k + 1
    BY <1>15, <1>19, <2>1
  <2>3. bm[Len(D) + Len(t) + (k + 1)] = u[k + 1]
    BY <1>18, <2>2
  <2>4. Len(D) + Len(t) + (k + 1) = NDIRECT + P + k + 1
    BY <1>4, <1>6, <1>14
  <2>5. u[k + 1] = Ptr(d, Ptr(d, B[NDIRECT + 1], a), b)
    BY <1>15, <1>23, <2>1
  <2> QED
    BY <2>1, <2>3, <2>4, <2>5
<1>24. ASSUME NEW a \in Nat, NEW b \in Nat, NEW c \in Nat, a < P, b < P, c < P
       PROVE  bm[NDIRECT + P + P * P + ((a * P + b) * P + c) + 1] =
                 Ptr(d, Ptr(d, Ptr(d, B[NDIRECT + 2], a), b), c)
  <2>1. PICK q \in Nat : q = a * P + b /\ q < m
    BY <1>4, <1>19, <1>24, PairPlace
  <2>2. q * P + c \in Nat /\ q * P + c < m * P
    BY <1>4, <1>24, <2>1, PairPlace
  <2>3. PICK k \in Nat : k = q * P + c /\ k < o
    BY <1>20, <2>2
  <2>4. PICK j \in 1 .. Len(v) : j = k + 1
    BY <1>16, <1>20, <2>3
  <2>5. bm[Len(D) + Len(t) + Len(u) + (k + 1)] = v[k + 1]
    BY <1>18, <2>4
  <2>6. Len(D) + Len(t) + Len(u) + (k + 1) = NDIRECT + P + m + k + 1
    BY <1>4, <1>6, <1>14, <1>15, <1>19
  <2>7. v[k + 1] = Ptr(d, Ptr(d, Ptr(d, B[NDIRECT + 2], a), b), c)
    BY <1>16, <1>24, <2>1, <2>3
  <2> QED
    BY <1>19, <2>1, <2>3, <2>5, <2>6, <2>7
<1>25. Len(bm) = NDIRECT + P + P * P + P * P * P
  BY <1>6, <1>14, <1>15, <1>16, <1>18
<1> QED
  BY <1>1, <1>2, <1>3, <1>18, <1>21, <1>22, <1>23, <1>24, <1>25 DEF Ranges

-----------------------------------------------------------------------------
(* resolve_block(): the route of a block leads to its place in the block map. *)

(* The block that the indices in idx lead to from block b. *)
Follow(d, b, idx) ==
    CASE Len(idx) = 0 -> b
      [] Len(idx) = 1 -> Ptr(d, b, idx[1])
      [] Len(idx) = 2 -> Ptr(d, Ptr(d, b, idx[1]), idx[2])
      [] OTHER -> Ptr(d, Ptr(d, Ptr(d, b, idx[1]), idx[2]), idx[3])

(* r starts with x, and from b the rest of it leads to the block y. *)
Leads(d, r, x, b, y) ==
    /\ r # <<>> /\ Head(r) = x /\ Tail(r) \in Seq(Nat) /\ Len(Tail(r)) <= 3
    /\ Follow(d, b, Tail(r)) = y

(* Routes of up to four steps, and where they lead. *)
LEMMA FollowSteps ==
  ASSUME NEW d, NEW b, NEW x \in Nat
  PROVE  /\ Leads(d, <<x>>, x, b, b)
         /\ \A y \in Nat : Leads(d, <<x, y>>, x, b, Ptr(d, b, y))
         /\ \A y, z \in Nat : Leads(d, <<x, y, z>>, x, b, Ptr(d, Ptr(d, b, y), z))
         /\ \A y, z, w \in Nat :
               Leads(d, <<x, y, z, w>>, x, b, Ptr(d, Ptr(d, Ptr(d, b, y), z), w))
<1>1. ASSUME NEW s
      PROVE  /\ Len(s) = 0 => Follow(d, b, s) = b
             /\ Len(s) = 1 => Follow(d, b, s) = Ptr(d, b, s[1])
             /\ Len(s) = 2 => Follow(d, b, s) = Ptr(d, Ptr(d, b, s[1]), s[2])
             /\ Len(s) = 3 => Follow(d, b, s) = Ptr(d, Ptr(d, Ptr(d, b, s[1]), s[2]), s[3])
  BY DEF Follow
<1>2. Leads(d, <<x>>, x, b, b)
  <2>1. PICK r, s : r = <<x>> /\ s = Tail(r)
    OBVIOUS
  <2>2. r # <<>> /\ Head(r) = x /\ s \in Seq(Nat) /\ Len(s) = 0
    BY <2>1
  <2> QED
    BY <1>1, <2>1, <2>2 DEF Leads
<1>3. ASSUME NEW y \in Nat PROVE Leads(d, <<x, y>>, x, b, Ptr(d, b, y))
  <2>1. PICK r, s : r = <<x, y>> /\ s = Tail(r)
    OBVIOUS
  <2>2. r # <<>> /\ Head(r) = x /\ s \in Seq(Nat) /\ Len(s) = 1 /\ s[1] = y
    BY <2>1
  <2> QED
    BY <1>1, <2>1, <2>2 DEF Leads
<1>4. ASSUME NEW y \in Nat, NEW z \in Nat
      PROVE  Leads(d, <<x, y, z>>, x, b, Ptr(d, Ptr(d, b, y), z))
  <2>1. PICK r, s : r = <<x, y, z>> /\ s = Tail(r)
    OBVIOUS
  <2>2. r # <<>> /\ Head(r) = x /\ s \in Seq(Nat) /\ Len(s) = 2 /\ s[1] = y /\ s[2] = z
    BY <2>1
  <2> QED
    BY <1>1, <2>1, <2>2 DEF Leads
<1>5. ASSUME NEW y \in Nat, NEW z \in Nat, NEW w \in Nat
      PROVE  Leads(d, <<x, y, z, w>>, x, b, Ptr(d, Ptr(d, Ptr(d, b, y), z), w))
  <2>1. PICK r, s : r = <<x, y, z, w>> /\ s = Tail(r)
    OBVIOUS
  <2>2. /\ r # <<>> /\ Head(r) = x /\ s \in Seq(Nat) /\ Len(s) = 3
        /\ s[1] = y /\ s[2] = z /\ s[3] = w
    BY <2>1
  <2> QED
    BY <1>1, <2>1, <2>2 DEF Leads
<1> QED
  BY <1>2, <1>3, <1>4, <1>5

(* The four ranges of resolve_block(). *)
LEMMA RouteDirect ==
  ASSUME NDIRECT \in Nat, NEW P \in Nat \ {0}, P = ptrs_per_block,
         NEW m \in Nat \ {0}, m = double_range, NEW p \in Nat, p < NDIRECT
  PROVE  Route(p) = <<p>>
BY DEF Route

(* Behind them, those of the single indirect block. *)
LEMMA RouteSingle ==
  ASSUME NDIRECT \in Nat, NEW P \in Nat \ {0}, P = ptrs_per_block,
         NEW m \in Nat \ {0}, m = double_range,
         NEW a \in Nat, a < P, NEW p \in Nat, p = NDIRECT + a
  PROVE  Route(p) = <<NDIRECT, a>>
<1>1. a = p - NDIRECT /\ p >= NDIRECT /\ ~(p < NDIRECT) /\ ~(a >= P) /\ ~(a - P >= m)
  OBVIOUS
<1> QED
  BY <1>1 DEF Route

(* Then those of the double indirect block, by two digits. *)
LEMMA RouteDouble ==
  ASSUME NDIRECT \in Nat, NEW P \in Nat \ {0}, P = ptrs_per_block,
         NEW m \in Nat \ {0}, m = double_range,
         NEW l \in Nat, l < m, NEW p \in Nat, p = NDIRECT + P + l
  PROVE  Route(p) = <<NDIRECT + 1, l \div P, l % P>>
<1>1. l = p - NDIRECT - P /\ p - NDIRECT >= P
  OBVIOUS
<1> QED
  BY <1>1 DEF Route

(* Then those of the triple indirect block, by three digits. *)
LEMMA RouteTriple ==
  ASSUME NDIRECT \in Nat, NEW P \in Nat \ {0}, P = ptrs_per_block,
         NEW m \in Nat \ {0}, m = double_range, NEW t \in Nat, t = triple_range,
         NEW k \in Nat \ {0}, k = P * P,
         NEW l \in Nat, l < t, NEW p \in Nat, p = NDIRECT + P + m + l
  PROVE  Route(p) = <<NDIRECT + 2, l \div k, (l % k) \div P, (l % k) % P>>
<1>1. l = p - NDIRECT - P - m /\ p - NDIRECT - P >= m /\ m >= 0
  OBVIOUS
<1> QED
  BY <1>1, SMTT(40) DEF Route

(* A file that its block map can address: the number of its blocks. *)
LEMMA BlockInMap ==
  ASSUME NEW d \in Disks, IsExt3(d), NEW n \in DOMAIN d.by_number, NEW i, i = d.by_number[n],
         NEW p \in Nat, p * BlockSize(d) < size(i)
  PROVE  /\ p < U32
         /\ p < NDIRECT + PtrsPerBlock(d) + PtrsPerBlock(d) * PtrsPerBlock(d)
                  + ((PtrsPerBlock(d) * PtrsPerBlock(d) * PtrsPerBlock(d)) % U32)
         /\ size(i) <= (NDIRECT + PtrsPerBlock(d) + PtrsPerBlock(d) * PtrsPerBlock(d)
                          + PtrsPerBlock(d) * PtrsPerBlock(d) * PtrsPerBlock(d)) * BlockSize(d)
<1>1. PICK bs \in Nat \ {0} : bs = BlockSize(d)
  BY InodeTyped
<1>2. PICK s \in Nat : s = size(i)
  BY InodeTyped
<1>3. PICK P \in Nat : P = PtrsPerBlock(d)
  <2>1. PtrsPerBlock(d) \in Nat
    BY PtrTyped DEF IsExt3, Pointing
  <2> QED
    BY <2>1
<1>4. U32 \in Nat \ {0} /\ NDIRECT \in Nat
  BY Ext3Constants
<1>5. PICK c \in Nat : c = P * P * P
  BY <1>3
<1>6. PICK m \in Nat : m = P * P
  BY <1>3
<1>7. PICK t \in Nat : t = c % U32 /\ t <= c
  BY <1>4, ModLess
<1>8. s <= (NDIRECT + P + m + t) * bs /\ s <= U32 * bs
  BY <1>1, <1>2, <1>3, <1>5, <1>6, <1>7 DEF IsExt3, Addressable
<1>9. PICK L \in Nat : L = NDIRECT + P + m + t
  BY <1>4
<1>10. bs * p < bs * L /\ bs * p < bs * U32
  BY <1>1, <1>2, <1>4, <1>8, <1>9
<1>11. p < L /\ p < U32
  BY <1>4, <1>10, MulLess
<1>12. PICK M \in Nat : M = NDIRECT + P + m + c
  BY <1>4
<1>13. PICK e \in Nat : M = L + e
  <2>1. c - t \in Nat /\ c = t + (c - t)
    BY <1>7
  <2>2. PICK e \in Nat : c = t + e
    BY <2>1
  <2>3. M = L + e
    BY <1>4, <1>9, <1>12, <2>2
  <2> QED
    BY <2>3
<1>14. M * bs = L * bs + e * bs /\ e * bs \in Nat /\ L * bs \in Nat
  BY <1>13
<1>15. s <= M * bs
  BY <1>8, <1>9, <1>14
<1> QED
  BY <1>1, <1>2, <1>3, <1>5, <1>6, <1>7, <1>9, <1>11, <1>12, <1>15

(* resolve_block() follows the route to the block that the block map has. *)
LEMMA RouteFollows ==
  ASSUME disk \in Disks, IsExt3(disk), NEW n \in DOMAIN disk.by_number,
         NEW i, i = disk.by_number[n], NEW p \in Nat, p * block_size < size(i),
         NEW r, r = Route(p % U32)
  PROVE  \E x \in 0 .. NDIRECT + 2 :
            Leads(disk, r, x, i.i_block[x], BlockMap(disk, i)[p + 1])
<1>1. Pointing(disk) /\ NDIRECT \in Nat \ {0} /\ U32 \in Nat \ {0}
  BY Ext3Constants DEF IsExt3, Pointing
<1>2. PICK P \in Nat \ {0} : P = PtrsPerBlock(disk)
  BY <1>1, PtrTyped
<1>3. PICK B : B = i.i_block
  OBVIOUS
<1>4. B \in [0 .. NDIRECT + 2 -> Nat]
  BY <1>3, InodeTyped
<1>5. PICK bm : bm = BlockMap(disk, i)
  OBVIOUS
<1>6. PICK m \in Nat \ {0} : m = P * P
  OBVIOUS
<1>7. PICK c \in Nat : c = P * P * P /\ c = m * P
  BY <1>6
<1>8. PICK t \in Nat : t = c % U32 /\ t <= c
  BY <1>1, ModLess
<1>9. p < U32 /\ p < NDIRECT + P + m + t
  BY <1>2, <1>6, <1>7, <1>8, BlockInMap DEF block_size
<1>10. p % U32 = p
  BY <1>1, <1>9
<1>11. m < U32
  BY <1>2, <1>6 DEF IsExt3
<1>12. ptrs_per_block = P /\ double_range = m /\ triple_range = t
  <2>1. ptrs_per_block = P
    BY <1>2 DEF ptrs_per_block, block_size, PtrsPerBlock
  <2>2. m % U32 = m
    BY <1>1, <1>11
  <2> QED
    BY <1>6, <1>7, <1>8, <2>1, <2>2 DEF double_range, triple_range
<1>13. /\ p < NDIRECT => r = <<p>>
       /\ \A a \in Nat : p = NDIRECT + a /\ a < P => r = <<NDIRECT, a>>
       /\ \A l \in Nat : p = NDIRECT + P + l /\ l < m => r = <<NDIRECT + 1, l \div P, l % P>>
       /\ \A l \in Nat : p = NDIRECT + P + m + l /\ l < t =>
             r = <<NDIRECT + 2, l \div m, (l % m) \div P, (l % m) % P>>
  <2>1. r = Route(p)
    BY <1>10
  <2>2. p < NDIRECT => r = <<p>>
    BY <1>1, <1>12, <2>1, RouteDirect
  <2>3. ASSUME NEW a \in Nat, p = NDIRECT + a, a < P PROVE r = <<NDIRECT, a>>
    BY <1>1, <1>12, <2>1, <2>3, RouteSingle
  <2>4. ASSUME NEW l \in Nat, p = NDIRECT + P + l, l < m
        PROVE  r = <<NDIRECT + 1, l \div P, l % P>>
    BY <1>1, <1>12, <2>1, <2>4, RouteDouble
  <2>5. ASSUME NEW l \in Nat, p = NDIRECT + P + m + l, l < t
        PROVE  r = <<NDIRECT + 2, l \div m, (l % m) \div P, (l % m) % P>>
    BY <1>1, <1>6, <1>12, <2>1, <2>5, RouteTriple
  <2> QED
    BY <2>2, <2>3, <2>4, <2>5
<1>14. Ranges(disk, i)
  BY <1>1, <1>3, <1>4, BlockMapAt
<1> DEFINE Map(Q, f, C) ==
       /\ \A a, b \in Nat : a < Q /\ b < Q =>
             f[NDIRECT + Q + (a * Q + b) + 1] = Ptr(disk, Ptr(disk, C[NDIRECT + 1], a), b)
       /\ \A a, b, e \in Nat : a < Q /\ b < Q /\ e < Q =>
             f[NDIRECT + Q + Q * Q + ((a * Q + b) * Q + e) + 1] =
                Ptr(disk, Ptr(disk, Ptr(disk, C[NDIRECT + 2], a), b), e)
<1>15. Map(PtrsPerBlock(disk), BlockMap(disk, i), i.i_block)
  BY <1>14, Zenon DEF Ranges
<1>16. Map(P, bm, B)
  <2> HIDE DEF Map
  <2> QED
    BY <1>2, <1>3, <1>5, <1>15
<1>17. CASE p < NDIRECT
  <2>1. r = <<p>>
    BY <1>13, <1>17
  <2>2. Leads(disk, r, p, B[p], B[p])
    BY <2>1, FollowSteps
  <2>3. p \in 0 .. NDIRECT + 2
    BY <1>1, <1>17
  <2>4. B[p] = bm[p + 1]
    BY <1>3, <1>5, <1>14, <1>17 DEF Ranges
  <2> QED
    BY <1>3, <1>5, <2>2, <2>3, <2>4
<1>18. CASE \E a \in Nat : p = NDIRECT + a /\ a < P
  <2>1. PICK a \in Nat : p = NDIRECT + a /\ a < P
    BY <1>18
  <2>2. PICK x \in 0 .. NDIRECT + 2 : x = NDIRECT /\ x \in Nat
    BY <1>1
  <2>3. r = <<x, a>>
    BY <1>13, <2>1, <2>2
  <2>4. Leads(disk, r, x, B[x], Ptr(disk, B[x], a))
    <3>1. PICK o : o = B[x]
      OBVIOUS
    <3>2. Leads(disk, <<x, a>>, x, o, Ptr(disk, o, a))
      BY <2>2, FollowSteps
    <3> QED
      BY <2>3, <3>1, <3>2
  <2>5. bm[NDIRECT + a + 1] = Ptr(disk, B[x], a)
    BY <1>2, <1>3, <1>5, <1>14, <2>1, <2>2 DEF Ranges
  <2>6. NDIRECT + a + 1 = p + 1
    BY <1>1, <2>1
  <2> QED
    BY <1>3, <1>5, <2>4, <2>5, <2>6
<1>19. CASE \E l \in Nat : p = NDIRECT + P + l /\ l < m
  <2>1. PICK l \in Nat : p = NDIRECT + P + l /\ l < m
    BY <1>19
  <2>2. PICK a \in Nat : a = l \div P
    OBVIOUS
  <2>3. PICK b \in Nat : b = l % P /\ b < P
    OBVIOUS
  <2>4. l = P * a + b
    BY <2>2, <2>3
  <2>5. a < P
    <3>1. P * a < P * P
      BY <1>6, <2>1, <2>4
    <3> QED
      BY <3>1, MulLess
  <2>6. PICK x \in 0 .. NDIRECT + 2 : x = NDIRECT + 1 /\ x \in Nat
    BY <1>1
  <2>7. r = <<x, a, b>>
    BY <1>13, <2>1, <2>2, <2>3, <2>6
  <2>8. Leads(disk, r, x, B[x], Ptr(disk, Ptr(disk, B[x], a), b))
    <3>1. PICK o : o = B[x]
      OBVIOUS
    <3>2. Leads(disk, <<x, a, b>>, x, o, Ptr(disk, Ptr(disk, o, a), b))
      BY <2>6, FollowSteps
    <3> QED
      BY <2>7, <3>1, <3>2
  <2>9. NDIRECT + P + (a * P + b) + 1 = p + 1
    BY <1>1, <2>1, <2>4
  <2>10. bm[NDIRECT + P + (a * P + b) + 1] = Ptr(disk, Ptr(disk, B[x], a), b)
    <3>1. \A y, z \in Nat : y < P /\ z < P =>
             bm[NDIRECT + P + (y * P + z) + 1] = Ptr(disk, Ptr(disk, B[x], y), z)
      BY <1>16, <2>6
    <3> QED
      BY <2>3, <2>5, <3>1
  <2> QED
    BY <1>3, <1>5, <2>8, <2>9, <2>10
<1>20. CASE \E l \in Nat : p = NDIRECT + P + m + l /\ l < t
  <2>1. PICK l \in Nat : p = NDIRECT + P + m + l /\ l < t
    BY <1>20
  <2>2. l < m * P
    BY <1>7, <1>8, <2>1
  <2>3. PICK a, b, e \in Nat : AreDigits(l, m, P, a, b, e)
    BY <1>6, <2>2, ThreeDigits
  <2>4. PICK x \in 0 .. NDIRECT + 2 : x = NDIRECT + 2 /\ x \in Nat
    BY <1>1
  <2>5. r = <<x, a, b, e>>
    BY <1>13, <2>1, <2>3, <2>4 DEF AreDigits
  <2>6. Leads(disk, r, x, B[x], Ptr(disk, Ptr(disk, Ptr(disk, B[x], a), b), e))
    <3>1. PICK o : o = B[x]
      OBVIOUS
    <3>2. Leads(disk, <<x, a, b, e>>, x, o, Ptr(disk, Ptr(disk, Ptr(disk, o, a), b), e))
      BY <2>4, FollowSteps
    <3> QED
      BY <2>5, <3>1, <3>2
  <2>7. NDIRECT + P + P * P + ((a * P + b) * P + e) + 1 = p + 1
    BY <1>6, <2>1, <2>3 DEF AreDigits
  <2>8. bm[NDIRECT + P + P * P + ((a * P + b) * P + e) + 1] =
           Ptr(disk, Ptr(disk, Ptr(disk, B[x], a), b), e)
    <3>1. \A y, z, w \in Nat : y < P /\ z < P /\ w < P =>
             bm[NDIRECT + P + P * P + ((y * P + z) * P + w) + 1] =
                Ptr(disk, Ptr(disk, Ptr(disk, B[x], y), z), w)
      BY <1>16, <2>4
    <3>2. a < P /\ b < P /\ e < P
      BY <2>3 DEF AreDigits
    <3> QED
      BY <3>1, <3>2
  <2> QED
    BY <1>3, <1>5, <2>6, <2>7, <2>8
<1>21. \/ p < NDIRECT
       \/ \E a \in Nat : p = NDIRECT + a /\ a < P
       \/ \E l \in Nat : p = NDIRECT + P + l /\ l < m
       \/ \E l \in Nat : p = NDIRECT + P + m + l /\ l < t
  <2>1. PICK x \in Int : x = p - NDIRECT
    BY <1>1
  <2>2. PICK y \in Int : y = x - P
    BY <2>1
  <2>3. PICK z \in Int : z = y - m
    BY <2>2
  <2>4. CASE z \in Nat
    BY <1>1, <1>9, <2>1, <2>2, <2>3, <2>4
  <2>5. CASE z \notin Nat /\ y \in Nat
    BY <1>1, <1>9, <2>1, <2>2, <2>3, <2>5
  <2>6. CASE y \notin Nat /\ x \in Nat
    BY <1>1, <1>9, <2>1, <2>2, <2>3, <2>6
  <2>7. CASE x \notin Nat
    BY <1>1, <1>9, <2>1, <2>2, <2>3, <2>7
  <2> QED
    BY <2>4, <2>5, <2>6, <2>7
<1> QED
  BY <1>17, <1>18, <1>19, <1>20, <1>21

-----------------------------------------------------------------------------
(* The words of a file, and where an inode is. *)

(* The words of a file, by block and by word. *)
WordsOf(d, i, c) ==
    /\ c \in Seq(Nat) /\ Len(c) = size(i)
    /\ \A p, j \in Nat : j < BlockSize(d) /\ p * BlockSize(d) + j < size(i) =>
          c[p * BlockSize(d) + j + 1] =
             (IF BlockMap(d, i)[p + 1] = 0 THEN 0 ELSE BlockMap(d, i)[p + 1] * BlockSize(d) + j)

(* The content of a file is cut from the words of its blocks. *)
LEMMA ContentAt ==
  ASSUME NEW d \in Disks, IsExt3(d), NEW n \in DOMAIN d.by_number, NEW i, i = d.by_number[n]
  PROVE  WordsOf(d, i, Content(d, i))
<1>1. PICK bs \in Nat \ {0} : bs = BlockSize(d)
  BY InodeTyped
<1>2. PICK s \in Nat : s = size(i)
  BY InodeTyped
<1>3. PICK P \in Nat : P = PtrsPerBlock(d)
  <2>1. PtrsPerBlock(d) \in Nat
    BY PtrTyped DEF IsExt3, Pointing
  <2> QED
    BY <2>1
<1>4. PICK bm : bm = BlockMap(d, i)
  OBVIOUS
<1>5. Ranges(d, i)
  BY InodeTyped, BlockMapAt DEF IsExt3, Pointing
<1>6. bm \in Seq(Nat) /\ Len(bm) = NDIRECT + P + P * P + P * P * P
  BY <1>3, <1>4, <1>5 DEF Ranges
<1>7. PICK M \in Nat : M = Len(bm)
  BY <1>6
<1>8. s <= M * bs
  <2>1. CASE s = 0
    <3>1. M * bs \in Nat
      OBVIOUS
    <3> QED
      BY <2>1, <3>1
  <2>2. CASE s # 0
    <3>1. 0 * BlockSize(d) < size(i)
      BY <1>1, <1>2, <2>2
    <3>2. s <= (NDIRECT + P + P * P + P * P * P) * bs
      BY <1>1, <1>2, <1>3, <3>1, BlockInMap
    <3> QED
      BY <1>6, <1>7, <3>2
  <2> QED
    BY <2>1, <2>2
<1> DEFINE Ws(b) == Words(d, b)
<1>9. ASSUME NEW b \in Nat, NEW j \in Nat, j < bs
      PROVE  Ws(b)[j + 1] = IF b = 0 THEN 0 ELSE b * bs + j
  <2>1. PICK k \in 1 .. bs : k = j + 1
    BY <1>9
  <2>2. Ws(b)[k] = IF b = 0 THEN 0 ELSE b * bs + k - 1
    BY <1>1, <2>1 DEF Words
  <2>3. b * bs \in Nat
    OBVIOUS
  <2>4. b * bs + k - 1 = b * bs + j
    BY <2>1, <2>3
  <2> QED
    BY <2>1, <2>2, <2>4
<1>10. Content(d, i) = SubSeq(Concat([k \in 1 .. M |-> Ws(bm[k])], bs), 1, s)
  BY <1>1, <1>2, <1>4, <1>7 DEF Content
<1> HIDE DEF Ws
<1>11. PICK ss : ss = [k \in 1 .. M |-> Ws(bm[k])]
  OBVIOUS
<1>12. Len(ss) = M /\ \A k \in 1 .. M : ss[k] = Ws(bm[k]) /\ bm[k] \in Nat
  BY <1>6, <1>7, <1>11
<1>13. ASSUME NEW q \in 1 .. M, NEW r \in 1 .. bs PROVE ss[q][r] \in Nat
  <2>1. PICK j \in Nat : j < bs /\ r = j + 1
    BY <1>1
  <2>2. PICK b \in Nat : b = bm[q] /\ ss[q] = Ws(b)
    BY <1>12
  <2>3. ss[q][r] = IF b = 0 THEN 0 ELSE b * bs + j
    BY <1>9, <2>1, <2>2
  <2>4. b * bs + j \in Nat
    OBVIOUS
  <2> QED
    BY <2>3, <2>4
<1>14. PICK w : w = Concat(ss, bs)
  OBVIOUS
<1>15. w \in Seq(Nat) /\ Len(w) = M * bs
  BY <1>12, <1>13, <1>14, ConcatTyped
<1>16. PICK c : c = SubSeq(w, 1, s)
  OBVIOUS
<1>17. PICK N \in Nat : N = M * bs
  OBVIOUS
<1>18. c \in Seq(Nat) /\ Len(c) = s /\ \A k \in Nat : k \in 1 .. s => c[k] = w[k]
  BY <1>8, <1>15, <1>16, <1>17
<1>19. ASSUME NEW p \in Nat, NEW j \in Nat, j < bs, p * bs + j < s
       PROVE  c[p * bs + j + 1] = IF bm[p + 1] = 0 THEN 0 ELSE bm[p + 1] * bs + j
  <2>1. p < M
    <3>1. bs * p < bs * M
      BY <1>8, <1>19
    <3> QED
      BY <3>1, MulLess
  <2>2. PICK k \in Nat : k = p * bs + j + 1
    OBVIOUS
  <2>3. k \in 1 .. s
    BY <1>19, <2>2
  <2>4. c[k] = w[k]
    BY <1>18, <2>3
  <2>5. Len(ss) \in Nat /\ p < Len(ss)
    BY <1>12, <2>1
  <2>6. w[k] = ss[p + 1][j + 1]
    <3>1. PICK y : IsPlace(y, p, bs, j)
      BY DEF IsPlace
    <3>2. Concat(ss, bs)[y] = ss[p + 1][j + 1]
      BY <1>19, <2>5, <3>1, ConcatAt
    <3> QED
      BY <1>14, <2>2, <3>1, <3>2 DEF IsPlace
  <2>7. PICK b \in Nat : b = bm[p + 1] /\ ss[p + 1] = Ws(b)
    BY <1>12, <2>1
  <2>8. ss[p + 1][j + 1] = IF b = 0 THEN 0 ELSE b * bs + j
    BY <1>9, <1>19, <2>7
  <2> QED
    BY <2>2, <2>4, <2>6, <2>7, <2>8
<1>20. c = Content(d, i)
  BY <1>10, <1>11, <1>14, <1>16
<1> QED
  BY <1>1, <1>2, <1>4, <1>18, <1>19, <1>20 DEF WordsOf

(* The group descriptors come after the superblock. *)
LEMMA DescriptorBlock ==
  ASSUME disk \in Disks, SizeFits(disk)
  PROVE  bgdt_block = KB \div BlockSize(disk) + 1
<1>1. KB \in Nat \ {0} /\ U32 \in Nat \ {0} /\ BITS \in Nat \ {0} /\ DiskType(disk)
  BY Ext3Constants
<1>2. PICK k \in Nat : k = disk.sb.s_log_block_size
  BY <1>1 DEF DiskType
<1>3. PICK h \in Nat \ {0} : h = Shl[k]
  BY ShlPositive
<1>4. PICK bs \in Nat \ {0} : bs = BlockSize(disk) /\ bs = KB * h
  <2>1. PICK bs \in Nat \ {0} : bs = KB * h
    <3>1. KB * h \in Nat \ {0}
      BY <1>1
    <3> QED
      BY <3>1
  <2>2. k < BITS /\ bs < U32
    BY <1>2, <1>3, <2>1 DEF SizeFits
  <2>3. k % BITS = k /\ bs % U32 = bs
    BY <1>1, <2>1, <2>2
  <2> QED
    BY <1>2, <1>3, <2>1, <2>3 DEF BlockSize
<1>5. CASE h = 1
  <2>1. bs = KB
    BY <1>1, <1>4, <1>5
  <2>2. KB \div KB = 1
    BY <1>1, Quotient
  <2> QED
    BY <1>4, <2>1, <2>2 DEF bgdt_block, block_size
<1>6. CASE h # 1
  <2>1. PICK e \in Nat : h = 2 + e
    <3>1. h - 2 \in Nat /\ h = 2 + (h - 2)
      BY <1>6
    <3> QED
      BY <3>1
  <2>2. bs = 2 * KB + KB * e /\ KB * e \in Nat
    BY <1>1, <1>4, <2>1
  <2>3. bs > KB
    BY <1>1, <2>2
  <2>4. KB \div bs = 0
    <3>1. bs * 0 <= KB /\ KB < bs * 0 + bs
      BY <1>1, <2>3
    <3> QED
      BY <1>1, <3>1, Quotient
  <2> QED
    BY <1>4, <2>3, <2>4 DEF bgdt_block, block_size
<1> QED
  BY <1>5, <1>6

(* read_inode() finds the inode that has the number. *)
LEMMA InodeFound ==
  ASSUME disk \in Disks, IsExt3(disk), NEW n \in DOMAIN disk.by_number
  PROVE  InodeAt(BgdAt(bgd_offset(n)) * block_size + index(n) * inode_size) = disk.by_number[n]
<1>1. DiskType(disk) /\ INODE \in Nat \ {0} /\ KB \in Nat \ {0} /\ BGD \in Nat
  BY Ext3Constants
<1>2. PICK bs \in Nat \ {0} : bs = BlockSize(disk)
  BY InodeTyped
<1>3. PICK g \in Nat \ {0} : g = disk.sb.s_inodes_per_group
  <2>1. PICK g \in Nat : g = disk.sb.s_inodes_per_group
    BY <1>1 DEF DiskType
  <2>2. \E k : k \in 0 .. g - 1
    BY <2>1, Zenon DEF IsExt3, InodesPlaced
  <2> QED
    BY <2>1, <2>2
<1>4. PICK isize : isize = IF disk.sb.s_rev_level = 0 THEN INODE ELSE disk.sb.s_inode_size
  OBVIOUS
<1>5. inode_size = isize
  <2>1. isize > 0
    BY <1>4, Zenon DEF IsExt3, InodesPlaced
  <2>2. disk.sb.s_rev_level \in Nat /\ disk.sb.s_inode_size \in Nat
    BY <1>1 DEF DiskType
  <2> QED
    BY <1>1, <1>4, <2>1, <2>2 DEF inode_size
<1>6. PICK gdt : gdt = (KB \div BlockSize(disk) + 1) * BlockSize(disk)
  OBVIOUS
<1>7. n \in Nat \ {0}
  BY InodeTyped
<1>8. PICK a \in 0 .. n, k \in 0 .. g - 1 :
         /\ n = a * g + k + 1
         /\ gdt + a * BGD \in DOMAIN disk.bgd
         /\ disk.bgd[gdt + a * BGD] * BlockSize(disk) + k * isize \in DOMAIN disk.inode
         /\ disk.by_number[n] = disk.inode[disk.bgd[gdt + a * BGD] * BlockSize(disk) + k * isize]
  BY <1>3, <1>4, <1>6, Zenon DEF IsExt3, InodesPlaced
<1>9. a \in Nat /\ k \in Nat /\ k < g
  BY <1>3, <1>7, <1>8
<1>10. (n - 1) \div g = a /\ (n - 1) % g = k
  <2>1. PICK v \in Nat : v = n - 1 /\ v = g * a + k
    BY <1>8, <1>9
  <2>2. v \div g = a
    BY <1>9, <2>1, Quotient
  <2>3. v % g = k
    BY <1>9, <2>1, <2>2
  <2> QED
    BY <2>1, <2>2, <2>3
<1>11. group(n) = a /\ index(n) = k
  BY <1>3, <1>10 DEF group, index
<1>12. bgd_offset(n) = gdt + a * BGD
  BY <1>6, <1>11, DescriptorBlock DEF bgd_offset, block_size, IsExt3
<1>13. PICK t : t = disk.bgd[gdt + a * BGD]
  OBVIOUS
<1>14. BgdAt(bgd_offset(n)) = t
  BY <1>8, <1>12, <1>13 DEF BgdAt
<1>15. PICK o : o = t * BlockSize(disk) + k * isize
  OBVIOUS
<1>16. o \in DOMAIN disk.inode /\ disk.by_number[n] = disk.inode[o]
  BY <1>8, <1>13, <1>15
<1>17. BgdAt(bgd_offset(n)) * block_size + index(n) * inode_size = o
  BY <1>5, <1>11, <1>14, <1>15 DEF block_size
<1> QED
  BY <1>16, <1>17 DEF InodeAt

-----------------------------------------------------------------------------
(* The driver: what is known of the answer at each label. *)

(* The labels of a call in progress. *)
Calling == {"resolve", "read_inode", "inode", "use_inode", "block", "walk", "scan"}

(* A call has come to the inode that the components before rest lead to. *)
CallType == [op : {"read_file", "exists", "list_dir"}, path : Paths, rest : Seq(STRING), ino : Nat]

Depth(c) == Len(c.path) - Len(c.rest)

OnPath(d, c) ==
    /\ c \in CallType /\ Len(c.rest) <= Len(c.path)
    /\ \A j \in 1 .. Len(c.rest) : c.rest[j] = c.path[Depth(c) + j]
    /\ c.ino = Visited(d, c.path)[Depth(c)]
    /\ c.ino \in DOMAIN d.by_number

(* What is left of the path starts with a name, or the inode is wanted. *)
AtName(c) == IF c.rest = <<>> THEN c.op # "exists" ELSE Head(c.rest) \notin {"", "."}

FaultType(f) == f \in [any : BOOLEAN, ptr : BOOLEAN] /\ (f.ptr => f.any)

(* The first n words of the buffer are those of the file, or zero where a   *)
(* block pointer could not be read.                                         *)
RightTo(d, i, b, f, n) ==
    \A k \in Nat : k < size(i) /\ k < n =>
        k \in DOMAIN b /\ (b[k] = Content(d, i)[k + 1] \/ (f.ptr /\ b[k] = 0))

(* The walk ends in the block that the block map has, or at a pointer that  *)
(* could not be read.                                                       *)
WalkTo(d, i, w, f, p) ==
    /\ w.ptr \in Nat /\ w.idx \in Seq(Nat) /\ Len(w.idx) <= 3
    /\ (f.ptr /\ w.ptr = 0) \/ Follow(d, w.ptr, w.idx) = BlockMap(d, i)[p + 1]

(* The scan is at an entry or at the end; no entry before has the name, or  *)
(* all before were reported.                                                *)
ScanTo(es, c, o, p) ==
    /\ p \in Nat /\ p <= Len(es) /\ (p < Len(es) => es[p + 1].live)
    /\ c.rest # <<>> => o = <<>> /\ \A k \in 1 .. p : InUse(es[k]) => es[k].name # Head(c.rest)
    /\ c.rest = <<>> => o = ListedTo(es)[p]

FormatInv ==
    IsExt3(disk) =>
        /\ pc \notin {"scan", "done"} => out = <<>>
        /\ pc \in Calling => OnPath(disk, call) /\ FaultType(faults)
        /\ pc \in Calling \ {"resolve"} => AtName(call)
        /\ pc = "inode" => table = BgdAt(bgd_offset(call.ino))
        /\ pc \in {"use_inode", "block", "walk", "scan"} => inode = disk.by_number[call.ino]
        /\ pc \in {"block", "walk", "scan"} => inode.i_mode = Wanted /\ size(inode) > 0
        /\ pc \in {"block", "walk"} => RightTo(disk, inode, buf, faults, pos * block_size)
        /\ pc = "walk" => WalkTo(disk, inode, walk, faults, pos)
        /\ pc = "scan" => /\ RightTo(disk, inode, buf, faults, size(inode))
                          /\ ScanTo(DirEntries(disk, inode), call, out, pos)

(* What the calls promise when they end. *)
Answers == ReadFileCorrect /\ LookupCorrect

(* With nothing left of the path, the inode at hand is the one it names;    *)
(* with a name left, the path goes on with the lookup of that name.         *)
LEMMA PathFacts ==
  ASSUME disk \in Disks, IsExt3(disk), OnPath(disk, call)
  PROVE  /\ call.rest = <<>> => Resolved(disk, call.path) = call.ino
         /\ call.ino # 0
         /\ call.path \in Seq(STRING) /\ call.rest \in Seq(STRING)
         /\ call.rest # <<>> =>
               /\ Depth(call) + 1 \in 1 .. Len(call.path)
               /\ Visited(disk, call.path)[Depth(call) + 1] =
                     IF Head(call.rest) \in {"", "."} THEN call.ino
                     ELSE LookupIn(disk, disk.by_number[call.ino], Head(call.rest))
<1>1. PICK c : c = call
  OBVIOUS
<1>2. /\ c \in CallType /\ c.path \in Seq(STRING) /\ c.rest \in Seq(STRING)
      /\ Len(c.rest) <= Len(c.path)
  BY <1>1, Ext3Constants DEF OnPath, CallType
<1>3. PICK p \in Seq(STRING) : p = c.path
  BY <1>2
<1>4. PICK r \in Seq(STRING) : r = c.rest
  BY <1>2
<1>5. PICK k \in Nat : k = Len(p) - Len(r)
  <2>1. Len(p) \in Nat /\ Len(r) \in Nat /\ Len(r) <= Len(p)
    BY <1>2, <1>3, <1>4
  <2>2. Len(p) - Len(r) \in Nat
    BY <2>1
  <2> QED
    BY <2>2
<1>6. Depth(c) = k
  BY <1>3, <1>4, <1>5 DEF Depth
<1>7. PICK at : at = Visited(disk, p)
  OBVIOUS
<1>8. at[k] = c.ino /\ c.ino \in DOMAIN disk.by_number
  BY <1>1, <1>3, <1>6, <1>7 DEF OnPath
<1>9. c.ino # 0
  BY <1>8 DEF IsExt3, InodesPlaced
<1>10. ASSUME r = <<>> PROVE Resolved(disk, p) = c.ino
  <2>1. k = Len(p)
    BY <1>5, <1>10
  <2> QED
    BY <1>7, <1>8, <2>1 DEF Resolved
<1>11. ASSUME r # <<>>
       PROVE  /\ k + 1 \in 1 .. Len(p)
              /\ at[k + 1] = IF Head(r) \in {"", "."} THEN c.ino
                             ELSE LookupIn(disk, disk.by_number[c.ino], Head(r))
  <2>1. Len(r) >= 1 /\ Head(r) = r[1]
    BY <1>11
  <2>2. k + 1 \in 1 .. Len(p) /\ (k + 1) - 1 = k
    <3>1. PICK x, y \in Nat : x = Len(p) /\ y = Len(r)
      OBVIOUS
    <3> QED
      BY <1>5, <2>1, <3>1
  <2>3. PICK j \in 1 .. Len(p) : j = k + 1 /\ j - 1 = k
    BY <2>2
  <2>4. r[1] = p[k + 1]
    BY <1>1, <1>3, <1>4, <1>6, <2>1 DEF OnPath
  <2>5. at[j] = IF p[j] \in {"", "."} \/ at[j - 1] = 0 THEN at[j - 1]
                ELSE LookupIn(disk, disk.by_number[at[j - 1]], p[j])
    BY <1>7, VisitedFacts
  <2> QED
    BY <1>8, <1>9, <2>1, <2>3, <2>4, <2>5
<1> QED
  BY <1>1, <1>2, <1>3, <1>4, <1>6, <1>7, <1>9, <1>10, <1>11

(* A component is done with. *)
LEMMA PathGoesOn ==
  ASSUME disk \in Disks, IsExt3(disk), OnPath(disk, call), call.rest # <<>>,
         NEW m \in DOMAIN disk.by_number, m = Visited(disk, call.path)[Depth(call) + 1],
         NEW c, c = [call EXCEPT !.ino = m, !.rest = Tail(@)]
  PROVE  OnPath(disk, c)
<1>1. call \in CallType /\ call.path \in Seq(STRING) /\ call.rest \in Seq(STRING)
  BY PathFacts DEF OnPath
<1>2. m \in Nat
  BY InodeTyped
<1>3. PICK p \in Seq(STRING) : p = call.path
  BY <1>1
<1>4. PICK r \in Seq(STRING) : r = call.rest
  BY <1>1
<1>5. /\ c \in CallType /\ c.path = p /\ c.rest = Tail(r) /\ c.ino = m
  <2>1. Tail(r) \in Seq(STRING)
    <3>1. r # <<>>
      BY <1>4
    <3> QED
      BY <3>1
  <2> QED
    BY <1>1, <1>2, <1>3, <1>4, <2>1 DEF CallType
<1>6. Len(r) >= 1 /\ Len(Tail(r)) = Len(r) - 1 /\ \A j \in 1 .. Len(Tail(r)) : Tail(r)[j] = r[j + 1]
  BY <1>4
<1>7. PICK x, y \in Nat : x = Len(p) /\ y = Len(r)
  OBVIOUS
<1>8. y <= x
  BY <1>3, <1>4, <1>7 DEF OnPath
<1>9. PICK k \in Nat : k = Len(p) - Len(r) /\ Depth(call) = k
  <2>1. x - y \in Nat
    BY <1>8
  <2>2. Depth(call) = x - y
    BY <1>3, <1>4, <1>7 DEF Depth
  <2> QED
    BY <1>7, <2>1, <2>2
<1>10. Depth(c) = k + 1
  <2>1. Depth(c) = x - (y - 1)
    BY <1>5, <1>6, <1>7 DEF Depth
  <2> QED
    BY <1>9, <1>7, <2>1
<1>11. Len(c.rest) <= Len(c.path)
  BY <1>5, <1>6, <1>9
<1>12. ASSUME NEW j \in 1 .. Len(c.rest) PROVE c.rest[j] = c.path[Depth(c) + j]
  <2>1. PICK q \in 1 .. Len(r) : q = j + 1
    BY <1>5, <1>6
  <2>2. r[q] = p[k + q]
    BY <1>3, <1>4, <1>9, <2>1 DEF OnPath
  <2>3. k + q = (k + 1) + j
    BY <2>1
  <2> QED
    BY <1>5, <1>6, <1>10, <2>1, <2>2, <2>3
<1> QED
  BY <1>3, <1>5, <1>9, <1>10, <1>11, <1>12 DEF OnPath

(* A name that is not found is the end of the path. *)
LEMMA NotFound ==
  ASSUME disk \in Disks, IsExt3(disk), OnPath(disk, call), AtName(call), call.rest # <<>>,
         LookupIn(disk, disk.by_number[call.ino], Head(call.rest)) = 0
  PROVE  Resolved(disk, call.path) = 0
<1>1. PICK p \in Seq(STRING) : p = call.path
  BY PathFacts
<1>2. PICK k \in 1 .. Len(p) : k = Depth(call) + 1
  BY <1>1, PathFacts
<1>3. Visited(disk, p)[k] = 0
  BY <1>1, <1>2, PathFacts DEF AtName
<1> QED
  BY <1>1, <1>2, <1>3, Lost

(* A call that fails answers right when something failed, or when there is  *)
(* nothing to answer.                                                       *)
LEMMA FailsRight ==
  ASSUME disk \in Disks, NEW freed, NEW fault \in BOOLEAN, Fails(freed, fault),
         IsExt3(disk) =>
            /\ FaultType(faults)
            /\ \/ fault
               \/ faults.any
               \/ Resolved(disk, call.path) = 0
               \/ /\ Resolved(disk, call.path) = call.ino /\ call.op # "exists"
                  /\ call.op = "read_file" /\ disk.by_number[call.ino].i_mode = "file" =>
                        size(disk.by_number[call.ino]) = 0
  PROVE  FormatInv' /\ Answers'
<1>1. /\ pc' = "done" /\ res' = FALSE /\ UNCHANGED <<disk, call>>
      /\ faults' = [faults EXCEPT !.any = @ \/ fault]
  BY DEF Fails, Ends
<1>2. FormatInv'
  BY <1>1 DEF FormatInv, Calling
<1>3. CASE ~IsExt3(disk)
  <2>1. ~IsExt3(disk')
    BY <1>1, <1>3
  <2> QED
    BY <1>2, <2>1 DEF Answers, ReadFileCorrect, LookupCorrect
<1>4. CASE IsExt3(disk)
  <2>1. FaultType(faults)
    BY <1>4
  <2>2. fault \/ faults.any => faults'.any
    BY <1>1, <2>1 DEF FaultType
  <2>3. PICK n : n = Resolved(disk, call.path)
    OBVIOUS
  <2>4. Resolved(disk, call.path)' = n
    BY <1>1, <2>3
  <2>5. \/ faults'.any
        \/ n = 0
        \/ /\ n = call.ino /\ call.op # "exists"
           /\ call.op = "read_file" /\ disk.by_number[n].i_mode = "file" =>
                 size(disk.by_number[n]) = 0
    BY <1>4, <2>2, <2>3
  <2>6. size(disk.by_number[n])' = size(disk.by_number[n])
    BY <1>1
  <2>7. ReadFileCorrect'
    <3>1. IsFile(disk', n) /\ size(disk'.by_number[n]) > 0 /\ call'.op = "read_file" => faults'.any
      BY <1>1, <2>5 DEF IsFile
    <3> QED
      BY <1>1, <2>3, <2>4, <3>1 DEF ReadFileCorrect
  <2>8. LookupCorrect'
    BY <1>1, <2>3, <2>4, <2>5 DEF LookupCorrect
  <2> QED
    BY <1>2, <2>7, <2>8 DEF Answers
<1> QED
  BY <1>3, <1>4

(* A panic answers nothing. *)
LEMMA PanicQuiet ==
  ASSUME FormatInv, pc \notin {"scan", "done"}, pc' = "panic", UNCHANGED <<disk, out>>
  PROVE  FormatInv' /\ Answers'
BY DEF FormatInv, Calling, Answers, ReadFileCorrect, LookupCorrect

(* Outside a call there is nothing to show. *)
LEMMA QuietSteps ==
  ASSUME LeakInv, FormatInv, Mount \/ ReadSuperblock \/ Drop \/ Return
  PROVE  FormatInv' /\ Answers'
<1>1. pc' \notin Calling \cup {"done"} /\ disk' = disk
  BY DEF Mount, ReadSuperblock, Drop, Return, Calling
<1>2. out' = <<>> \/ ~IsExt3(disk)
  <2>1. CASE Mount \/ ReadSuperblock \/ Drop
    BY <2>1 DEF Mount, ReadSuperblock, Drop, local, FormatInv
  <2>2. CASE Return
    BY <2>2 DEF Return
  <2> QED
    BY <2>1, <2>2
<1>3. FormatInv'
  BY <1>1, <1>2 DEF FormatInv, Calling
<1> QED
  BY <1>1, <1>3 DEF Answers, ReadFileCorrect, LookupCorrect

(* A call starts at the root. *)
LEMMA CallStep ==
  ASSUME LeakInv, FormatInv, NEW op \in {"read_file", "exists", "list_dir"}, NEW p \in Paths,
         Call(op, p)
  PROVE  FormatInv' /\ Answers'
<1>1. /\ pc = "idle" /\ pc' = "resolve" /\ disk' = disk /\ out' = out
      /\ faults' = NoFault /\ call' = [op |-> op, path |-> p, rest |-> p, ino |-> ROOT_INO]
  BY DEF Call, local
<1>2. p \in Seq(STRING) /\ disk \in Disks
  BY Ext3Constants DEF LeakInv, PointersInv
<1>3. ASSUME IsExt3(disk) PROVE OnPath(disk, call') /\ FaultType(faults') /\ out' = <<>>
  <2>1. PICK c : c = call'
    OBVIOUS
  <2>2. c \in CallType /\ c.path = p /\ c.rest = p /\ c.ino = ROOT_INO
    BY <1>1, <1>2, <2>1 DEF CallType, ROOT_INO
  <2>3. Depth(c) = 0
    <3>1. PICK x \in Nat : x = Len(p)
      BY <1>2
    <3> QED
      BY <2>2, <3>1 DEF Depth
  <2>4. Visited(disk, p)[0] = ROOT_INO
    BY <1>2, <1>3, VisitedFacts
  <2>5. \A j \in 1 .. Len(p) : 0 + j = j
    BY <1>2
  <2>6. OnPath(disk, c)
    BY <1>2, <1>3, <2>2, <2>3, <2>4, <2>5 DEF OnPath, IsExt3
  <2> QED
    BY <1>1, <1>3, <2>1, <2>6 DEF FaultType, NoFault, FormatInv
<1>4. FormatInv'
  BY <1>1, <1>3 DEF FormatInv
<1> QED
  BY <1>1, <1>4 DEF Answers, ReadFileCorrect, LookupCorrect

(* The components that are skipped, and exists() at the end of the path. *)
LEMMA ResolveStep ==
  ASSUME LeakInv, FormatInv, ResolvePath
  PROVE  FormatInv' /\ Answers'
<1>1. pc = "resolve" /\ disk \in Disks /\ UNCHANGED <<disk, out, faults>>
  BY DEF ResolvePath, LeakInv, PointersInv
<1>2. IsExt3(disk) => OnPath(disk, call) /\ FaultType(faults) /\ out = <<>>
  BY <1>1 DEF FormatInv, Calling
<1>3. CASE /\ call.rest # <<>> /\ Head(call.rest) \in {"", "."}
           /\ call' = [call EXCEPT !.rest = Tail(@)] /\ pc' = pc
  <2>1. ASSUME IsExt3(disk) PROVE OnPath(disk, call')
    <3>1. OnPath(disk, call)
      BY <1>2, <2>1
    <3>2. call.ino = Visited(disk, call.path)[Depth(call) + 1]
      BY <1>1, <1>3, <2>1, <3>1, PathFacts
    <3>3. call.ino \in DOMAIN disk.by_number /\ call \in CallType
      BY <3>1 DEF OnPath
    <3>4. call' = [call EXCEPT !.ino = call.ino, !.rest = Tail(@)]
      BY <1>3, <3>3 DEF CallType
    <3> QED
      BY <1>1, <1>3, <2>1, <3>1, <3>2, <3>3, <3>4, PathGoesOn
  <2>2. FormatInv'
    BY <1>1, <1>2, <1>3, <2>1 DEF FormatInv
  <2> QED
    BY <1>1, <1>3, <2>2 DEF Answers, ReadFileCorrect, LookupCorrect
<1>4. CASE /\ call.rest = <<>> => call.op # "exists"
           /\ call.rest # <<>> => Head(call.rest) \notin {"", "."}
           /\ pc' = "read_inode" /\ call' = call
  <2>1. AtName(call')
    BY <1>4 DEF AtName
  <2>2. FormatInv'
    BY <1>1, <1>2, <1>4, <2>1 DEF FormatInv
  <2> QED
    BY <1>4, <2>2 DEF Answers, ReadFileCorrect, LookupCorrect
<1>5. CASE call.rest = <<>> /\ call.op = "exists" /\ Ends(TRUE, {}) /\ call' = call
  <2>1. pc' = "done" /\ res' = TRUE
    BY <1>5 DEF Ends
  <2>2. FormatInv'
    BY <2>1 DEF FormatInv, Calling
  <2>3. IsExt3(disk) => Resolved(disk, call.path) # 0
    BY <1>1, <1>2, <1>5, PathFacts
  <2>4. PICK n : n = Resolved(disk, call.path) /\ n = Resolved(disk, call.path)'
    BY <1>1, <1>5
  <2> QED
    BY <1>1, <1>5, <2>1, <2>2, <2>3, <2>4 DEF Answers, ReadFileCorrect, LookupCorrect
<1> QED
  BY <1>3, <1>4, <1>5 DEF ResolvePath

(* read_inode() up to kmalloc: 0 is the number of no inode that a path of   *)
(* the file system leads to.                                                *)
LEMMA BgdStep ==
  ASSUME LeakInv, FormatInv, ReadBgd
  PROVE  FormatInv' /\ Answers'
<1>1. pc = "read_inode" /\ disk \in Disks
  BY DEF ReadBgd, LeakInv, PointersInv
<1>2. IsExt3(disk) => OnPath(disk, call) /\ AtName(call) /\ FaultType(faults) /\ out = <<>>
  BY <1>1 DEF FormatInv, Calling
<1>3. CASE Fails({}, call.ino # 0)
  <2>1. IsExt3(disk) => call.ino # 0
    BY <1>1, <1>2, PathFacts
  <2>2. PICK f \in BOOLEAN : f = (call.ino # 0)
    OBVIOUS
  <2>3. Fails({}, f)
    BY <1>3, <2>2
  <2> QED
    BY <1>1, <1>2, <2>1, <2>2, <2>3, FailsRight
<1>4. CASE pc' = "inode" /\ ~Fails({}, call.ino # 0)
  <2>1. /\ table' = BgdAt(bgd_offset(call.ino)) /\ pc' = "inode"
        /\ UNCHANGED <<disk, call, out, faults>>
    BY <1>4 DEF ReadBgd
  <2>2. table' = BgdAt(bgd_offset(call.ino))'
    BY <2>1 DEF BgdAt, bgd_offset, bgdt_block, block_size, group
  <2>3. FormatInv'
    BY <1>2, <2>1, <2>2 DEF FormatInv
  <2> QED
    BY <2>1, <2>3 DEF Answers, ReadFileCorrect, LookupCorrect
<1>5. CASE pc' = "panic" /\ UNCHANGED <<disk, out>>
  BY <1>1, <1>5, PanicQuiet
<1> QED
  BY <1>3, <1>4, <1>5 DEF ReadBgd, local

(* The inode that is read is the one that has the number. *)
LEMMA InodeStep ==
  ASSUME LeakInv, FormatInv, ReadInode
  PROVE  FormatInv' /\ Answers'
<1>1. pc = "inode" /\ disk \in Disks
  BY DEF ReadInode, LeakInv, PointersInv
<1>2. IsExt3(disk) =>
         /\ OnPath(disk, call) /\ AtName(call) /\ FaultType(faults) /\ out = <<>>
         /\ table = BgdAt(bgd_offset(call.ino))
  BY <1>1 DEF FormatInv, Calling
<1>3. CASE Fails(FreeInode, TRUE)
  BY <1>1, <1>2, <1>3, FailsRight
<1>4. CASE ~Fails(FreeInode, TRUE)
  <2>1. /\ inode' = InodeAt(table * block_size + index(call.ino) * inode_size)
        /\ pc' = "use_inode" /\ UNCHANGED <<disk, call, out, faults>>
    BY <1>4 DEF ReadInode
  <2>2. IsExt3(disk) => inode' = disk.by_number[call.ino]
    <3> SUFFICES ASSUME IsExt3(disk) PROVE inode' = disk.by_number[call.ino]
      OBVIOUS
    <3>1. PICK n \in DOMAIN disk.by_number : n = call.ino
      BY <1>2 DEF OnPath
    <3>2. InodeAt(BgdAt(bgd_offset(n)) * block_size + index(n) * inode_size) = disk.by_number[n]
      BY <1>1, InodeFound
    <3> QED
      BY <1>2, <2>1, <3>1, <3>2
  <2>3. FormatInv'
    BY <1>2, <2>1, <2>2 DEF FormatInv
  <2> QED
    BY <2>1, <2>3 DEF Answers, ReadFileCorrect, LookupCorrect
<1> QED
  BY <1>3, <1>4

(* An inode of the wrong kind, or with nothing in it, ends the path. *)
LEMMA NothingThere ==
  ASSUME disk \in Disks, IsExt3(disk), OnPath(disk, call), AtName(call),
         inode = disk.by_number[call.ino],
         inode.i_mode # Wanted \/ size(inode) = 0
  PROVE  \/ Resolved(disk, call.path) = 0
         \/ /\ Resolved(disk, call.path) = call.ino /\ call.op # "exists"
            /\ call.op = "read_file" /\ disk.by_number[call.ino].i_mode = "file" =>
                  size(disk.by_number[call.ino]) = 0
<1>1. CASE call.rest = <<>>
  <2>1. Resolved(disk, call.path) = call.ino /\ call.op # "exists"
    BY <1>1, PathFacts DEF AtName
  <2>2. call.op = "read_file" => Wanted = "file"
    BY <1>1 DEF Wanted
  <2> QED
    BY <2>1, <2>2
<1>2. CASE call.rest # <<>>
  <2>1. PICK n \in DOMAIN disk.by_number : n = call.ino
    BY DEF OnPath
  <2>2. Wanted = "dir"
    BY <1>2 DEF Wanted
  <2>3. PICK name : name = Head(call.rest)
    OBVIOUS
  <2>4. PICK es : es = DirEntries(disk, inode)
    OBVIOUS
  <2>5. inode.i_mode # "dir" => LookupIn(disk, inode, name) = 0
    BY <2>1, <2>4, LookupFacts
  <2>6. (\A k \in 1 .. size(inode) : InUse(es[k]) => es[k].name # name)
           => LookupIn(disk, inode, name) = 0
    BY <2>1, <2>4, LookupFacts
  <2>7. LookupIn(disk, inode, name) = 0
    BY <2>2, <2>5, <2>6
  <2> QED
    BY <1>2, <2>3, <2>7, NotFound
<1> QED
  BY <1>1, <1>2

(* The mode is checked and the buffer allocated. *)
LEMMA AllocStep ==
  ASSUME LeakInv, FormatInv, AllocData
  PROVE  FormatInv' /\ Answers'
<1>1. pc = "use_inode" /\ disk \in Disks /\ size(inode) \in Nat
  BY DEF AllocData, LeakInv, PointersInv
<1>2. IsExt3(disk) =>
         /\ OnPath(disk, call) /\ AtName(call) /\ FaultType(faults) /\ out = <<>>
         /\ inode = disk.by_number[call.ino]
  BY <1>1 DEF FormatInv, Calling
<1>3. ASSUME NEW f \in BOOLEAN, Fails(FreeInode, f),
             ~f => inode.i_mode # Wanted \/ size(inode) = 0
      PROVE  FormatInv' /\ Answers'
  <2>1. IsExt3(disk) /\ ~f =>
           \/ Resolved(disk, call.path) = 0
           \/ /\ Resolved(disk, call.path) = call.ino /\ call.op # "exists"
              /\ call.op = "read_file" /\ disk.by_number[call.ino].i_mode = "file" =>
                    size(disk.by_number[call.ino]) = 0
    BY <1>1, <1>2, <1>3, NothingThere
  <2> QED
    BY <1>1, <1>2, <1>3, <2>1, FailsRight
<1>4. CASE inode.i_mode # Wanted /\ Fails(FreeInode, FALSE)
  BY <1>3, <1>4
<1>5. CASE inode.i_mode = Wanted /\ Fails(FreeInode, size(inode) > 0)
  <2>1. CASE size(inode) > 0
    <3>1. Fails(FreeInode, TRUE)
      BY <1>5, <2>1 DEF Fails
    <3> QED
      BY <1>3, <3>1
  <2>2. CASE ~(size(inode) > 0)
    <3>1. Fails(FreeInode, FALSE)
      BY <1>5, <2>2 DEF Fails
    <3>2. size(inode) = 0
      BY <1>1, <2>2
    <3> QED
      BY <1>3, <3>1, <3>2
  <2> QED
    BY <2>1, <2>2
<1>6. CASE /\ inode.i_mode = Wanted /\ size(inode) > 0
           /\ pos' = 0 /\ pc' = "block"
           /\ UNCHANGED <<disk, call, inode, out, faults>>
  <2>1. /\ inode'.i_mode = Wanted' /\ size(inode)' > 0
    BY <1>6 DEF Wanted
  <2>2. block_size' \in Nat
    <3>1. block_size' = block_size
      BY <1>6 DEF block_size
    <3>2. block_size \in Nat
      BY <1>1, Ext3Constants DEF DiskType, block_size
    <3> QED
      BY <3>1, <3>2
  <2>3. (pos * block_size)' = 0
    <3>1. PICK b \in Nat : b = block_size'
      BY <2>2
    <3>2. 0 * b = 0
      OBVIOUS
    <3> QED
      BY <1>6, <3>1, <3>2
  <2>4. RightTo(disk', inode', buf', faults', 0)
    BY DEF RightTo
  <2>5. FormatInv'
    BY <1>2, <1>6, <2>1, <2>3, <2>4 DEF FormatInv
  <2> QED
    BY <1>6, <2>5 DEF Answers, ReadFileCorrect, LookupCorrect
<1>7. CASE pc' = "panic" /\ UNCHANGED <<disk, out>>
  BY <1>1, <1>7, PanicQuiet
<1> QED
  BY <1>4, <1>5, <1>6, <1>7 DEF AllocData

(* What the invariants say while blocks are read. *)
LEMMA BlockFacts ==
  ASSUME LeakInv, BufferInv, FormatInv, pc \in {"block", "walk"}
  PROVE  /\ disk \in Disks /\ data # Nil /\ data.size = size(inode)
         /\ block_size \in Nat \ {0} /\ block_size = BlockSize(disk)
         /\ size(inode) \in Nat /\ pos \in Nat
         /\ pos < blocks_needed => pos * block_size < size(inode)
         /\ size(inode) <= blocks_needed * block_size
         /\ IsExt3(disk) =>
               /\ OnPath(disk, call) /\ AtName(call) /\ FaultType(faults) /\ out = <<>>
               /\ call.ino \in DOMAIN disk.by_number /\ inode = disk.by_number[call.ino]
               /\ inode.i_mode = Wanted /\ size(inode) > 0
               /\ RightTo(disk, inode, buf, faults, pos * block_size)
<1>1. disk \in Disks /\ data # Nil /\ data.size = size(inode)
  BY DEF LeakInv, PointersInv, HasData
<1>2. block_size \in Nat \ {0} /\ block_size = BlockSize(disk)
  BY <1>1, Ext3Constants DEF DiskType, block_size, BufferInv
<1>3. size(inode) \in Nat /\ pos \in Nat
  BY <1>1 DEF BufferInv
<1>4. pos < blocks_needed => pos * block_size < size(inode)
  BY <1>2, <1>3, BlockArithmetic DEF blocks_needed
<1>5. size(inode) <= blocks_needed * block_size
  BY <1>2, <1>3, RoundUp DEF blocks_needed
<1>6. ASSUME IsExt3(disk)
      PROVE  /\ OnPath(disk, call) /\ AtName(call) /\ FaultType(faults) /\ out = <<>>
             /\ inode = disk.by_number[call.ino] /\ inode.i_mode = Wanted /\ size(inode) > 0
             /\ RightTo(disk, inode, buf, faults, pos * block_size)
  BY <1>6 DEF FormatInv, Calling
<1>7. IsExt3(disk) => call.ino \in DOMAIN disk.by_number
  BY <1>6 DEF OnPath
<1> QED
  BY <1>1, <1>2, <1>3, <1>4, <1>5, <1>6, <1>7

(* The route of the next block; what is known stays known. *)
LEMMA NextBlockWalks ==
  ASSUME LeakInv, BufferInv, FormatInv, NextBlock, pos < blocks_needed, pc' = "walk"
  PROVE  FormatInv' /\ Answers'
<1>1. pc = "block" /\ UNCHANGED <<disk, call, inode, buf, out, faults>>
  BY DEF NextBlock
<1>2. PICK r : r = Route(pos % U32)
  OBVIOUS
<1>3. /\ pos' = pos
      /\ walk' = IF r = <<>> THEN [ptr |-> 0, idx |-> <<>>]
                 ELSE [ptr |-> inode.i_block[Head(r)], idx |-> Tail(r)]
  BY <1>2 DEF NextBlock, Ends
<1>4. ASSUME IsExt3(disk) PROVE WalkTo(disk, inode, walk', faults, pos)
  <2>1. PICK n \in DOMAIN disk.by_number : n = call.ino
    BY <1>1, <1>4, BlockFacts
  <2>2. /\ disk \in Disks /\ inode = disk.by_number[n] /\ pos \in Nat
        /\ pos * block_size < size(inode)
    BY <1>1, <1>4, <2>1, BlockFacts
  <2>3. PICK x \in 0 .. NDIRECT + 2 :
            Leads(disk, r, x, inode.i_block[x], BlockMap(disk, inode)[pos + 1])
    BY <1>2, <1>4, <2>2, RouteFollows
  <2>4. inode.i_block[x] \in Nat
    BY <1>4, <2>2, InodeTyped
  <2>5. walk' = [ptr |-> inode.i_block[x], idx |-> Tail(r)]
    BY <1>3, <2>3 DEF Leads
  <2>6. walk'.ptr = inode.i_block[x] /\ walk'.idx = Tail(r)
    BY <2>5
  <2> QED
    BY <2>3, <2>4, <2>6 DEF WalkTo, Leads
<1>5. block_size' = block_size /\ size(inode)' = size(inode) /\ Wanted' = Wanted
  BY <1>1 DEF block_size, Wanted
<1>6. (pos * block_size)' = pos * block_size
  BY <1>3, <1>5
<1>7. FormatInv'
  BY <1>1, <1>3, <1>4, <1>5, <1>6, BlockFacts DEF FormatInv
<1> QED
  BY <1>7 DEF Answers, ReadFileCorrect, LookupCorrect

(* The words of all the blocks are the words of the file. *)
LEMMA AllRight ==
  ASSUME LeakInv, BufferInv, FormatInv, pc = "block", pos = blocks_needed, IsExt3(disk)
  PROVE  RightTo(disk, inode, buf, faults, size(inode))
<1>1. PICK N : N = pos * block_size
  OBVIOUS
<1>2. N \in Nat /\ size(inode) \in Nat /\ size(inode) <= N /\ RightTo(disk, inode, buf, faults, N)
  <2>1. PICK a \in Nat, b \in Nat : a = pos /\ b = block_size
    BY BlockFacts
  <2>2. a * b \in Nat
    OBVIOUS
  <2> QED
    BY <1>1, <2>1, <2>2, BlockFacts
<1> QED
  BY <1>2 DEF RightTo

(* The directory's first entry is at its start. *)
LEMMA NextBlockScans ==
  ASSUME LeakInv, BufferInv, FormatInv, NextBlock, pos = blocks_needed, Wanted = "dir",
         pos' = 0, pc' = "scan"
  PROVE  FormatInv' /\ Answers'
<1>1. pc = "block" /\ UNCHANGED <<disk, call, inode, buf, out, faults>>
  BY DEF NextBlock
<1>2. ASSUME IsExt3(disk) PROVE ScanTo(DirEntries(disk, inode), call, out, 0)
  <2>1. PICK n \in DOMAIN disk.by_number : n = call.ino
    BY <1>1, <1>2, BlockFacts
  <2>2. /\ disk \in Disks /\ inode = disk.by_number[n] /\ inode.i_mode = "dir" /\ out = <<>>
        /\ size(inode) \in Nat /\ size(inode) > 0
    BY <1>1, <1>2, <2>1, BlockFacts
  <2>3. PICK es : es = DirEntries(disk, inode)
    OBVIOUS
  <2>4. EntrySeq(es) /\ Len(es) = size(inode)
    BY <2>2, <2>3, EntriesTyped
  <2>5. EntriesChained(disk, es)
    BY <1>2, <2>2, <2>3 DEF IsExt3
  <2>6. es # <<>>
    BY <2>2, <2>4
  <2>7. es[1].live
    BY <2>5, <2>6 DEF EntriesChained
  <2>8. ListedTo(es)[0] = <<>>
    BY <2>4, ListedFacts
  <2>9. 0 + 1 = 1 /\ 1 .. 0 = {}
    OBVIOUS
  <2> QED
    BY <2>2, <2>3, <2>4, <2>7, <2>8, <2>9 DEF ScanTo
<1>3. IsExt3(disk) => RightTo(disk, inode, buf, faults, size(inode))
  BY <1>1, AllRight
<1>4. size(inode)' = size(inode) /\ Wanted' = Wanted
  BY <1>1 DEF Wanted
<1>5. FormatInv'
  BY <1>1, <1>2, <1>3, <1>4, BlockFacts DEF FormatInv
<1> QED
  BY <1>5 DEF Answers, ReadFileCorrect, LookupCorrect

(* read_file() returns the file. *)
LEMMA NextBlockEnds ==
  ASSUME LeakInv, BufferInv, FormatInv, NextBlock, pos = blocks_needed, Wanted = "file",
         Ends(TRUE, FreeInode)
  PROVE  FormatInv' /\ Answers'
<1>1. pc = "block" /\ UNCHANGED <<disk, call, inode, buf, out, faults>>
  BY DEF NextBlock
<1>2. call.op = "read_file" /\ call.rest = <<>>
  BY DEF Wanted
<1>3. pc' = "done" /\ res' = TRUE /\ data' = data
  BY <1>2 DEF Ends
<1>4. FormatInv'
  BY <1>3 DEF FormatInv, Calling
<1>5. LookupCorrect'
  BY <1>1, <1>2 DEF LookupCorrect
<1>6. CASE ~IsExt3(disk)
  BY <1>1, <1>4, <1>5, <1>6 DEF Answers, ReadFileCorrect
<1>7. CASE IsExt3(disk)
  <2>1. PICK n \in DOMAIN disk.by_number : n = call.ino
    BY <1>1, <1>7, BlockFacts
  <2>2. /\ disk \in Disks /\ inode = disk.by_number[n] /\ inode.i_mode = "file"
        /\ size(inode) \in Nat /\ data.size = size(inode) /\ OnPath(disk, call)
    BY <1>1, <1>7, <2>1, BlockFacts
  <2>3. n = Resolved(disk, call.path) /\ n # 0
    BY <1>2, <1>7, <2>1, <2>2, PathFacts
  <2>4. PICK words : words = Content(disk, inode)
    OBVIOUS
  <2>5. Len(words) = size(inode)
    BY <1>7, <2>2, <2>4, ContentAt DEF WordsOf
  <2>6. RightTo(disk, inode, buf, faults, size(inode))
    BY <1>1, <1>7, AllRight
  <2>7. ASSUME NEW k \in 1 .. data.size
        PROVE  buf[k - 1] = words[k] \/ (faults.ptr /\ buf[k - 1] = 0)
    <3>1. k - 1 \in Nat /\ k - 1 < size(inode) /\ (k - 1) + 1 = k
      BY <2>2
    <3> QED
      BY <2>4, <2>6, <3>1 DEF RightTo
  <2>8. IsFile(disk, n)
    BY <2>2, <2>3 DEF IsFile
  <2>9. /\ Resolved(disk, call.path)' = n
        /\ Content(disk', disk'.by_number[n]) = words
    BY <1>1, <2>2, <2>3, <2>4
  <2>10. ReadFileCorrect'
    BY <1>1, <1>3, <2>2, <2>5, <2>7, <2>8, <2>9 DEF ReadFileCorrect
  <2> QED
    BY <1>4, <1>5, <2>10 DEF Answers
<1> QED
  BY <1>6, <1>7

(* The next block of read_inode_data(), all cases. *)
LEMMA NextBlockStep ==
  ASSUME LeakInv, BufferInv, FormatInv, NextBlock
  PROVE  FormatInv' /\ Answers'
BY NextBlockWalks, NextBlockScans, NextBlockEnds, PanicQuiet DEF NextBlock

(* A pointer that is read is a step on the way; zero leads to zero. *)
LEMMA FollowNext ==
  ASSUME NEW d, NEW b, NEW idx \in Seq(Nat), Len(idx) <= 3
  PROVE  /\ idx # <<>> => /\ Follow(d, b, idx) = Follow(d, Ptr(d, b, Head(idx)), Tail(idx))
                          /\ Tail(idx) \in Seq(Nat) /\ Len(Tail(idx)) <= 3
         /\ Follow(d, 0, idx) = 0
         /\ idx = <<>> => Follow(d, b, idx) = b
<1>1. ASSUME NEW x, NEW s
      PROVE  /\ Len(s) = 0 => Follow(d, x, s) = x
             /\ Len(s) = 1 => Follow(d, x, s) = Ptr(d, x, s[1])
             /\ Len(s) = 2 => Follow(d, x, s) = Ptr(d, Ptr(d, x, s[1]), s[2])
             /\ Len(s) = 3 => Follow(d, x, s) = Ptr(d, Ptr(d, Ptr(d, x, s[1]), s[2]), s[3])
  BY DEF Follow
<1>2. \A k : Ptr(d, 0, k) = 0
  BY DEF Ptr
<1>3. Len(idx) \in {0, 1, 2, 3}
  <2>1. PICK l \in Nat : l = Len(idx)
    OBVIOUS
  <2> QED
    BY <2>1
<1>4. Follow(d, 0, idx) = 0
  BY <1>1, <1>2, <1>3
<1>5. idx = <<>> => Follow(d, b, idx) = b
  BY <1>1
<1>6. ASSUME idx # <<>>
      PROVE  /\ Follow(d, b, idx) = Follow(d, Ptr(d, b, Head(idx)), Tail(idx))
             /\ Tail(idx) \in Seq(Nat) /\ Len(Tail(idx)) <= 3
  <2>1. PICK s : s = Tail(idx)
    OBVIOUS
  <2>2. s \in Seq(Nat) /\ Len(s) = Len(idx) - 1 /\ Head(idx) = idx[1]
    BY <1>6, <2>1
  <2>3. \A k \in 1 .. Len(s) : s[k] = idx[k + 1]
    BY <1>6, <2>1
  <2>4. Len(idx) # 0
    BY <1>6
  <2>5. PICK y : y = Ptr(d, b, idx[1])
    OBVIOUS
  <2>6. /\ Len(idx) = 1 => Follow(d, b, idx) = y
        /\ Len(idx) = 2 => Follow(d, b, idx) = Ptr(d, y, idx[2])
        /\ Len(idx) = 3 => Follow(d, b, idx) = Ptr(d, Ptr(d, y, idx[2]), idx[3])
    BY <1>1, <2>5
  <2>7. /\ Len(s) = 0 => Follow(d, y, s) = y
        /\ Len(s) = 1 => Follow(d, y, s) = Ptr(d, y, s[1])
        /\ Len(s) = 2 => Follow(d, y, s) = Ptr(d, Ptr(d, y, s[1]), s[2])
    BY <1>1
  <2>8. Follow(d, b, idx) = Follow(d, y, s)
    <3>1. CASE Len(idx) = 1
      <4>1. Len(s) = 0
        BY <2>2, <3>1
      <4> QED
        BY <2>6, <2>7, <3>1, <4>1
    <3>2. CASE Len(idx) = 2
      <4>1. Len(s) = 1 /\ s[1] = idx[2]
        BY <2>2, <2>3, <3>2
      <4> QED
        BY <2>6, <2>7, <3>2, <4>1
    <3>3. CASE Len(idx) = 3
      <4>1. Len(s) = 2 /\ s[1] = idx[2] /\ s[2] = idx[3]
        BY <2>2, <2>3, <3>3
      <4> QED
        BY <2>6, <2>7, <3>3, <4>1
    <3> QED
      BY <1>3, <2>4, <3>1, <3>2, <3>3
  <2> QED
    BY <2>1, <2>2, <2>5, <2>8
<1> QED
  BY <1>4, <1>5, <1>6

(* A pointer of an indirect block is read, or could not be read. *)
LEMMA BlockPtrStep ==
  ASSUME LeakInv, BufferInv, FormatInv, ReadBlockPtr
  PROVE  FormatInv' /\ Answers'
<1>1. /\ pc = "walk" /\ walk.ptr # 0 /\ walk.idx # <<>> /\ pc' = pc
      /\ UNCHANGED <<disk, call, inode, buf, pos, out>>
  BY DEF ReadBlockPtr
<1>2. IsExt3(disk) => WalkTo(disk, inode, walk, faults, pos)
  BY <1>1 DEF FormatInv
<1>3. block_size' = block_size /\ size(inode)' = size(inode) /\ Wanted' = Wanted
  BY <1>1 DEF block_size, Wanted
<1>4. (pos * block_size)' = pos * block_size
  BY <1>1, <1>3
<1>5. ASSUME IsExt3(disk)
      PROVE  /\ WalkTo(disk, inode, walk', faults', pos)
             /\ FaultType(faults') /\ (faults.ptr => faults'.ptr)
  <2>1. /\ FaultType(faults) /\ walk.ptr \in Nat /\ walk.idx \in Seq(Nat) /\ Len(walk.idx) <= 3
        /\ Follow(disk, walk.ptr, walk.idx) = BlockMap(disk, inode)[pos + 1]
    BY <1>1, <1>2, <1>5, BlockFacts DEF WalkTo
  <2>2. CASE /\ walk' = [ptr |-> PtrAt(disk, walk.ptr * block_size + Head(walk.idx) * PTR),
                         idx |-> Tail(walk.idx)]
             /\ faults' = faults
    <3>1. PICK b \in Nat, idx \in Seq(Nat) : b = walk.ptr /\ idx = walk.idx
      BY <2>1
    <3>2. PICK y : y = Ptr(disk, b, Head(idx))
      OBVIOUS
    <3>3. walk'.ptr = y /\ walk'.idx = Tail(idx)
      BY <1>1, <2>2, <3>1, <3>2 DEF Ptr, block_size
    <3>4. y \in Nat
      BY <1>1, <1>5, <3>2, BlockFacts, PtrTyped DEF IsExt3, Pointing
    <3>5. /\ Follow(disk, y, Tail(idx)) = BlockMap(disk, inode)[pos + 1]
          /\ Tail(idx) \in Seq(Nat) /\ Len(Tail(idx)) <= 3
      BY <1>1, <2>1, <3>1, <3>2, FollowNext
    <3>6. WalkTo(disk, inode, walk', faults', pos)
      BY <3>3, <3>4, <3>5 DEF WalkTo
    <3> QED
      BY <2>1, <2>2, <3>6
  <2>3. CASE walk' = [ptr |-> 0, idx |-> <<>>] /\ faults' = [any |-> TRUE, ptr |-> TRUE]
    BY <2>3 DEF WalkTo, FaultType
  <2> QED
    BY <2>2, <2>3 DEF ReadBlockPtr
<1>6. IsExt3(disk) => RightTo(disk, inode, buf, faults', pos * block_size)
  BY <1>1, <1>5, BlockFacts DEF RightTo
<1>7. FormatInv'
  BY <1>1, <1>3, <1>4, <1>5, <1>6, BlockFacts DEF FormatInv
<1> QED
  BY <1>1, <1>7 DEF Answers, ReadFileCorrect, LookupCorrect

(* The words of block p, which starts at o. *)
LEMMA CopiedRight ==
  ASSUME LeakInv, BufferInv, FormatInv, IsExt3(disk), pc = "walk",
         walk.ptr = 0 \/ walk.idx = <<>>,
         NEW bs \in Nat \ {0}, bs = block_size, NEW o \in Nat, o = pos * block_size,
         NEW s \in Nat, s = size(inode), NEW w, w = walk.ptr, NEW b,
         \A k \in Nat : k < o /\ k \in DOMAIN buf => k \in DOMAIN b /\ b[k] = buf[k],
         \A k \in Nat : o <= k /\ k < o + bs /\ k < s =>
            k \in DOMAIN b /\ b[k] = IF w = 0 THEN 0 ELSE w * bs + (k - o)
  PROVE  RightTo(disk, inode, b, faults, (pos + 1) * block_size)
<1>1. PICK p \in Nat : p = pos
  BY BlockFacts
<1>2. o = p * bs /\ (pos + 1) * block_size = o + bs
  BY <1>1
<1>3. RightTo(disk, inode, buf, faults, o)
  BY BlockFacts
<1>4. WalkTo(disk, inode, walk, faults, pos)
  BY DEF FormatInv
<1>5. PICK c : c = Content(disk, inode)
  OBVIOUS
<1>6. PICK bm : bm = BlockMap(disk, inode)
  OBVIOUS
<1>7. ASSUME NEW j \in Nat, j < bs, o + j < s
      PROVE  c[(o + j) + 1] = IF bm[p + 1] = 0 THEN 0 ELSE bm[p + 1] * bs + j
  <2>1. PICK n \in DOMAIN disk.by_number : n = call.ino /\ inode = disk.by_number[n] /\ disk \in Disks
    BY BlockFacts
  <2>2. WordsOf(disk, inode, c)
    BY <1>5, <2>1, ContentAt
  <2>3. p * bs + j < s
    BY <1>2, <1>7
  <2>4. c[p * bs + j + 1] = IF bm[p + 1] = 0 THEN 0 ELSE bm[p + 1] * bs + j
    <3>1. bs = BlockSize(disk)
      BY BlockFacts
    <3> QED
      BY <1>6, <1>7, <2>2, <2>3, <3>1 DEF WordsOf
  <2> QED
    BY <1>2, <2>4
<1>8. w \in Nat
  BY <1>4 DEF WalkTo
<1>9. w = bm[p + 1] \/ (faults.ptr /\ w = 0)
  <2>1. PICK idx \in Seq(Nat) : idx = walk.idx /\ Len(idx) <= 3
    BY <1>4 DEF WalkTo
  <2>2. Follow(disk, w, idx) = w
    BY <1>8, <2>1, FollowNext
  <2> QED
    BY <1>1, <1>4, <1>6, <1>8, <2>1, <2>2 DEF WalkTo
<1>10. ASSUME NEW k \in Nat, k < s, k < o + bs
       PROVE  k \in DOMAIN b /\ (b[k] = c[k + 1] \/ (faults.ptr /\ b[k] = 0))
  <2>1. CASE k < o
    BY <1>3, <1>5, <1>10, <2>1 DEF RightTo
  <2>2. CASE ~(k < o)
    <3>1. PICK j \in Nat : k = o + j /\ j < bs /\ k - o = j
      <4>1. k - o \in Nat /\ k = o + (k - o) /\ k - o < bs
        BY <1>10, <2>2
      <4> QED
        BY <4>1
    <3>2. k \in DOMAIN b /\ b[k] = IF w = 0 THEN 0 ELSE w * bs + j
      <4>1. o <= k /\ k < o + bs /\ k < s
        BY <1>10, <2>2
      <4>2. k \in DOMAIN b /\ b[k] = IF w = 0 THEN 0 ELSE w * bs + (k - o)
        BY <4>1, Zenon
      <4> QED
        BY <3>1, <4>2
    <3>3. c[k + 1] = IF bm[p + 1] = 0 THEN 0 ELSE bm[p + 1] * bs + j
      BY <1>7, <1>10, <3>1
    <3> QED
      BY <1>9, <3>2, <3>3
  <2> QED
    BY <2>1, <2>2
<1> QED
  BY <1>2, <1>5, <1>10 DEF RightTo

(* A block is copied, or a hole filled. *)
LEMMA CopyStep ==
  ASSUME LeakInv, BufferInv, FormatInv, CopyBlock
  PROVE  FormatInv' /\ Answers'
<1>1. pc = "walk" /\ disk \in Disks /\ (walk.ptr = 0 \/ walk.idx = <<>>)
  BY DEF CopyBlock, LeakInv, PointersInv
<1>2. CASE Fails(FreedOnBadBlock, TRUE)
  BY <1>1, <1>2, BlockFacts, FailsRight
<1>3. CASE ~Fails(FreedOnBadBlock, TRUE)
  <2>1. /\ pos' = pos + 1 /\ pc' = "block" /\ UNCHANGED <<disk, call, inode, out, faults>>
        /\ buf' = IF walk.ptr = 0 THEN Written(chunk, LAMBDA j : 0)
                  ELSE Written(block_size, LAMBDA j : walk.ptr * block_size + j)
    BY <1>3 DEF CopyBlock
  <2>2. PICK bs \in Nat \ {0} : bs = block_size
    BY <1>1, BlockFacts
  <2>3. PICK o \in Nat : o = pos * block_size
    <3>1. pos * bs \in Nat
      BY <1>1, BlockFacts
    <3> QED
      BY <2>2, <3>1
  <2>4. PICK s \in Nat : s = size(inode) /\ o < s
    BY <1>1, <2>3, BlockFacts DEF BufferInv
  <2>5. PICK n \in Nat : n = IF walk.ptr = 0 THEN chunk ELSE bs
    BY <2>2, <2>3, <2>4 DEF chunk, buf_off
  <2>6. n <= bs /\ \A k \in Nat : o <= k /\ k < o + bs /\ k < s => k \in o .. o + n - 1
    BY <2>2, <2>3, <2>4, <2>5 DEF chunk, buf_off
  <2>7. PICK W : W = o .. o + n - 1
    OBVIOUS
  <2>8. PICK w, b : w = walk.ptr /\ b = buf'
    OBVIOUS
  <2>9. /\ DOMAIN b = DOMAIN buf \cup W
        /\ \A k \in DOMAIN b :
              b[k] = IF k \in W THEN (IF w = 0 THEN 0 ELSE w * bs + (k - o)) ELSE buf[k]
    BY <2>1, <2>2, <2>3, <2>5, <2>7, <2>8 DEF Written, buf_off
  <2>10. \A k \in Nat : k < o /\ k \in DOMAIN buf => k \in DOMAIN b /\ b[k] = buf[k]
    <3>1. \A k \in Nat : k < o => k \notin W
      BY <2>7
    <3> QED
      BY <2>9, <3>1
  <2>11. \A k \in Nat : o <= k /\ k < o + bs /\ k < s =>
            k \in DOMAIN b /\ b[k] = IF w = 0 THEN 0 ELSE w * bs + (k - o)
    BY <2>6, <2>7, <2>9
  <2>12. IsExt3(disk) => RightTo(disk, inode, b, faults, (pos + 1) * block_size)
    BY <1>1, <2>2, <2>3, <2>4, <2>8, <2>10, <2>11, CopiedRight
  <2>13. block_size' = block_size /\ size(inode)' = size(inode) /\ Wanted' = Wanted
    BY <2>1 DEF block_size, Wanted
  <2>14. (pos * block_size)' = (pos + 1) * block_size
    BY <2>1, <2>13
  <2>15. FormatInv'
    BY <1>1, <2>1, <2>8, <2>12, <2>13, <2>14, BlockFacts DEF FormatInv
  <2> QED
    BY <2>1, <2>15 DEF Answers, ReadFileCorrect, LookupCorrect
<1> QED
  BY <1>2, <1>3

(* What the invariants say while a directory is scanned. *)
LEMMA ScanFacts ==
  ASSUME LeakInv, BufferInv, FormatInv, pc = "scan", IsExt3(disk),
         NEW es, es = DirEntries(disk, inode)
  PROVE  /\ disk \in Disks /\ OnPath(disk, call) /\ AtName(call) /\ FaultType(faults)
         /\ call.ino \in DOMAIN disk.by_number /\ inode = disk.by_number[call.ino]
         /\ inode.i_mode = "dir" /\ size(inode) \in Nat
         /\ EntrySeq(es) /\ Len(es) = size(inode) /\ EntriesChained(disk, es)
         /\ pos \in Nat /\ pos <= Len(es) /\ (pos < Len(es) => es[pos + 1].live)
         /\ ScanTo(es, call, out, pos)
         /\ RightTo(disk, inode, buf, faults, size(inode))
<1>1. disk \in Disks /\ data # Nil /\ Wanted = "dir"
  BY DEF LeakInv, PointersInv, HasData
<1>2. size(inode) \in Nat
  BY <1>1 DEF BufferInv
<1>3. /\ OnPath(disk, call) /\ AtName(call) /\ FaultType(faults)
      /\ inode = disk.by_number[call.ino] /\ inode.i_mode = Wanted
      /\ RightTo(disk, inode, buf, faults, size(inode)) /\ ScanTo(es, call, out, pos)
  BY DEF FormatInv, Calling
<1>4. call.ino \in DOMAIN disk.by_number
  BY <1>3 DEF OnPath
<1>5. EntrySeq(es) /\ Len(es) = size(inode)
  BY <1>1, <1>2, EntriesTyped
<1>6. EntriesChained(disk, es)
  BY <1>1, <1>3, <1>4 DEF IsExt3
<1>7. pos \in Nat /\ pos <= Len(es) /\ (pos < Len(es) => es[pos + 1].live)
  BY <1>3 DEF ScanTo
<1> QED
  BY <1>1, <1>2, <1>3, <1>4, <1>5, <1>6, <1>7

(* The word at hand is the directory's, or zero, where no entry is. *)
LEMMA EntryAtHand ==
  ASSUME LeakInv, BufferInv, FormatInv, pc = "scan", IsExt3(disk),
         NEW es, es = DirEntries(disk, inode), pos < Len(es)
  PROVE  entry = es[pos + 1] \/ (faults.ptr /\ entry.rec_len = 0)
<1>1. pos \in Nat /\ size(inode) \in Nat /\ pos < size(inode) /\ pos + 1 \in 1 .. size(inode)
  BY ScanFacts
<1>2. PICK c : c = Content(disk, inode)
  OBVIOUS
<1>3. buf[pos] = c[pos + 1] \/ (faults.ptr /\ buf[pos] = 0)
  BY <1>1, <1>2, ScanFacts DEF RightTo
<1>4. es[pos + 1] = EntryAt(disk, c[pos + 1])
  <2>1. PICK k \in 1 .. size(inode) : k = pos + 1
    BY <1>1
  <2>2. es[k] = EntryAt(disk, c[k])
    BY <1>1, <1>2, ScanFacts, EntriesTyped
  <2> QED
    BY <2>1, <2>2
<1>5. EntryAt(disk, 0).rec_len = 0
  BY DEF IsExt3, EntryAt
<1> QED
  BY <1>3, <1>4, <1>5 DEF entry

(* An entry that is there leads to the next one or to the end. *)
LEMMA ScanMore ==
  ASSUME LeakInv, BufferInv, FormatInv, pc = "scan", IsExt3(disk),
         NEW es, es = DirEntries(disk, inode), More
  PROVE  /\ pos < Len(es) /\ entry = es[pos + 1] /\ entry.live
         /\ entry.rec_len \in Nat \ {0} /\ pos + entry.rec_len <= Len(es)
         /\ pos + entry.rec_len < Len(es) => es[pos + entry.rec_len + 1].live
         /\ \A k \in pos + 2 .. pos + entry.rec_len : ~es[k].live
         /\ entry.inode # 0 => entry.inode \in DOMAIN disk.by_number
<1>1. PICK n \in Nat : n = Len(es) /\ n = size(inode)
  BY ScanFacts
<1>2. PICK p \in Nat : p = pos
  BY ScanFacts
<1>3. p < n /\ entry.rec_len # 0
  BY <1>1, <1>2, Ext3Constants DEF More
<1>4. entry = es[p + 1] /\ es[p + 1].live
  BY <1>1, <1>2, <1>3, EntryAtHand, ScanFacts
<1>5. PICK r \in Nat \ {0} : r = entry.rec_len
  <2>1. entry.rec_len \in Nat
    BY <1>1, ScanFacts, EntriesTyped DEF entry
  <2> QED
    BY <1>3, <2>1
<1>6. PICK starts : starts = {k \in 1 .. n : es[k].live}
  OBVIOUS
<1>7. PICK q \in starts : q = p + 1
  BY <1>3, <1>4, <1>6
<1>8. /\ q + r \in starts \cup {n + 1}
      /\ \A j \in starts : j <= q \/ j >= q + r
      /\ es[q].inode # 0 => es[q].inode \in DOMAIN disk.by_number
  <2>1. EntriesChained(disk, es)
    BY ScanFacts
  <2>2. es[q].rec_len = r
    BY <1>4, <1>5, <1>7
  <2> QED
    BY <1>1, <1>6, <2>1, <2>2 DEF EntriesChained
<1>9. p + r <= n /\ (p + r < n => es[p + r + 1].live)
  <2>1. q + r = p + r + 1
    BY <1>7
  <2>2. (q + r \in 1 .. n /\ es[q + r].live) \/ q + r = n + 1
    BY <1>6, <1>8
  <2> QED
    BY <2>1, <2>2
<1>10. ASSUME NEW k \in p + 2 .. p + r PROVE ~es[k].live
  <2>1. k \in 1 .. n
    BY <1>9
  <2>2. ~(k <= q \/ k >= q + r)
    BY <1>7
  <2> QED
    BY <1>6, <1>8, <2>1, <2>2
<1> QED
  BY <1>1, <1>2, <1>3, <1>4, <1>5, <1>7, <1>8, <1>9, <1>10

(* The scan of a directory that was read ends at its end. *)
LEMMA ScanEnd ==
  ASSUME LeakInv, BufferInv, FormatInv, pc = "scan", IsExt3(disk),
         NEW es, es = DirEntries(disk, inode), ~More
  PROVE  pos = Len(es) \/ faults.ptr
<1> SUFFICES ASSUME ~faults.ptr, pos < Len(es) PROVE FALSE
  BY ScanFacts
<1>1. entry = es[pos + 1] /\ es[pos + 1].live
  BY EntryAtHand, ScanFacts
<1>2. PICK k \in 1 .. Len(es) : k = pos + 1
  BY ScanFacts
<1>3. es[k].rec_len > 0 /\ k + HDR - 1 <= Len(es)
  <2>1. EntriesChained(disk, es) /\ es[k].live
    BY <1>1, <1>2, ScanFacts
  <2> QED
    BY <2>1 DEF EntriesChained
<1>4. pos + HDR <= size(inode) /\ entry.rec_len # 0
  <2>1. HDR \in Nat
    BY Ext3Constants
  <2> QED
    BY <1>1, <1>2, <1>3, <2>1, ScanFacts
<1> QED
  BY <1>4 DEF More

(* The name is found, the scan goes on, or the name is not there. *)
LEMMA FindStep ==
  ASSUME LeakInv, BufferInv, FormatInv, FindInDirData
  PROVE  FormatInv' /\ Answers'
<1>1. pc = "scan" /\ disk \in Disks /\ call.rest # <<>>
  BY DEF FindInDirData, LeakInv, PointersInv
<1>2. PICK es : es = DirEntries(disk, inode)
  OBVIOUS
<1>3. IsExt3(disk) =>
         /\ out = <<>>
         /\ \A k \in 1 .. pos : InUse(es[k]) => es[k].name # Head(call.rest)
  BY <1>1, <1>2, ScanFacts DEF ScanTo
<1>4. CASE /\ More /\ Matches /\ call' = [call EXCEPT !.ino = entry.inode, !.rest = Tail(@)]
           /\ pc' = "resolve" /\ UNCHANGED <<disk, out, faults>>
  <2>1. ASSUME IsExt3(disk) PROVE OnPath(disk, call') /\ FaultType(faults)
    <3>1. /\ OnPath(disk, call) /\ AtName(call) /\ FaultType(faults)
          /\ inode = disk.by_number[call.ino] /\ inode.i_mode = "dir" /\ size(inode) \in Nat
          /\ Len(es) = size(inode) /\ pos \in Nat
      BY <1>1, <1>2, <2>1, ScanFacts
    <3>2. PICK n \in DOMAIN disk.by_number : n = call.ino
      BY <1>1, <1>2, <2>1, ScanFacts
    <3>3. PICK name : name = Head(call.rest)
      OBVIOUS
    <3>4. PICK k \in 1 .. size(inode) : k = pos + 1 /\ entry = es[k]
      <4>1. pos < size(inode) /\ entry = es[pos + 1]
        BY <1>1, <1>2, <1>4, <2>1, <3>1, ScanMore
      <4>2. pos + 1 \in 1 .. size(inode)
        BY <3>1, <4>1
      <4> QED
        BY <4>1, <4>2
    <3>5. entry.inode # 0 /\ entry.name = name /\ entry.live
      BY <1>1, <1>2, <1>4, <2>1, <3>3, ScanMore DEF Matches
    <3>6. InUse(es[k]) /\ es[k].name = name
      BY <3>4, <3>5 DEF InUse
    <3>7. LookupIn(disk, inode, name) = es[k].inode
      <4>1. \A j \in 1 .. size(inode) :
               inode.i_mode = "dir" /\ InUse(es[j]) /\ es[j].name = name
                  => LookupIn(disk, inode, name) = es[j].inode
        <5>1. disk \in Disks /\ inode = disk.by_number[n]
          BY <1>1, <3>1, <3>2
        <5> QED
          BY <1>2, <2>1, <5>1, LookupFacts
      <4> QED
        BY <3>1, <3>6, <4>1
    <3>8. PICK m \in DOMAIN disk.by_number : m = entry.inode
      BY <1>1, <1>2, <1>4, <2>1, <3>5, ScanMore
    <3>9. m = Visited(disk, call.path)[Depth(call) + 1]
      <4>1. name \notin {"", "."}
        BY <1>1, <3>1, <3>3 DEF AtName
      <4> QED
        BY <1>1, <2>1, <3>1, <3>3, <3>4, <3>7, <3>8, <4>1, PathFacts
    <3>10. PICK c : c = call'
      OBVIOUS
    <3>11. c = [call EXCEPT !.ino = m, !.rest = Tail(@)]
      BY <1>4, <3>8, <3>10
    <3>12. OnPath(disk, c)
      BY <1>1, <2>1, <3>1, <3>9, <3>11, PathGoesOn
    <3> QED
      BY <3>1, <3>10, <3>12
  <2>2. FormatInv'
    BY <1>3, <1>4, <2>1 DEF FormatInv
  <2> QED
    BY <1>4, <2>2 DEF Answers, ReadFileCorrect, LookupCorrect
<1>5. CASE /\ More /\ ~Matches /\ pos' = pos + entry.rec_len
           /\ UNCHANGED <<disk, pc, call, inode, buf, out, faults>>
  <2>1. ASSUME IsExt3(disk) PROVE ScanTo(es, call, out, pos + entry.rec_len)
    <3>1. /\ pos < Len(es) /\ entry = es[pos + 1] /\ entry.live
          /\ entry.rec_len \in Nat \ {0} /\ pos + entry.rec_len <= Len(es)
          /\ pos + entry.rec_len < Len(es) => es[pos + entry.rec_len + 1].live
          /\ \A k \in pos + 2 .. pos + entry.rec_len : ~es[k].live
      BY <1>1, <1>2, <1>5, <2>1, ScanMore
    <3>2. PICK p \in Nat, r \in Nat : p = pos /\ r = entry.rec_len
      BY <1>1, <1>2, <2>1, <3>1, ScanFacts
    <3>3. PICK name : name = Head(call.rest)
      OBVIOUS
    <3>4. ASSUME NEW k \in 1 .. p + r, InUse(es[k]) PROVE es[k].name # name
      <4>1. CASE k \in 1 .. p
        BY <1>3, <2>1, <3>2, <3>3, <3>4, <4>1
      <4>2. CASE k = p + 1
        <5>1. ~(entry.inode # 0 /\ entry.name = name)
          BY <1>5, <3>3 DEF Matches
        <5>2. es[k] = entry
          BY <3>1, <3>2, <4>2
        <5> QED
          BY <3>4, <5>1, <5>2 DEF InUse
      <4>3. CASE k \in p + 2 .. p + r
        BY <3>1, <3>2, <3>4, <4>3 DEF InUse
      <4> QED
        BY <4>1, <4>2, <4>3
    <3>5. p + r \in Nat /\ p + r <= Len(es) /\ (p + r < Len(es) => es[(p + r) + 1].live)
      BY <3>1, <3>2
    <3>6. ScanTo(es, call, out, p + r)
      BY <1>1, <1>3, <2>1, <3>3, <3>4, <3>5 DEF ScanTo
    <3> QED
      BY <3>2, <3>6
  <2>2. size(inode)' = size(inode) /\ Wanted' = Wanted
    BY <1>5 DEF Wanted
  <2>3. FormatInv'
    BY <1>1, <1>2, <1>5, <2>1, <2>2 DEF FormatInv
  <2> QED
    BY <1>1, <1>5, <2>3 DEF Answers, ReadFileCorrect, LookupCorrect
<1>6. CASE ~More /\ Fails(FreeInode \cup FreeData, FALSE)
  <2>1. ASSUME IsExt3(disk)
        PROVE  FaultType(faults) /\ (faults.any \/ Resolved(disk, call.path) = 0)
    <3>1. /\ OnPath(disk, call) /\ AtName(call) /\ FaultType(faults)
          /\ inode = disk.by_number[call.ino] /\ Len(es) = size(inode)
      BY <1>1, <1>2, <2>1, ScanFacts
    <3>2. CASE faults.ptr
      BY <3>1, <3>2 DEF FaultType
    <3>3. CASE ~faults.ptr
      <4>1. pos = size(inode)
        BY <1>1, <1>2, <1>6, <2>1, <3>1, <3>3, ScanEnd
      <4>2. PICK n \in DOMAIN disk.by_number : n = call.ino
        BY <1>1, <1>2, <2>1, ScanFacts
      <4>3. PICK name : name = Head(call.rest)
        OBVIOUS
      <4>4. LookupIn(disk, inode, name) = 0
        <5>1. (\A j \in 1 .. size(inode) : InUse(es[j]) => es[j].name # name)
                 => LookupIn(disk, inode, name) = 0
          <6>1. disk \in Disks /\ inode = disk.by_number[n]
            BY <1>1, <3>1, <4>2
          <6> QED
            BY <1>2, <2>1, <6>1, LookupFacts
        <5> QED
          BY <1>3, <2>1, <4>1, <4>3, <5>1
      <4>5. Resolved(disk, call.path) = 0
        BY <1>1, <2>1, <3>1, <4>3, <4>4, NotFound
      <4> QED
        BY <3>1, <4>5
    <3> QED
      BY <3>2, <3>3
  <2> QED
    BY <1>1, <1>6, <2>1, FailsRight
<1> QED
  BY <1>4, <1>5, <1>6 DEF FindInDirData

(* An entry is reported, or the list is complete. *)
LEMMA ListStep ==
  ASSUME LeakInv, BufferInv, FormatInv, ForEachEntry
  PROVE  FormatInv' /\ Answers'
<1>1. /\ pc = "scan" /\ disk \in Disks /\ call.rest = <<>>
      /\ UNCHANGED <<disk, call, inode, buf, faults>>
  BY DEF ForEachEntry, LeakInv, PointersInv
<1>2. PICK es : es = DirEntries(disk, inode)
  OBVIOUS
<1>3. IsExt3(disk) => out = ListedTo(es)[pos]
  BY <1>1, <1>2, ScanFacts DEF ScanTo
<1>4. CASE /\ More /\ pc' = pc /\ pos' = pos + entry.rec_len
           /\ out' = IF entry.inode # 0 THEN Append(out, entry.inode) ELSE out
  <2>1. ASSUME IsExt3(disk) PROVE ScanTo(es, call, out', pos + entry.rec_len)
    <3>1. /\ pos < Len(es) /\ entry = es[pos + 1] /\ entry.live
          /\ entry.rec_len \in Nat \ {0} /\ pos + entry.rec_len <= Len(es)
          /\ pos + entry.rec_len < Len(es) => es[pos + entry.rec_len + 1].live
          /\ \A k \in pos + 2 .. pos + entry.rec_len : ~es[k].live
      BY <1>1, <1>2, <1>4, <2>1, ScanMore
    <3>2. PICK n \in Nat : n = Len(es)
      BY <1>1, <1>2, <2>1, ScanFacts
    <3>3. PICK p \in Nat, r \in Nat \ {0} : p = pos /\ r = entry.rec_len
      BY <1>1, <1>2, <2>1, <3>1, ScanFacts
    <3>4. EntrySeq(es)
      BY <1>1, <1>2, <2>1, ScanFacts
    <3>5. PICK to : to = ListedTo(es)
      OBVIOUS
    <3>6. PICK q \in 1 .. n : q = p + 1 /\ q - 1 = p
      BY <3>1, <3>2, <3>3
    <3>7. to[q] = IF InUse(es[q]) THEN Append(to[q - 1], es[q].inode) ELSE to[q - 1]
      BY <3>2, <3>4, <3>5, ListedFacts
    <3>8. InUse(es[q]) <=> entry.inode # 0
      BY <3>1, <3>3, <3>6 DEF InUse
    <3>9. out' = to[q]
      BY <1>3, <1>4, <2>1, <3>1, <3>3, <3>5, <3>6, <3>7, <3>8
    <3>10. PICK k \in 0 .. n : k = p + r
      BY <3>1, <3>2, <3>3
    <3>11. \A j \in q + 1 .. k : ~InUse(es[j])
      <4>1. \A j \in q + 1 .. k : ~es[j].live
        BY <3>1, <3>3, <3>6, <3>10
      <4> QED
        BY <4>1 DEF InUse
    <3>12. q \in 0 .. n /\ q <= k
      BY <3>3, <3>6, <3>10
    <3>13. to[k] = to[q]
      BY <3>2, <3>4, <3>5, <3>11, <3>12, ListedGap
    <3>14. k \in Nat /\ k <= Len(es) /\ (k < Len(es) => es[k + 1].live)
      BY <3>1, <3>2, <3>3, <3>10
    <3>15. ScanTo(es, call, out', k)
      BY <1>1, <3>5, <3>9, <3>13, <3>14 DEF ScanTo
    <3> QED
      BY <3>3, <3>10, <3>15
  <2>2. size(inode)' = size(inode) /\ Wanted' = Wanted
    BY <1>1 DEF Wanted
  <2>3. FormatInv'
    BY <1>1, <1>2, <1>4, <2>1, <2>2 DEF FormatInv
  <2> QED
    BY <1>1, <1>4, <2>3 DEF Answers, ReadFileCorrect, LookupCorrect
<1>5. CASE ~More /\ Ends(TRUE, FreeInode \cup FreeData) /\ out' = out
  <2>1. pc' = "done" /\ res' = TRUE
    BY <1>5 DEF Ends
  <2>2. FormatInv'
    BY <2>1 DEF FormatInv, Calling
  <2>3. CASE ~IsExt3(disk)
    BY <1>1, <2>2, <2>3 DEF Answers, ReadFileCorrect, LookupCorrect
  <2>4. CASE IsExt3(disk)
    <3>1. /\ OnPath(disk, call) /\ AtName(call) /\ inode = disk.by_number[call.ino]
          /\ EntrySeq(es) /\ Len(es) = size(inode) /\ pos \in Nat /\ pos <= Len(es)
      BY <1>1, <1>2, <2>4, ScanFacts
    <3>2. PICK n : n = call.ino
      OBVIOUS
    <3>3. n = Resolved(disk, call.path) /\ n # 0
      BY <1>1, <2>4, <3>1, <3>2, PathFacts
    <3>4. call.op # "exists" /\ call.op # "read_file"
      <4>1. Wanted = "dir"
        BY <1>1 DEF LeakInv, PointersInv
      <4> QED
        BY <1>1, <3>1, <4>1 DEF AtName, Wanted
    <3>5. PICK all : all = Listed(disk, inode)
      OBVIOUS
    <3>6. all = ListedTo(es)[Len(es)]
      BY <1>2, <3>1, <3>5 DEF Listed
    <3>7. PICK j \in 0 .. Len(es) : j = pos
      BY <3>1
    <3>8. IsPrefix(out, all)
      BY <1>3, <2>4, <3>1, <3>6, <3>7, ListedPrefix
    <3>9. faults.ptr \/ out = all
      BY <1>1, <1>2, <1>3, <1>5, <2>4, <3>6, ScanEnd
    <3>10. /\ Resolved(disk, call.path)' = n
           /\ Listed(disk', disk'.by_number[n]) = all
      BY <1>1, <3>1, <3>2, <3>3, <3>5
    <3>11. LookupCorrect'
      BY <1>1, <1>5, <2>1, <3>3, <3>4, <3>8, <3>9, <3>10 DEF LookupCorrect
    <3>12. ReadFileCorrect'
      BY <1>1, <3>4 DEF ReadFileCorrect
    <3> QED
      BY <2>2, <3>11, <3>12 DEF Answers
  <2> QED
    BY <2>3, <2>4
<1> QED
  BY <1>1, <1>4, <1>5 DEF ForEachEntry

(* FormatInv is inductive, and with it the calls keep their promises. *)
LEMMA FormatStep ==
  ASSUME LeakInv, BufferInv, FormatInv, Answers, [Next]_vars
  PROVE  FormatInv' /\ Answers'
<1>1. CASE UNCHANGED vars
  <2>1. UNCHANGED <<disk, pc, call, table, inode, data, buf, pos, walk, out, res, faults>>
    BY <1>1 DEF vars, local
  <2>2. FormatInv'
    BY <2>1 DEF FormatInv, block_size, Wanted, bgd_offset, bgdt_block, group, BgdAt
  <2>3. Answers'
    BY <2>1 DEF Answers, ReadFileCorrect, LookupCorrect
  <2> QED
    BY <2>2, <2>3
<1>2. CASE Mount \/ ReadSuperblock \/ Drop \/ Return
  BY <1>2, QuietSteps
<1>3. CASE \E op \in {"read_file", "exists", "list_dir"}, p \in Paths : Call(op, p)
  BY <1>3, CallStep
<1>4. CASE ResolvePath
  BY <1>4, ResolveStep
<1>5. CASE ReadBgd
  BY <1>5, BgdStep
<1>6. CASE ReadInode
  BY <1>6, InodeStep
<1>7. CASE AllocData
  BY <1>7, AllocStep
<1>8. CASE NextBlock
  BY <1>8, NextBlockStep
<1>9. CASE ReadBlockPtr
  BY <1>9, BlockPtrStep
<1>10. CASE CopyBlock
  BY <1>10, CopyStep
<1>11. CASE FindInDirData
  BY <1>11, FindStep
<1>12. CASE ForEachEntry
  BY <1>12, ListStep
<1> QED
  BY <1>1, <1>2, <1>3, <1>4, <1>5, <1>6, <1>7, <1>8, <1>9, <1>10, <1>11, <1>12 DEF Next, Step

(* Nothing is mounted and nobody has called. *)
LEMMA FormatInit == Init => BufferInv /\ FormatInv /\ Answers
BY DEF Init, BufferInv, FormatInv, Answers, ReadFileCorrect, LookupCorrect, Calling

(* read_file(), for every ext3 file system and every path, with every       *)
(* failure: what it returns is the file that the path names, word by word,  *)
(* up to the blocks behind a pointer that could not be read.                *)
THEOREM FilesAreRead == BootSpec => []ReadFileCorrect
<1>1. Answers => ReadFileCorrect
  BY DEF Answers
<1> QED
  BY <1>1, FormatInit, FormatStep, LeakInit, LeakStep, BufferStep, DriverStep, PTL
  DEF BootSpec, BootInit

(* exists() and list_dir(), for every ext3 file system and every path, with *)
(* every failure: they answer what the directories on the disk say.         *)
THEOREM LookupsAgree == BootSpec => []LookupCorrect
<1>1. Answers => LookupCorrect
  BY DEF Answers
<1> QED
  BY <1>1, FormatInit, FormatStep, LeakInit, LeakStep, BufferStep, DriverStep, PTL
  DEF BootSpec, BootInit

-----------------------------------------------------------------------------
(* vaddr_min is the least address of a segment, and the size of the image   *)
(* is a number; it is the span of the segments if that has anything in it.  *)
LEMMA Span ==
  ASSUME NEW f, ElfType(f), Loads(f) # {}
  PROVE  /\ vaddr_min(f) \in u64
         /\ \A s \in Loads(f) : vaddr_min(f) <= f.phdrs[s].vaddr
         /\ total_size(f) \in Nat
         /\ vaddr_max(f) \in u64
         /\ vaddr_max(f) > vaddr_min(f) => total_size(f) = vaddr_max(f) - vaddr_min(f)
<1>1. /\ U64 \in Nat \ {0}
      /\ \A s \in Loads(f) : f.phdrs[s].vaddr \in u64 /\ f.phdrs[s].memsz \in u64
  <2>1. U64 \in Nat \ {0}
    BY LoaderConstants
  <2>2. ASSUME NEW s \in Loads(f)
        PROVE  f.phdrs[s].vaddr \in u64 /\ f.phdrs[s].memsz \in u64
    BY DEF ElfType, Loads
  <2> QED
    BY <2>1, <2>2
<1> DEFINE V == {f.phdrs[s].vaddr : s \in Loads(f)}
           E == {End(f.phdrs[s]) : s \in Loads(f)}
           C == {U64 - e : e \in E}
<1>2. V \in SUBSET Nat /\ V # {} /\ V \subseteq u64
  BY <1>1 DEF u64
<1>3. vaddr_min(f) \in u64 /\ \A s \in Loads(f) : vaddr_min(f) <= f.phdrs[s].vaddr
  <2>1. \E v \in V : \A w \in V : v <= w
    BY <1>2, Least
  <2>2. \E v \in V : \A s \in Loads(f) : v <= f.phdrs[s].vaddr
    BY <2>1
  <2> QED
    BY <1>2, <2>2 DEF vaddr_min
<1>4. \A s \in Loads(f) : End(f.phdrs[s]) \in u64
  BY <1>1 DEF End, u64
<1>5. vaddr_max(f) \in u64
  <2>1. C \in SUBSET Nat /\ C # {}
    BY <1>1, <1>4 DEF u64
  <2>2. PICK c \in C : \A d \in C : c <= d
    BY <2>1, Least
  <2>3. PICK e \in E : c = U64 - e
    BY <2>2
  <2>4. \A s \in Loads(f) : U64 - End(f.phdrs[s]) \in C
    OBVIOUS
  <2>5. e \in u64
    BY <1>4
  <2>6. ASSUME NEW s \in Loads(f) PROVE End(f.phdrs[s]) <= e
    <3>1. U64 - e <= U64 - End(f.phdrs[s])
      BY <2>2, <2>3, <2>4
    <3> QED
      BY <1>1, <1>4, <2>5, <3>1 DEF u64
  <2>7. \E v \in E : \A s \in Loads(f) : End(f.phdrs[s]) <= v
    BY <2>3, <2>6
  <2>8. vaddr_max(f) \in E
    BY <2>7 DEF vaddr_max
  <2> QED
    BY <1>4, <2>8
<1> DEFINE a == vaddr_min(f)
           b == vaddr_max(f)
<1>6. (U64 + b - a) % U64 \in Nat /\ (b > a => (U64 + b - a) % U64 = b - a)
  <2>1. a \in 0 .. U64 - 1 /\ b \in 0 .. U64 - 1
    BY <1>3, <1>5 DEF u64
  <2> HIDE DEF a, b
  <2>2. (U64 + b - a) % U64 \in Nat
    BY <1>1, <2>1
  <2>3. ASSUME b > a PROVE (U64 + b - a) % U64 = b - a
    <3>1. b - a \in 0 .. U64 - 1 /\ U64 + b - a = (b - a) + U64
      BY <1>1, <2>1, <2>3
    <3>2. ((b - a) + U64) % U64 = b - a
      BY <1>1, <3>1
    <3> QED
      BY <3>1, <3>2
  <2> QED
    BY <2>2, <2>3
<1> QED
  BY <1>3, <1>5, <1>6 DEF total_size

-----------------------------------------------------------------------------
(* The byte of a module at an address after the first m program headers of  *)
(* its file f were copied.                                                  *)
ByteUpTo(n, f, v, m) ==
    LET hits == {s \in Loads(f) : /\ s <= m
                                  /\ v \in f.phdrs[s].vaddr .. f.phdrs[s].vaddr + f.phdrs[s].filesz - 1}
        s == CHOOSE s \in hits : \A t \in hits : t <= s
    IN  IF hits = {} THEN Zero ELSE <<n, f.phdrs[s].offset + v - f.phdrs[s].vaddr>>

(* It is zero before the first, and one more header changes it exactly where*)
(* its segment has file data; all of them make up the image.                *)
LEMMA ByteSteps ==
  ASSUME NEW n, NEW v, ElfType(File(n))
  PROVE  /\ ByteUpTo(n, File(n), v, 0) = Zero
         /\ ByteUpTo(n, File(n), v, Len(File(n).phdrs)) = ByteAt(n, v)
         /\ \A m \in 1 .. Len(File(n).phdrs) :
              LET p == File(n).phdrs[m]
              IN  ByteUpTo(n, File(n), v, m) =
                    IF p.load /\ v \in p.vaddr .. p.vaddr + p.filesz - 1
                    THEN <<n, p.offset + v - p.vaddr>> ELSE ByteUpTo(n, File(n), v, m - 1)
<1> DEFINE f == File(n)
           In(s) == v \in f.phdrs[s].vaddr .. f.phdrs[s].vaddr + f.phdrs[s].filesz - 1
           H(m) == {s \in Loads(f) : s <= m /\ In(s)}
           top(h) == CHOOSE s \in h : \A t \in h : t <= s
           B(h) == IF h = {} THEN Zero
                   ELSE <<n, f.phdrs[top(h)].offset + v - f.phdrs[top(h)].vaddr>>
<1>1. \A m : ByteUpTo(n, File(n), v, m) = B(H(m))
  BY DEF ByteUpTo
<1>2. ByteAt(n, v) = B({s \in Loads(f) : In(s)})
  BY DEF ByteAt
<1>3. Len(f.phdrs) \in Nat /\ Loads(f) \subseteq 1 .. Len(f.phdrs)
  BY DEF ElfType, Loads
<1> HIDE DEF B, In
<1>4. H(0) = {} /\ H(Len(f.phdrs)) = {s \in Loads(f) : In(s)}
  BY <1>3
<1>5. B({}) = Zero
  BY DEF B
<1>6. ASSUME NEW m \in 1 .. Len(f.phdrs)
      PROVE  B(H(m)) = IF f.phdrs[m].load /\ In(m)
                       THEN <<n, f.phdrs[m].offset + v - f.phdrs[m].vaddr>> ELSE B(H(m - 1))
  <2>1. CASE f.phdrs[m].load /\ In(m)
    <3>1. m \in H(m) /\ \A t \in H(m) : t <= m
      BY <1>3, <2>1 DEF Loads
    <3>2. top(H(m)) = m
      <4> DEFINE h == H(m)
                 s0 == top(h)
      <4>1. \E s \in h : \A t \in h : t <= s
        BY <3>1
      <4>2. s0 \in h /\ \A t \in h : t <= s0
        BY <4>1
      <4>3. s0 \in Nat /\ m \in Nat /\ m <= s0 /\ s0 <= m
        BY <1>3, <3>1, <4>2
      <4> QED
        BY <4>3
    <3> HIDE DEF H, top
    <3>3. H(m) # {}
      BY <3>1
    <3> QED
      BY <2>1, <3>2, <3>3 DEF B
  <2>2. CASE ~(f.phdrs[m].load /\ In(m))
    <3>1. H(m) = H(m - 1)
      BY <1>3, <2>2 DEF Loads
    <3> QED
      BY <2>2, <3>1
  <2> QED
    BY <2>1, <2>2
<1> HIDE DEF H
<1>7. /\ ByteUpTo(n, File(n), v, 0) = Zero
      /\ ByteUpTo(n, File(n), v, Len(f.phdrs)) = ByteAt(n, v)
  BY <1>1, <1>2, <1>4, <1>5
<1> QED
  BY <1>1, <1>6, <1>7 DEF In

-----------------------------------------------------------------------------
Members == DOMAIN archive.members

(* Buffer b holds the first m segments of member n, whose file is f. *)
Holds(b, n, f, m) ==
    /\ Loads(f) # {} /\ total_size(f) <= BUF
    /\ \A k \in 0 .. total_size(f) - 1 : b[k] = ByteUpTo(n, f, vaddr_min(f) + k, m)

Whole(b, n, f) == Holds(b, n, f, Len(f.phdrs))

(* The types that the loader's steps rely on: the archive, the entries that *)
(* parse() kept, and that a module is loaded only while a buffer is left.   *)
LoaderTypes ==
    /\ archive \in Archives \cup {NoArchive}
    /\ entries \in Seq({archive.header[o] : o \in DOMAIN archive.header})
    /\ next \in Nat
    /\ loaded \in Seq(Members) /\ mod_idx = Len(loaded) /\ mod_idx <= MAX_MODULES
    /\ step = "find" => archive = NoArchive /\ entries = <<>> /\ loaded = <<>> /\ tasks = {}
    /\ step \in {"load", "copy"} => next < Len(entries) /\ mod_idx < MAX_MODULES
    /\ DOMAIN MODULE_BUFS = 0 .. MAX_MODULES - 1

(* The buffers below mod_idx hold whole modules, the one at mod_idx the     *)
(* segments copied so far, and every task belongs to a loaded module.       *)
ImageInv ==
    /\ LoaderTypes
    /\ \A i \in 1 .. Len(loaded) : Whole(MODULE_BUFS[i - 1], loaded[i], File(loaded[i]))
    /\ step = "copy" =>
          /\ seg \in 1 .. Len(elf.phdrs) + 1
          /\ Holds(MODULE_BUFS[mod_idx], member, elf, seg - 1)
    /\ \A t \in tasks :
          /\ t.buf \in 0 .. mod_idx - 1
          /\ t.member = loaded[t.buf + 1]
          /\ t.entry = (U64 + File(t.member).entry - vaddr_min(File(t.member))) % U64

(* The module at hand is a member of the archive, with u64 fields. *)
LEMMA MemberTyped ==
  ASSUME LoaderTypes
  PROVE  /\ \A n \in Members : ElfType(File(n))
         /\ step \in {"load", "copy"} => member \in Members
<1>1. ArchiveType(archive)
  BY LoaderConstants DEF LoaderTypes, ArchiveType, NoArchive
<1>2. \A n \in Members : ElfType(File(n))
  BY <1>1 DEF ArchiveType, Members, File
<1>3. ASSUME step \in {"load", "copy"} PROVE member \in Members
  <2>1. next + 1 \in 1 .. Len(entries)
    BY <1>3 DEF LoaderTypes
  <2>2. entries[next + 1] \in {archive.header[o] : o \in DOMAIN archive.header}
    BY <2>1 DEF LoaderTypes
  <2> QED
    BY <1>1, <2>2 DEF ArchiveType, member, Members
<1> QED
  BY <1>2, <1>3

(* A step that leaves the buffers, the modules and the tasks alone. *)
LEMMA ImageFrame ==
  ASSUME ImageInv, LoaderTypes', UNCHANGED <<archive, MODULE_BUFS, loaded, mod_idx, tasks>>,
         step' # "copy"
  PROVE  ImageInv'
<1>1. \A n : File(n)' = File(n)
  BY DEF File
<1> QED
  BY <1>1 DEF ImageInv

(* What one segment adds to the buffer. *)
LEMMA CopyAdds ==
  ASSUME NEW n, ElfType(File(n)), NEW b, NEW c,
         NEW m \in 1 .. Len(File(n).phdrs), Holds(b, n, File(n), m - 1),
         LET f == File(n)
             p == f.phdrs[m]
             d == p.vaddr - vaddr_min(f)
         IN  IF p.load
             THEN c = [k \in 0 .. BUF - 1 |->
                         IF k \in d .. d + p.filesz - 1 THEN <<n, p.offset + k - d>> ELSE b[k]]
             ELSE c = b
  PROVE  Holds(c, n, File(n), m)
<1> DEFINE f == File(n)
           p == f.phdrs[m]
           lo == vaddr_min(f)
           d == p.vaddr - lo
           N == total_size(f)
<1>1. Loads(f) # {} /\ N <= BUF
  BY DEF Holds
<1>2. /\ p.vaddr \in Nat /\ p.filesz \in Nat /\ p.offset \in Nat
      /\ lo \in Nat /\ N \in Nat /\ BUF \in Nat
  <2>1. U64 \in Nat /\ BUF \in Nat
    BY LoaderConstants
  <2>2. {p.vaddr, p.filesz, p.offset} \subseteq u64
    BY DEF ElfType
  <2>3. lo \in u64 /\ N \in Nat
    BY <1>1, Span
  <2> QED
    BY <2>1, <2>2, <2>3 DEF u64
<1>3. ASSUME NEW k \in 0 .. N - 1 PROVE c[k] = ByteUpTo(n, f, lo + k, m)
  <2>1. k \in 0 .. BUF - 1 /\ k \in Nat
    BY <1>1, <1>2
  <2>2. b[k] = ByteUpTo(n, f, lo + k, m - 1)
    BY DEF Holds
  <2>3. ByteUpTo(n, f, lo + k, m) =
          IF p.load /\ lo + k \in p.vaddr .. p.vaddr + p.filesz - 1
          THEN <<n, p.offset + (lo + k) - p.vaddr>> ELSE ByteUpTo(n, f, lo + k, m - 1)
    BY ByteSteps
  <2>4. /\ k \in d .. d + p.filesz - 1 <=> lo + k \in p.vaddr .. p.vaddr + p.filesz - 1
        /\ p.offset + k - d = p.offset + (lo + k) - p.vaddr
    <3> DEFINE va == p.vaddr
               sz == p.filesz
               off == p.offset
    <3>1. va \in Nat /\ sz \in Nat /\ off \in Nat /\ lo \in Nat
      BY <1>2
    <3>2. d = va - lo
      OBVIOUS
    <3> HIDE DEF va, sz, off, lo, d
    <3>3. /\ k \in d .. d + sz - 1 <=> lo + k \in va .. va + sz - 1
          /\ off + k - d = off + (lo + k) - va
      BY <2>1, <3>1, <3>2
    <3> QED
      BY <3>3 DEF va, sz, off
  <2>5. c[k] = IF p.load /\ k \in d .. d + p.filesz - 1 THEN <<n, p.offset + k - d>> ELSE b[k]
    BY <2>1
  <2> HIDE DEF p, lo, N, d
  <2> QED
    BY <2>2, <2>3, <2>4, <2>5
<1> QED
  BY <1>1, <1>3 DEF Holds

(* The loader's types, step by step. *)
LEMMA LoaderTypesStep ==
  ASSUME LoaderTypes, [LoaderNext]_loaderVars
  PROVE  LoaderTypes'
<1> USE DEF LoaderTypes, parsing
<1>0. MAX_MODULES \in Nat /\ BUF \in Nat
  BY LoaderConstants
<1>1. CASE FindInitrd
  <2>1. /\ UNCHANGED <<entries, next, loaded, mod_idx, MODULE_BUFS>>
        /\ step' \in {"halted", "parse"}
        /\ archive' \in Archives \cup {NoArchive}
        /\ entries = <<>> /\ loaded = <<>>
    BY <1>1 DEF FindInitrd
  <2> QED
    BY <2>1
<1>2. CASE Parse
  <2>1. /\ UNCHANGED <<archive, next, loaded, mod_idx, MODULE_BUFS>>
        /\ step' \in {"font", "halted", "panic", "parse"}
        /\ step = "parse"
    BY <1>2 DEF Parse
  <2>2. entries' \in Seq({archive.header[o] : o \in DOMAIN archive.header})
    <3>1. CASE UNCHANGED entries
      BY <3>1
    <3>2. CASE ~AtEnd /\ entries' = Append(entries, Hdr(offset))
      <4>1. Hdr(offset) \in {archive.header[o] : o \in DOMAIN archive.header}
        BY <3>2 DEF AtEnd, Hdr
      <4> QED
        BY <3>2, <4>1
    <3> QED
      BY <1>2, <3>1, <3>2 DEF Parse
  <2> QED
    BY <2>1, <2>2 DEF Members
<1>3. CASE LoadFont
  BY <1>3 DEF LoadFont, Members
<1>4. CASE NextEntry
  BY <1>0, <1>4 DEF NextEntry, Members
<1>5. CASE LoadAt
  BY <1>5 DEF LoadAt, Refused, Members
<1>6. CASE CopySegment
  <2>1. /\ UNCHANGED <<archive, entries, loaded, mod_idx>>
        /\ step' \in {"scan", "panic", "copy"}
        /\ step' = "copy" => next' = next
        /\ next' \in Nat
        /\ mod_idx < MAX_MODULES /\ next < Len(entries)
    BY <1>6 DEF CopySegment, Refused
  <2>2. DOMAIN MODULE_BUFS' = DOMAIN MODULE_BUFS
    BY <1>6 DEF CopySegment
  <2> QED
    BY <2>1, <2>2 DEF Members
<1>7. CASE SpawnModule
  <2>1. member \in Members
    BY <1>7, MemberTyped DEF SpawnModule
  <2>2. loaded' \in Seq(Members) /\ Len(loaded') = Len(loaded) + 1
    BY <1>7, <2>1 DEF SpawnModule
  <2> QED
    BY <1>0, <1>7, <2>2 DEF SpawnModule, Members
<1>8. CASE SpawnShell
  BY <1>8 DEF SpawnShell, Members
<1>9. CASE UNCHANGED loaderVars
  BY <1>9 DEF loaderVars, Members
<1> QED
  BY <1>1, <1>2, <1>3, <1>4, <1>5, <1>6, <1>7, <1>8, <1>9 DEF LoaderNext

(* buffer.fill(0) leaves no byte of the module that had the buffer before. *)
LEMMA ImageLoadAt ==
  ASSUME ImageInv, LoadAt
  PROVE  ImageInv'
<1>0. LoaderTypes /\ LoaderTypes'
  BY LoaderTypesStep DEF ImageInv, LoaderNext
<1>1. /\ UNCHANGED <<archive, entries, loaded, mod_idx, tasks>>
      /\ mod_idx \in 0 .. MAX_MODULES - 1
  <2>1. UNCHANGED <<archive, entries, loaded, mod_idx, tasks>> /\ step \in {"load", "copy"}
    BY DEF LoadAt, parsing
  <2>2. mod_idx \in Nat /\ mod_idx < MAX_MODULES /\ MAX_MODULES \in Nat
    BY <1>0, <2>1, LoaderConstants DEF LoaderTypes
  <2> QED
    BY <2>1, <2>2
<1>2. CASE step' # "copy"
  <2>1. UNCHANGED MODULE_BUFS
    BY <1>2 DEF LoadAt
  <2> QED
    BY <1>0, <1>1, <1>2, <2>1, ImageFrame
<1>3. CASE step' = "copy"
  <2>1. /\ Loads(elf) # {} /\ total_size(elf) <= BUF
        /\ MODULE_BUFS' = [MODULE_BUFS EXCEPT ![mod_idx] = Zeroed(@, total_size(elf))]
        /\ seg' = 1 /\ next' = next
    BY <1>3 DEF LoadAt, Refused, HasSpan
  <2>2. member' = member /\ elf' = elf /\ \A n : File(n)' = File(n)
    BY <1>1, <2>1 DEF member, elf, File
  <2>3. ElfType(elf) /\ elf = File(member)
    BY <1>0, MemberTyped DEF LoadAt, elf
  <2>4. total_size(elf) \in Nat /\ BUF \in Nat
    BY <2>1, <2>3, Span, LoaderConstants
  <2>5. MODULE_BUFS'[mod_idx] = Zeroed(MODULE_BUFS[mod_idx], total_size(elf))
    BY <1>0, <1>1, <2>1 DEF LoaderTypes
  <2>6. Holds(MODULE_BUFS'[mod_idx], member, elf, 0)
    <3>1. ASSUME NEW k \in 0 .. total_size(elf) - 1
          PROVE  /\ MODULE_BUFS'[mod_idx][k] = Zero
                 /\ ByteUpTo(member, elf, vaddr_min(elf) + k, 0) = Zero
      <4>1. k \in 0 .. BUF - 1 /\ k < total_size(elf)
        BY <2>1, <2>4
      <4> QED
        BY <2>3, <2>5, <4>1, ByteSteps DEF Zeroed
    <3> QED
      BY <2>1, <3>1 DEF Holds
  <2>7. ASSUME NEW i \in 1 .. Len(loaded)
        PROVE  MODULE_BUFS'[i - 1] = MODULE_BUFS[i - 1]
    BY <1>0, <1>1, <2>1 DEF LoaderTypes
  <2>8. seg' \in 1 .. Len(elf.phdrs) + 1 /\ seg' - 1 = 0
    BY <2>1, <2>3 DEF ElfType
  <2> QED
    BY <1>0, <1>1, <1>3, <2>2, <2>6, <2>7, <2>8 DEF ImageInv
<1> QED
  BY <1>2, <1>3

(* A segment is copied into the buffer at mod_idx only. *)
LEMMA ImageCopy ==
  ASSUME ImageInv, CopySegment
  PROVE  ImageInv'
<1>0. LoaderTypes /\ LoaderTypes'
  BY LoaderTypesStep DEF ImageInv, LoaderNext
<1>1. /\ UNCHANGED <<archive, entries, loaded, mod_idx, tasks>>
      /\ mod_idx \in 0 .. MAX_MODULES - 1
  <2>1. UNCHANGED <<archive, entries, loaded, mod_idx, tasks>> /\ step \in {"load", "copy"}
    BY DEF CopySegment, parsing
  <2>2. mod_idx \in Nat /\ mod_idx < MAX_MODULES /\ MAX_MODULES \in Nat
    BY <1>0, <2>1, LoaderConstants DEF LoaderTypes
  <2> QED
    BY <2>1, <2>2
<1>2. CASE step' # "copy"
  <2>1. UNCHANGED MODULE_BUFS
    BY <1>2 DEF CopySegment
  <2> QED
    BY <1>0, <1>1, <1>2, <2>1, ImageFrame
<1>3. CASE step' = "copy"
  <2> DEFINE p == elf.phdrs[seg]
             d == dst_off(p)
             b == MODULE_BUFS[mod_idx]
             c == MODULE_BUFS'[mod_idx]
             new == [k \in 0 .. BUF - 1 |->
                       IF k \in d .. d + p.filesz - 1 THEN <<member, p.offset + k - d>> ELSE b[k]]
  <2>1. /\ seg \in 1 .. Len(elf.phdrs) + 1 /\ seg <= Len(elf.phdrs)
        /\ Holds(b, member, elf, seg - 1)
        /\ ElfType(elf) /\ elf = File(member)
    BY <1>0, MemberTyped DEF CopySegment, ImageInv, elf
  <2>2. /\ seg' = seg + 1 /\ next' = next
        /\ MODULE_BUFS' = IF p.load THEN [MODULE_BUFS EXCEPT ![mod_idx] = new] ELSE MODULE_BUFS
    BY <1>3 DEF CopySegment, Refused
  <2>3. member' = member /\ elf' = elf /\ \A n : File(n)' = File(n)
    BY <1>1, <2>2 DEF member, elf, File
  <2>4. seg \in 1 .. Len(elf.phdrs) /\ seg' \in 1 .. Len(elf.phdrs) + 1 /\ seg' - 1 = seg
    BY <2>1, <2>2 DEF ElfType
  <2>5. c = IF p.load THEN new ELSE b
    <3> HIDE DEF new
    <3> QED
      BY <1>0, <1>1, <2>2 DEF LoaderTypes
  <2>6. Holds(c, member, elf, seg)
    <3>1. d = p.vaddr - vaddr_min(elf)
      BY DEF dst_off
    <3> QED
      BY <2>1, <2>4, <2>5, <3>1, CopyAdds
  <2>7. ASSUME NEW i \in 1 .. Len(loaded)
        PROVE  MODULE_BUFS'[i - 1] = MODULE_BUFS[i - 1]
    <3> HIDE DEF new
    <3> QED
      BY <1>0, <1>1, <2>2 DEF LoaderTypes
  <2> QED
    BY <1>0, <1>1, <1>3, <2>3, <2>4, <2>6, <2>7 DEF ImageInv
<1> QED
  BY <1>2, <1>3

(* A module whose last segment was copied is whole. *)
LEMMA ImageSpawn ==
  ASSUME ImageInv, SpawnModule
  PROVE  ImageInv'
<1>0. LoaderTypes /\ LoaderTypes'
  BY LoaderTypesStep DEF ImageInv, LoaderNext
<1>1. /\ UNCHANGED <<archive, MODULE_BUFS>> /\ step' = "scan"
      /\ loaded' = Append(loaded, member) /\ mod_idx' = mod_idx + 1
      /\ step = "copy" /\ seg > Len(elf.phdrs)
  BY DEF SpawnModule, parsing
<1>2. member \in Members /\ ElfType(elf) /\ elf = File(member) /\ \A n : File(n)' = File(n)
  BY <1>0, <1>1, MemberTyped DEF elf, File
<1>3. /\ loaded \in Seq(Members) /\ mod_idx = Len(loaded) /\ mod_idx \in Nat
      /\ Len(loaded') = mod_idx + 1 /\ loaded'[mod_idx + 1] = member
      /\ \A i \in 1 .. mod_idx : loaded'[i] = loaded[i]
  BY <1>0, <1>1, <1>2 DEF LoaderTypes
<1>4. Whole(MODULE_BUFS[mod_idx], member, elf)
  <2>1. seg - 1 = Len(elf.phdrs)
    BY <1>1, <1>2 DEF ImageInv, ElfType
  <2> QED
    BY <1>1, <2>1 DEF ImageInv, Whole
<1>5. ASSUME NEW i \in 1 .. Len(loaded')
      PROVE  Whole(MODULE_BUFS'[i - 1], loaded'[i], File(loaded'[i]))
  <2>1. CASE i = mod_idx + 1
    <3>1. i - 1 = mod_idx
      BY <1>3, <2>1
    <3> QED
      BY <1>1, <1>2, <1>3, <1>4, <2>1, <3>1
  <2>2. CASE i \in 1 .. mod_idx
    BY <1>1, <1>3, <2>2 DEF ImageInv
  <2> QED
    BY <1>3, <2>1, <2>2
<1>6. ASSUME NEW t \in tasks'
      PROVE  /\ t.buf \in 0 .. mod_idx' - 1
             /\ t.member = loaded'[t.buf + 1]
             /\ t.entry = (U64 + File(t.member).entry - vaddr_min(File(t.member))) % U64
  <2>1. CASE t \in tasks
    <3>1. /\ t.buf \in 0 .. mod_idx - 1
          /\ t.member = loaded[t.buf + 1]
          /\ t.entry = (U64 + File(t.member).entry - vaddr_min(File(t.member))) % U64
      BY <2>1 DEF ImageInv
    <3>2. t.buf + 1 \in 1 .. mod_idx /\ t.buf \in 0 .. mod_idx' - 1
      BY <1>1, <1>3, <3>1
    <3> QED
      BY <1>3, <3>1, <3>2
  <2>2. CASE t = [buf |-> mod_idx, member |-> member,
                  entry |-> (U64 + elf.entry - vaddr_min(elf)) % U64]
    BY <1>1, <1>2, <1>3, <2>2
  <2> QED
    BY <2>1, <2>2 DEF SpawnModule
<1> QED
  BY <1>0, <1>1, <1>2, <1>5, <1>6 DEF ImageInv

(* Every step of the loader keeps ImageInv. *)
LEMMA ImageStep == ImageInv /\ [LoaderNext]_loaderVars => ImageInv'
<1> SUFFICES ASSUME ImageInv, [LoaderNext]_loaderVars PROVE ImageInv'
  OBVIOUS
<1>0. LoaderTypes /\ LoaderTypes'
  BY LoaderTypesStep DEF ImageInv
<1>1. CASE FindInitrd
  BY <1>0, <1>1 DEF FindInitrd, ImageInv, LoaderTypes
<1>2. CASE Parse \/ LoadFont \/ NextEntry \/ SpawnShell
  <2>1. UNCHANGED <<archive, MODULE_BUFS, loaded, mod_idx, tasks>> /\ step' # "copy"
    BY <1>2 DEF Parse, LoadFont, NextEntry, SpawnShell, parsing
  <2> QED
    BY <1>0, <2>1, ImageFrame
<1>3. CASE UNCHANGED loaderVars
  BY <1>0, <1>3 DEF loaderVars, parsing, ImageInv, File, elf, member
<1> QED
  BY <1>1, <1>2, <1>3, ImageLoadAt, ImageCopy, ImageSpawn DEF LoaderNext

(* The buffers below mod_idx are the images of their files, and a task's    *)
(* entry point is the byte at e_entry.                                      *)
LEMMA ImageInvMeans == ImageInv => ImagesIntact
<1> SUFFICES ASSUME ImageInv PROVE ImagesIntact
  OBVIOUS
<1>0. LoaderTypes /\ U64 \in Nat \ {0}
  BY LoaderConstants DEF ImageInv
<1>1. ASSUME NEW i \in 1 .. Len(loaded)
      PROVE  /\ ElfType(File(loaded[i])) /\ Loads(File(loaded[i])) # {}
             /\ \A k \in 0 .. total_size(File(loaded[i])) - 1 :
                  MODULE_BUFS[i - 1][k] = ByteAt(loaded[i], vaddr_min(File(loaded[i])) + k)
  <2> DEFINE n == loaded[i]
  <2>1. n \in Members
    BY <1>0 DEF LoaderTypes
  <2>2. ElfType(File(n)) /\ Whole(MODULE_BUFS[i - 1], n, File(n))
    BY <1>0, <2>1, MemberTyped DEF ImageInv
  <2> HIDE DEF n
  <2>3. \A v : ByteUpTo(n, File(n), v, Len(File(n).phdrs)) = ByteAt(n, v)
    BY <2>2, ByteSteps
  <2>4. /\ Loads(File(n)) # {}
        /\ \A k \in 0 .. total_size(File(n)) - 1 :
             MODULE_BUFS[i - 1][k] = ByteAt(n, vaddr_min(File(n)) + k)
    BY <2>2, <2>3 DEF Whole, Holds
  <2> QED
    BY <2>2, <2>4 DEF n
<1>2. ASSUME NEW t \in tasks,
             File(t.member).entry \in vaddr_min(File(t.member)) .. vaddr_max(File(t.member)) - 1
      PROVE  MODULE_BUFS[t.buf][t.entry] = ByteAt(t.member, File(t.member).entry)
  <2> DEFINE f == File(t.member)
             e == f.entry
             lo == vaddr_min(f)
             hi == vaddr_max(f)
             i == t.buf + 1
  <2>1. /\ i \in 1 .. Len(loaded) /\ i - 1 = t.buf /\ t.member = loaded[i]
        /\ t.entry = (U64 + e - lo) % U64
    BY <1>0 DEF ImageInv, LoaderTypes
  <2>2. ElfType(f) /\ Loads(f) # {}
    BY <1>1, <2>1
  <2>3. /\ lo \in 0 .. U64 - 1 /\ hi \in 0 .. U64 - 1
        /\ hi > lo => total_size(f) = hi - lo
    BY <2>2, Span DEF u64
  <2>4. e \in lo .. hi - 1
    BY <1>2
  <2>5. \A k \in 0 .. total_size(f) - 1 : MODULE_BUFS[t.buf][k] = ByteAt(t.member, lo + k)
    BY <1>1, <2>1
  <2> HIDE DEF f, e, lo, hi, i
  <2>6. /\ e - lo \in 0 .. U64 - 1 /\ U64 + e - lo = (e - lo) + U64
        /\ e - lo \in 0 .. (hi - lo) - 1 /\ hi > lo /\ lo + (e - lo) = e
    BY <1>0, <2>3, <2>4
  <2>7. ((e - lo) + U64) % U64 = e - lo
    BY <1>0, <2>6
  <2>8. t.entry = e - lo /\ t.entry \in 0 .. total_size(f) - 1
    BY <2>1, <2>3, <2>6, <2>7
  <2>9. MODULE_BUFS[t.buf][t.entry] = ByteAt(t.member, lo + (e - lo))
    BY <2>5, <2>8
  <2> QED
    BY <2>6, <2>9 DEF e, f
<1> QED
  BY <1>1, <1>2 DEF ImagesIntact

(* Every module that was loaded stays byte for byte the image of its file,  *)
(* for every archive: later modules and refused ones leave it alone, and    *)
(* nothing of a refused one is left in the buffer it had.                   *)
THEOREM ImagesStayIntact == BootSpec => []ImagesIntact
<1>1. LoaderInit => ImageInv
  <2> SUFFICES ASSUME LoaderInit PROVE ImageInv
    OBVIOUS
  <2>1. LoaderTypes
    BY LoaderConstants DEF LoaderInit, LoaderTypes
  <2> QED
    BY <2>1 DEF LoaderInit, ImageInv
<1>2. [BootNext]_bootVars => [LoaderNext]_loaderVars
  BY DEF BootNext, bootVars, UseDisk, LoadModules, Over
<1> QED
  BY <1>1, <1>2, ImageStep, ImageInvMeans, PTL DEF BootSpec, BootInit

-----------------------------------------------------------------------------
(* The blocks that parse() passes over are those of the data. *)
LEMMA BlocksArePadded == \A n \in Nat : Blocks(n) = Padded(n) /\ Blocks(n) \in Nat
<1> SUFFICES ASSUME NEW n \in Nat PROVE Blocks(n) = Padded(n) /\ Blocks(n) \in Nat
  OBVIOUS
<1>0. PICK B \in Nat \ {0} : B = BLOCK
  BY LoaderConstants
<1>1. PICK q \in Nat : q = (n + B - 1) \div B
  BY <1>0
<1>2. q * B <= n + B - 1 /\ n + B - 1 < q * B + B
  BY <1>0, <1>1
<1>3. q * B \in n .. n + B - 1 /\ (q * B) % B = 0
  BY <1>2
<1>4. ASSUME NEW d \in n .. n + B - 1, d % B = 0 PROVE d = q * B
  <2>1. PICK r \in Nat : d = r * B
    <3>1. d \div B \in Nat /\ d = (d \div B) * B
      BY <1>4
    <3> QED
      BY <3>1
  <2>2. r = q
    <3>1. r * B < (q + 1) * B /\ q * B < (r + 1) * B
      BY <1>3, <2>1
    <3>2. r < q + 1 /\ q < r + 1
      BY <3>1
    <3> QED
      BY <3>2
  <2> QED
    BY <2>1, <2>2
<1>5. Blocks(n) = q * B
  BY <1>0, <1>1 DEF Blocks
<1>6. Padded(n) = q * B
  <2>1. Padded(n) = CHOOSE d \in n .. n + B - 1 : d % B = 0
    BY <1>0 DEF Padded
  <2> QED
    BY <1>3, <1>4, <2>1
<1> QED
  BY <1>5, <1>6

(* What a header says, and where the next one is. *)
LEMMA Layout ==
  ASSUME NEW a, ArchiveType(a), NEW o \in DOMAIN a.header
  PROVE  /\ o \in Nat /\ a.header[o].member \in 1 .. Len(a.list)
         /\ Len(a.list) \in Nat /\ a.len \in Nat
         /\ a.header[o] = a.list[a.header[o].member]
         /\ parse_octal(a.header[o].digits) = SizeOf(a.header[o])
         /\ SizeOf(a.header[o]) \in Nat
         /\ SizeOf(a.header[o]) = a.members[a.header[o].member].len
         /\ \A q \in DOMAIN a.header : o < q <=> a.header[o].member < a.header[q].member
<1>1. /\ o \in Nat /\ a.header[o].member \in 1 .. Len(a.list)
      /\ Len(a.list) \in Nat /\ a.len \in Nat
      /\ a.header[o] = a.list[a.header[o].member]
      /\ parse_octal(a.header[o].digits) = a.members[a.header[o].member].len
      /\ a.header[o].dir => a.members[a.header[o].member].len = 0
      /\ \A q \in DOMAIN a.header : o < q <=> a.header[o].member < a.header[q].member
  BY DEF ArchiveType
<1>2. a.members[a.header[o].member].len \in Nat
  BY <1>1 DEF ArchiveType, ElfType
<1> QED
  BY <1>1, <1>2 DEF SizeOf, IsDir

LEMMA NextHeader ==
  ASSUME NEW a, ArchiveType(a), NEW o \in DOMAIN a.header,
         NEW q, q = o + BLOCK + Blocks(SizeOf(a.header[o]))
  PROVE  /\ a.header[o].member < Len(a.list) =>
               q \in DOMAIN a.header /\ a.header[q].member = a.header[o].member + 1
         /\ a.header[o].member = Len(a.list) => q \notin DOMAIN a.header
<1>1. /\ o \in Nat /\ SizeOf(a.header[o]) \in Nat /\ Len(a.list) \in Nat
      /\ SizeOf(a.header[o]) = a.members[a.header[o].member].len
      /\ \A x \in DOMAIN a.header : o < x <=> a.header[o].member < a.header[x].member
  BY Layout
<1>2. /\ Blocks(SizeOf(a.header[o])) = Padded(a.members[a.header[o].member].len)
      /\ Blocks(SizeOf(a.header[o])) \in Nat /\ BLOCK \in Nat \ {0}
  BY <1>1, BlocksArePadded, LoaderConstants
<1>3. q = o + BLOCK + Padded(a.members[a.header[o].member].len) /\ o < q
  BY <1>1, <1>2
<1>4. a.header[o].member < Len(a.list) =>
         q \in DOMAIN a.header /\ a.header[q].member = a.header[o].member + 1
  BY <1>3 DEF ArchiveType
<1>5. ASSUME a.header[o].member = Len(a.list), q \in DOMAIN a.header PROVE FALSE
  <2>1. a.header[q].member \in 1 .. Len(a.list)
    BY <1>5, Layout
  <2>2. Len(a.list) < a.header[q].member
    BY <1>1, <1>3, <1>5
  <2>3. PICK n \in Nat : n = Len(a.list)
    BY <1>1
  <2>4. PICK m \in 1 .. n : m = a.header[q].member
    BY <2>1, <2>3
  <2> QED
    BY <2>2, <2>3, <2>4
<1> QED
  BY <1>4, <1>5

(* How many of the first i members are counted. *)
CountTo(a, i) == Cardinality({j \in 1 .. i : Counted(a, j)})

LEMMA CountGrows ==
  ASSUME NEW a, NEW i \in Nat
  PROVE  /\ CountTo(a, 0) = 0 /\ CountTo(a, i) \in Nat
         /\ Counted(a, i + 1) => CountTo(a, i + 1) = CountTo(a, i) + 1
         /\ ~Counted(a, i + 1) => CountTo(a, i + 1) = CountTo(a, i)
         /\ \A k \in Nat : k > i /\ Counted(a, k) => CountTo(a, k) >= CountTo(a, i) + 1
<1> DEFINE C(n) == {j \in 1 .. n : Counted(a, j)}
<1>1. \A n \in Nat : IsFiniteSet(C(n)) /\ Cardinality(C(n)) \in Nat
  <2> SUFFICES ASSUME NEW n \in Nat PROVE IsFiniteSet(C(n)) /\ Cardinality(C(n)) \in Nat
    OBVIOUS
  <2>1. IsFiniteSet(1 .. n)
    BY FS_Interval
  <2>2. C(n) \subseteq 1 .. n
    OBVIOUS
  <2>3. IsFiniteSet(C(n))
    BY <2>1, <2>2, FS_Subset
  <2> QED
    BY <2>3, FS_CardinalityType
<1>2. C(0) = {} /\ Cardinality({}) = 0
  BY FS_EmptySet
<1>3. Counted(a, i + 1) => C(i + 1) = C(i) \cup {i + 1} /\ i + 1 \notin C(i)
  OBVIOUS
<1>4. ~Counted(a, i + 1) => C(i + 1) = C(i)
  OBVIOUS
<1>5. ASSUME NEW k \in Nat, k > i, Counted(a, k) PROVE Cardinality(C(k)) >= Cardinality(C(i)) + 1
  <2>1. C(i) \cup {k} \subseteq C(k) /\ k \notin C(i)
    BY <1>5
  <2>2. Cardinality(C(i) \cup {k}) = Cardinality(C(i)) + 1
    BY <1>1, <2>1, FS_AddElement
  <2>3. Cardinality(C(i) \cup {k}) <= Cardinality(C(k))
    BY <1>1, <2>1, FS_Subset
  <2> QED
    BY <1>1, <2>2, <2>3
<1>6. Counted(a, i + 1) => Cardinality(C(i + 1)) = Cardinality(C(i)) + 1
  BY <1>1, <1>3, FS_AddElement
<1> QED
  BY <1>1, <1>2, <1>4, <1>5, <1>6 DEF CountTo

(* The entries es stand for counted members below p, all of them. *)
Tabled(a, es, p) ==
    /\ \A k \in 1 .. Len(es) :
          /\ es[k].member \in 1 .. p - 1 /\ es[k] = a.list[es[k].member]
          /\ Counted(a, es[k].member) /\ CountTo(a, es[k].member) = k
    /\ \A k, l \in 1 .. Len(es) : k < l => es[k].member < es[l].member
    /\ \A j \in 1 .. p - 1 : Counted(a, j) => \E k \in 1 .. Len(es) : es[k].member = j
    /\ CountTo(a, p - 1) = Len(es) /\ Len(es) <= MAX_ENTRIES

(* parse() has come to the header of member p, or to the end. *)
ParsedTo(a, off, es, p) ==
    /\ p <= Len(a.list) => off \in DOMAIN a.header /\ a.header[off].member = p
    /\ p > Len(a.list) => off \notin DOMAIN a.header
    /\ Tabled(a, es, p)

(* The entries are the members that can be kept. *)
AllKept(a, es) ==
    /\ \A k \in 1 .. Len(es) : es[k].member \in Kept(a) /\ es[k] = a.list[es[k].member]
    /\ \A k, l \in 1 .. Len(es) : k < l => es[k].member < es[l].member
    /\ \A i \in Kept(a) : \E k \in 1 .. Len(es) : es[k].member = i

LEMMA ParseEnds ==
  ASSUME NEW a, ArchiveType(a), NEW off, NEW es, Len(es) \in Nat, NEW p \in 1 .. Len(a.list) + 1,
         ParsedTo(a, off, es, p),
         \/ off \in DOMAIN a.header /\ off + BLOCK > a.len
         \/ Len(es) = MAX_ENTRIES
         \/ off \notin DOMAIN a.header
  PROVE  AllKept(a, es)
<1>0. Len(a.list) \in Nat /\ MAX_ENTRIES \in Nat /\ BLOCK \in Nat
  BY LoaderConstants DEF ArchiveType
<1>1. ASSUME NEW k \in 1 .. Len(es) PROVE es[k].member \in Kept(a)
  <2>1. es[k].member \in 1 .. Len(a.list) /\ Counted(a, es[k].member)
    BY <1>0 DEF ParsedTo, Tabled
  <2>2. CountTo(a, es[k].member) = k /\ k <= MAX_ENTRIES
    BY <1>0 DEF ParsedTo, Tabled
  <2> QED
    BY <2>1, <2>2 DEF Kept, CountTo
<1>2. ASSUME NEW i \in Kept(a), i >= p PROVE FALSE
  <2>1. i \in 1 .. Len(a.list) /\ Counted(a, i) /\ CountTo(a, i) <= MAX_ENTRIES
    BY DEF Kept, CountTo
  <2>2. p <= Len(a.list)
    BY <1>0, <1>2, <2>1
  <2>3. off \in DOMAIN a.header /\ a.header[off].member = p
    BY <2>2 DEF ParsedTo
  <2>4. CASE off + BLOCK > a.len
    <3>1. PICK o \in DOMAIN a.header : a.header[o].member = i /\ o + BLOCK <= a.len
      BY <2>1 DEF Counted
    <3>2. /\ o \in Nat /\ off \in Nat /\ a.len \in Nat
          /\ o < off <=> i < p
      BY <2>3, <3>1, Layout
    <3> QED
      BY <1>0, <1>2, <2>1, <2>4, <3>1, <3>2
  <2>5. CASE Len(es) = MAX_ENTRIES
    <3>1. p - 1 \in Nat /\ i > p - 1 /\ i \in Nat
      BY <1>0, <1>2, <2>1
    <3>2. CountTo(a, i) >= CountTo(a, p - 1) + 1 /\ CountTo(a, p - 1) \in Nat /\ CountTo(a, i) \in Nat
      BY <2>1, <3>1, CountGrows
    <3>3. CountTo(a, p - 1) = MAX_ENTRIES
      BY <2>5 DEF ParsedTo, Tabled
    <3> QED
      BY <1>0, <2>1, <3>2, <3>3
  <2> QED
    BY <2>3, <2>4, <2>5
<1>3. ASSUME NEW i \in Kept(a) PROVE \E k \in 1 .. Len(es) : es[k].member = i
  <2>1. i \in 1 .. Len(a.list) /\ Counted(a, i)
    BY DEF Kept
  <2>2. i \in 1 .. p - 1
    BY <1>0, <1>2, <2>1
  <2> QED
    BY <2>1, <2>2 DEF ParsedTo, Tabled
<1> QED
  BY <1>1, <1>3 DEF AllKept, ParsedTo, Tabled

(* A member without a name is passed over, and none that counts is. *)
LEMMA ParsePasses ==
  ASSUME NEW a, ArchiveType(a), NEW off, NEW es, Len(es) \in Nat, NEW p \in 1 .. Len(a.list) + 1,
         ParsedTo(a, off, es, p), off \in DOMAIN a.header, a.header[off].name = "unnamed",
         NEW q, q = off + BLOCK + Blocks(parse_octal(a.header[off].digits))
  PROVE  p + 1 \in 1 .. Len(a.list) + 1 /\ ParsedTo(a, q, es, p + 1)
<1>1. PICK n \in Nat : n = Len(a.list)
  BY DEF ArchiveType
<1>2. p \in 1 .. n /\ a.header[off].member = p
  BY <1>1 DEF ParsedTo
<1>3. a.list[p].name = "unnamed" /\ q = off + BLOCK + Blocks(SizeOf(a.header[off]))
  BY <1>2, Layout
<1>4. /\ p < n => q \in DOMAIN a.header /\ a.header[q].member = p + 1
      /\ p = n => q \notin DOMAIN a.header
  BY <1>1, <1>2, <1>3, NextHeader
<1>5. ~Counted(a, p)
  BY <1>3 DEF Counted
<1>6. CountTo(a, p) = CountTo(a, p - 1)
  <2>1. p - 1 \in Nat /\ (p - 1) + 1 = p
    BY <1>2
  <2> QED
    BY <1>5, <2>1, CountGrows
<1>7. Tabled(a, es, p + 1)
  <2>1. (p + 1) - 1 = p /\ 1 .. p = (1 .. p - 1) \cup {p}
    BY <1>2
  <2>2. Tabled(a, es, p)
    BY DEF ParsedTo
  <2> QED
    BY <1>5, <1>6, <2>1, <2>2 DEF Tabled
<1>8. p + 1 \in 1 .. n + 1 /\ (p + 1 <= n => p < n) /\ (p + 1 > n => p = n)
  BY <1>1, <1>2
<1> QED
  BY <1>1, <1>4, <1>7, <1>8 DEF ParsedTo

(* A member with a name becomes the next entry. *)
LEMMA ParseKeeps ==
  ASSUME NEW a, ArchiveType(a), NEW off, NEW S, NEW es \in Seq(S), NEW p \in 1 .. Len(a.list) + 1,
         ParsedTo(a, off, es, p), off \in DOMAIN a.header, a.header[off].name # "unnamed",
         a.header[off] \in S, off + BLOCK <= a.len, Len(es) # MAX_ENTRIES,
         NEW q, q = off + BLOCK + Blocks(SizeOf(a.header[off])),
         NEW es2, es2 = Append(es, a.header[off])
  PROVE  p + 1 \in 1 .. Len(a.list) + 1 /\ ParsedTo(a, q, es2, p + 1)
<1>0. MAX_ENTRIES \in Nat
  BY LoaderConstants
<1>1. PICK n \in Nat : n = Len(a.list)
  BY DEF ArchiveType
<1>2. p \in 1 .. n /\ a.header[off].member = p
  BY <1>1 DEF ParsedTo
<1>3. a.header[off] = a.list[p]
  BY <1>2, Layout
<1>4. /\ p < n => q \in DOMAIN a.header /\ a.header[q].member = p + 1
      /\ p = n => q \notin DOMAIN a.header
  BY <1>1, <1>2, <1>3, NextHeader
<1>5. Counted(a, p)
  BY <1>2, <1>3 DEF Counted
<1>6. CountTo(a, p) = CountTo(a, p - 1) + 1
  <2>1. p - 1 \in Nat /\ (p - 1) + 1 = p
    BY <1>2
  <2> QED
    BY <1>5, <2>1, CountGrows
<1>7. PICK l \in Nat : l = Len(es)
  OBVIOUS
<1>8. /\ Len(es2) = l + 1 /\ es2[l + 1] = a.header[off]
      /\ \A k \in 1 .. l : es2[k] = es[k]
  BY <1>7
<1>9. Tabled(a, es, p) /\ CountTo(a, p - 1) = l /\ l <= MAX_ENTRIES
  BY <1>7 DEF ParsedTo, Tabled
<1>10. Tabled(a, es2, p + 1)
  <2>1. (p + 1) - 1 = p /\ 1 .. p = (1 .. p - 1) \cup {p} /\ 1 .. l + 1 = (1 .. l) \cup {l + 1}
    BY <1>2, <1>7
  <2>2. ASSUME NEW k \in 1 .. l + 1
        PROVE  /\ es2[k].member \in 1 .. p /\ es2[k] = a.list[es2[k].member]
               /\ Counted(a, es2[k].member) /\ CountTo(a, es2[k].member) = k
    <3>1. CASE k = l + 1
      BY <1>2, <1>3, <1>5, <1>6, <1>8, <1>9, <3>1
    <3>2. CASE k \in 1 .. l
      BY <1>7, <1>8, <1>9, <2>1, <3>2 DEF Tabled
    <3> QED
      BY <2>1, <3>1, <3>2
  <2>3. ASSUME NEW k \in 1 .. l + 1, NEW m \in 1 .. l + 1, k < m
        PROVE  es2[k].member < es2[m].member
    <3>1. k \in 1 .. l
      BY <2>3
    <3>2. es2[k].member = es[k].member /\ es[k].member \in 1 .. p - 1
      BY <1>7, <1>8, <1>9, <3>1 DEF Tabled
    <3>3. CASE m = l + 1
      BY <1>2, <1>8, <3>2, <3>3
    <3>4. CASE m \in 1 .. l
      BY <1>7, <1>8, <1>9, <2>3, <3>1, <3>2, <3>4 DEF Tabled
    <3> QED
      BY <2>1, <3>3, <3>4
  <2>4. ASSUME NEW j \in 1 .. p, Counted(a, j)
        PROVE  \E k \in 1 .. l + 1 : es2[k].member = j
    <3>1. CASE j = p
      BY <1>2, <1>8, <3>1
    <3>2. CASE j \in 1 .. p - 1
      <4>1. PICK k \in 1 .. l : es[k].member = j
        BY <1>7, <1>9, <2>4, <3>2 DEF Tabled
      <4> QED
        BY <1>8, <4>1
    <3> QED
      BY <2>1, <3>1, <3>2
  <2>5. CountTo(a, p) = l + 1 /\ l + 1 <= MAX_ENTRIES
    BY <1>0, <1>6, <1>7, <1>9
  <2> QED
    BY <1>8, <2>1, <2>2, <2>3, <2>4, <2>5 DEF Tabled
<1>11. p + 1 \in 1 .. n + 1 /\ (p + 1 <= n => p < n) /\ (p + 1 > n => p = n)
  BY <1>1, <1>2
<1> QED
  BY <1>1, <1>4, <1>10, <1>11 DEF ParsedTo

LEMMA ParseStarts ==
  ASSUME NEW a, ArchiveType(a)
  PROVE  1 \in 1 .. Len(a.list) + 1 /\ ParsedTo(a, 0, <<>>, 1)
<1>1. PICK n \in Nat : n = Len(a.list)
  BY DEF ArchiveType
<1>2. n > 0 => 0 \in DOMAIN a.header /\ a.header[0].member = 1
  BY <1>1 DEF ArchiveType
<1>3. n = 0 => 0 \notin DOMAIN a.header
  <2> SUFFICES ASSUME n = 0, 0 \in DOMAIN a.header PROVE FALSE
    OBVIOUS
  <2>1. a.header[0].member \in 1 .. n
    BY <1>1, Layout
  <2> QED
    BY <2>1
<1>4. Tabled(a, <<>>, 1)
  <2>1. CountTo(a, 0) = 0 /\ MAX_ENTRIES \in Nat /\ Len(<<>>) = 0 /\ 1 .. 0 = {} /\ 1 - 1 = 0
    BY CountGrows, LoaderConstants
  <2> QED
    BY <2>1 DEF Tabled
<1> QED
  BY <1>1, <1>2, <1>3, <1>4 DEF ParsedTo

(* The font is the first member of that name, if that is a font. *)
Fonts(a) == {i \in Kept(a) : a.list[i].name = "font"}

FontRight(a, fo) ==
    /\ fo = 0 <=> \A i \in Fonts(a) : \E j \in Fonts(a) :
                     j <= i /\ (a.list[j].dir \/ ~a.members[j].header_ok)
    /\ fo # 0 => fo \in Fonts(a) /\ \A i \in Fonts(a) : fo <= i

LEMMA FontFound ==
  ASSUME AllKept(archive, entries), Len(entries) \in Nat, LoadFont
  PROVE  FontRight(archive, font')
<1>1. ASSUME NEW i \in Fonts(archive) PROVE i \in Nat \ {0}
  BY DEF Fonts, Kept
<1>2. ASSUME NEW i \in Fonts(archive)
      PROVE  \E k \in 1 .. Len(entries) : entries[k].member = i /\ entries[k].name = "font"
  <2>1. PICK k \in 1 .. Len(entries) : entries[k].member = i
    BY DEF Fonts, AllKept
  <2>2. entries[k] = archive.list[i]
    BY <2>1 DEF AllKept
  <2> QED
    BY <2>1, <2>2 DEF Fonts
<1>3. CASE Named("font") = {}
  <2> DEFINE T == {k \in 1 .. Len(entries) : entries[k].name = "font"}
  <2>1. T = {}
    <3> SUFFICES ASSUME T # {} PROVE FALSE
      OBVIOUS
    <3>1. T \in SUBSET Nat
      OBVIOUS
    <3>2. PICK k \in T : \A j \in T : k <= j
      BY <3>1, Least
    <3>3. k \in Named("font")
      BY <3>2 DEF Named
    <3> QED
      BY <1>3, <3>3
  <2>2. Fonts(archive) = {}
    BY <1>2, <2>1
  <2>3. font' = 0
    BY <1>3 DEF LoadFont
  <2> QED
    BY <2>2, <2>3 DEF FontRight
<1>4. CASE Named("font") # {}
  <2>1. PICK k : k \in Named("font")
    BY <1>4
  <2>2. /\ k \in 1 .. Len(entries) /\ entries[k].name = "font"
        /\ \A j \in 1 .. k - 1 : entries[j].name # "font"
    BY <2>1 DEF Named
  <2>3. \A j \in Named("font") : j = k
    BY <2>2 DEF Named
  <2>4. (CHOOSE j \in Named("font") : TRUE) = k
    BY <2>1, <2>3
  <2>5. PICK m : m = entries[k].member
    OBVIOUS
  <2>6. entries[k] = archive.list[m] /\ m \in Fonts(archive)
    BY <2>2, <2>5 DEF AllKept, Fonts
  <2>7. ASSUME NEW i \in Fonts(archive) PROVE m <= i
    <3>1. PICK j \in 1 .. Len(entries) : entries[j].member = i /\ entries[j].name = "font"
      BY <1>2
    <3>2. j = k \/ k < j
      BY <2>2, <3>1
    <3>3. i = m \/ m < i
      BY <2>2, <2>5, <3>1, <3>2 DEF AllKept
    <3> QED
      BY <1>1, <2>6, <3>3
  <2>8. CASE ~archive.list[m].dir /\ archive.members[m].header_ok
    <3>1. font' = m
      BY <2>1, <2>4, <2>5, <2>6, <2>8 DEF LoadFont, IsDir, File
    <3>2. m # 0 /\ m \in Nat
      BY <1>1, <2>6
    <3>3. ASSUME NEW j \in Fonts(archive), j <= m PROVE j = m
      BY <1>1, <2>7, <3>2, <3>3
    <3> QED
      BY <2>6, <2>7, <2>8, <3>1, <3>2, <3>3 DEF FontRight
  <2>9. CASE ~(~archive.list[m].dir /\ archive.members[m].header_ok)
    <3>1. font' = 0
      BY <2>3, <2>5, <2>6, <2>9 DEF LoadFont, IsDir, File
    <3>2. archive.list[m].dir \/ ~archive.members[m].header_ok
      BY <2>9
    <3> QED
      BY <2>6, <2>7, <3>1, <3>2 DEF FontRight
  <2> QED
    BY <2>8, <2>9
<1> QED
  BY <1>3, <1>4

(* The loop over the entries has come to entry nx + 1: what is loaded are   *)
(* modules among the entries before it, in their order, and no well-formed  *)
(* one is missing while there are buffers.                                  *)
Scanned(a, es, nx, ld) ==
    /\ nx \in 0 .. Len(es)
    /\ \A j \in 1 .. Len(ld) : \E k \in 1 .. nx : ld[j] = es[k].member /\ IsModule(es[k])
    /\ \A j, l \in 1 .. Len(ld) : j < l => ld[j] < ld[l]
    /\ Len(ld) = MAX_MODULES
          \/ \A k \in 1 .. nx : IsModule(es[k]) /\ WellFormed(a.members[es[k].member]) =>
                \E j \in 1 .. Len(ld) : ld[j] = es[k].member

(* An entry that is no module, or that load_at() refuses, adds nothing. *)
LEMMA ScanPasses ==
  ASSUME NEW a, NEW es, NEW nx, NEW ld, Len(es) \in Nat, nx < Len(es), Scanned(a, es, nx, ld),
         \/ Len(ld) = MAX_MODULES
         \/ ~(IsModule(es[nx + 1]) /\ WellFormed(a.members[es[nx + 1].member]))
  PROVE  Scanned(a, es, nx + 1, ld)
<1>1. nx \in Nat /\ nx + 1 \in 0 .. Len(es) /\ 1 .. nx + 1 = (1 .. nx) \cup {nx + 1}
  BY DEF Scanned
<1> QED
  BY <1>1 DEF Scanned

(* A module that is loaded is the last of its order. *)
LEMMA ScanLoads ==
  ASSUME NEW a, NEW es, NEW nx, NEW S, NEW ld \in Seq(S), Len(es) \in Nat, nx < Len(es),
         Scanned(a, es, nx, ld), Len(ld) # MAX_MODULES, IsModule(es[nx + 1]),
         es[nx + 1].member \in S,
         \A k, l \in 1 .. Len(es) : k < l => es[k].member < es[l].member,
         NEW ld2, ld2 = Append(ld, es[nx + 1].member)
  PROVE  Scanned(a, es, nx + 1, ld2)
<1>1. nx \in Nat /\ nx + 1 \in 1 .. Len(es) /\ 1 .. nx + 1 = (1 .. nx) \cup {nx + 1}
  BY DEF Scanned
<1>2. PICK n \in Nat : n = Len(ld)
  OBVIOUS
<1>3. PICK m : m = es[nx + 1].member
  OBVIOUS
<1>4. /\ Len(ld2) = n + 1 /\ ld2[n + 1] = m /\ \A j \in 1 .. n : ld2[j] = ld[j]
      /\ 1 .. n + 1 = (1 .. n) \cup {n + 1}
  BY <1>2, <1>3
<1>5. ASSUME NEW j \in 1 .. n + 1
      PROVE  \E k \in 1 .. nx + 1 : ld2[j] = es[k].member /\ IsModule(es[k])
  <2>1. CASE j = n + 1
    BY <1>1, <1>3, <1>4, <2>1
  <2>2. CASE j \in 1 .. n
    <3>1. PICK k \in 1 .. nx : ld[j] = es[k].member /\ IsModule(es[k])
      BY <1>2, <2>2 DEF Scanned
    <3> QED
      BY <1>1, <1>4, <2>2, <3>1
  <2> QED
    BY <1>4, <2>1, <2>2
<1>6. ASSUME NEW j \in 1 .. n + 1, NEW l \in 1 .. n + 1, j < l PROVE ld2[j] < ld2[l]
  <2>1. j \in 1 .. n /\ ld2[j] = ld[j]
    BY <1>4, <1>6
  <2>2. CASE l = n + 1
    <3>1. PICK k \in 1 .. nx : ld[j] = es[k].member
      BY <1>2, <2>1 DEF Scanned
    <3>2. k \in 1 .. Len(es) /\ k < nx + 1
      BY <1>1, <3>1
    <3>3. es[k].member < m
      BY <1>1, <1>3, <3>2
    <3> QED
      BY <1>4, <2>1, <2>2, <3>1, <3>3
  <2>3. CASE l \in 1 .. n
    BY <1>2, <1>4, <1>6, <2>1, <2>3 DEF Scanned
  <2> QED
    BY <1>4, <2>2, <2>3
<1>7. ASSUME NEW k \in 1 .. nx + 1, IsModule(es[k]), WellFormed(a.members[es[k].member])
      PROVE  \E j \in 1 .. n + 1 : ld2[j] = es[k].member
  <2>1. CASE k = nx + 1
    BY <1>3, <1>4, <2>1
  <2>2. CASE k \in 1 .. nx
    <3>1. PICK j \in 1 .. n : ld[j] = es[k].member
      BY <1>2, <1>7, <2>2 DEF Scanned
    <3> QED
      BY <1>4, <3>1
  <2> QED
    BY <1>1, <2>1, <2>2
<1>8. nx + 1 \in 0 .. Len(es)
  BY <1>1
<1> QED
  BY <1>4, <1>5, <1>6, <1>7, <1>8 DEF Scanned

(* What parse() and the loop over the modules keep. *)
LoadInv ==
    /\ ImageInv
    /\ step = "find" => offset = 0
    /\ step \in {"find", "parse", "font"} => next = 0 /\ loaded = <<>>
    /\ step = "parse" =>
          \E p \in 1 .. Len(archive.list) + 1 : ParsedTo(archive, offset, entries, p)
    /\ step \in {"font", "scan", "load", "copy", "started"} => AllKept(archive, entries)
    /\ step \in {"scan", "load", "copy", "started"} =>
          Scanned(archive, entries, next, loaded) /\ FontRight(archive, font)
    /\ step \in {"load", "copy"} => IsModule(entries[next + 1])
    /\ step = "started" => next = Len(entries)

LEMMA LoadParse ==
  ASSUME LoadInv, FindInitrd \/ Parse, ImageInv'
  PROVE  LoadInv'
<1>0. LoaderTypes
  BY DEF LoadInv, ImageInv
<1>1. CASE FindInitrd
  <2>1. /\ next' = 0 /\ loaded' = <<>> /\ offset' = 0 /\ entries' = <<>>
        /\ step' = "halted" \/ (step' = "parse" /\ archive' \in Archives)
    BY <1>0, <1>1 DEF FindInitrd, LoadInv, LoaderTypes
  <2>2. step' = "parse" =>
           \E p \in 1 .. Len(archive'.list) + 1 : ParsedTo(archive', offset', entries', p)
    BY <2>1, LoaderConstants, ParseStarts
  <2> QED
    BY <2>1, <2>2 DEF LoadInv
<1>2. CASE Parse
  <2>1. /\ UNCHANGED <<archive, font, next, loaded>> /\ step = "parse"
        /\ next = 0 /\ loaded = <<>>
    BY <1>2 DEF Parse, LoadInv
  <2>2. PICK p \in 1 .. Len(archive.list) + 1 : ParsedTo(archive, offset, entries, p)
    BY <2>1 DEF LoadInv
  <2>3. PICK S : S = {archive.header[o] : o \in DOMAIN archive.header}
    OBVIOUS
  <2>4. entries \in Seq(S) /\ Len(entries) \in Nat
    BY <1>0, <2>3 DEF LoaderTypes
  <2>6. ArchiveType(archive)
    BY <1>0, LoaderConstants DEF LoaderTypes, ArchiveType, NoArchive
  <2>7. CASE AtEnd /\ step' = "font" /\ UNCHANGED <<offset, entries>>
    <3>1. AllKept(archive, entries)
      BY <2>2, <2>4, <2>6, <2>7, ParseEnds DEF AtEnd
    <3> QED
      BY <2>1, <2>7, <3>1 DEF LoadInv
  <2>8. CASE step' \in {"halted", "panic"}
    BY <2>8 DEF LoadInv
  <2>9. ASSUME ~AtEnd
        PROVE  /\ offset \in DOMAIN archive.header /\ offset + BLOCK <= archive.len
               /\ Len(entries) # MAX_ENTRIES
    <3>1. offset \in DOMAIN archive.header /\ Len(entries) # MAX_ENTRIES
          /\ ~(offset + BLOCK > archive.len)
      BY <2>9 DEF AtEnd
    <3>2. offset \in Nat /\ archive.len \in Nat /\ BLOCK \in Nat
      BY <2>6, <3>1, Layout, LoaderConstants
    <3> QED
      BY <3>1, <3>2
  <2>10. CASE /\ ~AtEnd /\ Hdr(offset).name = "unnamed"
              /\ offset' = AfterUnnamed(Hdr(offset))
              /\ UNCHANGED <<step, entries>>
    <3>1. /\ archive.header[offset].name = "unnamed"
          /\ offset' = offset + BLOCK + Blocks(parse_octal(archive.header[offset].digits))
      BY <2>10 DEF Hdr, AfterUnnamed
    <3>2. p + 1 \in 1 .. Len(archive.list) + 1 /\ ParsedTo(archive, offset', entries, p + 1)
      BY <2>2, <2>4, <2>6, <2>9, <2>10, <3>1, ParsePasses
    <3> QED
      BY <2>1, <2>10, <3>2 DEF LoadInv
  <2>11. CASE /\ ~AtEnd /\ Hdr(offset).name \notin {"invalid", "unnamed"}
              /\ entries' = Append(entries, Hdr(offset))
              /\ offset' = offset + BLOCK + Blocks(SizeOf(Hdr(offset)))
              /\ UNCHANGED step
    <3>1. /\ archive.header[offset].name # "unnamed" /\ archive.header[offset] \in S
          /\ offset' = offset + BLOCK + Blocks(SizeOf(archive.header[offset]))
          /\ entries' = Append(entries, archive.header[offset])
      BY <2>3, <2>9, <2>11 DEF Hdr
    <3>2. p + 1 \in 1 .. Len(archive.list) + 1 /\ ParsedTo(archive, offset', entries', p + 1)
      BY <2>2, <2>4, <2>6, <2>9, <2>11, <3>1, ParseKeeps
    <3> QED
      BY <2>1, <2>11, <3>2 DEF LoadInv
  <2> QED
    BY <1>2, <2>7, <2>8, <2>10, <2>11 DEF Parse
<1> QED
  BY <1>1, <1>2

LEMMA LoadRefuses ==
  ASSUME LoadInv, LoadAt \/ CopySegment, Refused
  PROVE  ~WellFormed(elf)
<1>1. LoaderTypes /\ U64 \in Nat \ {0}
  BY LoaderConstants DEF LoadInv, ImageInv
<1>2. CASE LoadAt
  <2>1. step' = "scan"
    BY DEF Refused
  <2>2. ~HeaderOk(elf) \/ ~HasSpan(elf) \/ total_size(elf) > BUF
    BY <1>2, <2>1 DEF LoadAt
  <2>3. CASE ~HeaderOk(elf) \/ ~HasSpan(elf)
    BY <2>3 DEF WellFormed
  <2>4. CASE HasSpan(elf) /\ total_size(elf) > BUF
    <3>1. step = "load" /\ member \in Members
      BY <1>1, <1>2, MemberTyped DEF LoadAt
    <3>2. ElfType(elf)
      BY <1>1, <3>1, MemberTyped DEF elf
    <3>3. total_size(elf) \in Nat /\ BUF \in Nat
      BY <2>4, <3>2, Span, LoaderConstants DEF HasSpan
    <3>4. ~(total_size(elf) <= BUF)
      BY <2>4, <3>3
    <3> QED
      BY <3>4 DEF WellFormed
  <2> QED
    BY <2>2, <2>3, <2>4
<1>3. CASE CopySegment
  <2>1. step' = "scan" /\ step = "copy"
    BY <1>3 DEF Refused, CopySegment
  <2>2. member \in Members /\ ElfType(elf)
    BY <1>1, <2>1, MemberTyped DEF elf
  <2>3. PICK q : q = elf.phdrs[seg]
    OBVIOUS
  <2>4. q.load /\ (q.offset + q.filesz) % U64 > elf.len
    BY <1>3, <2>1, <2>3 DEF CopySegment
  <2>5. seg \in Nat /\ seg \in 1 .. Len(elf.phdrs)
    <3>1. seg \in 1 .. Len(elf.phdrs) + 1 /\ seg <= Len(elf.phdrs) /\ Len(elf.phdrs) \in Nat
      BY <1>3, <2>1, <2>2 DEF LoadInv, ImageInv, CopySegment, ElfType
    <3> QED
      BY <3>1
  <2>6. q.offset \in Nat /\ q.filesz \in Nat /\ elf.len \in Nat
    BY <1>1, <2>2, <2>3, <2>5 DEF ElfType, u64
  <2>7. PICK n \in Nat : n = q.offset + q.filesz
    BY <2>6
  <2>8. n % U64 <= n /\ n % U64 \in Nat
    BY <1>1, <2>7
  <2>9. ~(q.offset + q.filesz <= elf.len)
    BY <2>4, <2>6, <2>7, <2>8
  <2>10. seg \in Loads(elf)
    BY <2>3, <2>4, <2>5 DEF Loads
  <2> QED
    BY <2>3, <2>9, <2>10 DEF WellFormed
<1> QED
  BY <1>2, <1>3

LEMMA LoadStep == LoadInv /\ [LoaderNext]_loaderVars => LoadInv'
<1> SUFFICES ASSUME LoadInv, [LoaderNext]_loaderVars PROVE LoadInv'
  OBVIOUS
<1>0. ImageInv' /\ LoaderTypes /\ MAX_MODULES \in Nat
  BY ImageStep, LoaderConstants DEF LoadInv, ImageInv
<1>1. Len(entries) \in Nat /\ next \in Nat /\ mod_idx = Len(loaded)
  BY <1>0 DEF LoaderTypes
<1>2. CASE LoadFont
  <2>1. /\ UNCHANGED <<archive, entries, next, loaded>> /\ step = "font" /\ step' = "scan"
    BY <1>2 DEF LoadFont
  <2>2. AllKept(archive, entries) /\ next = 0 /\ loaded = <<>>
    BY <2>1 DEF LoadInv
  <2>3. FontRight(archive, font')
    BY <1>1, <1>2, <2>2, FontFound
  <2>4. Scanned(archive, entries, next, loaded)
    BY <1>1, <2>2 DEF Scanned
  <2> QED
    BY <1>0, <2>1, <2>2, <2>3, <2>4 DEF LoadInv
<1>3. CASE NextEntry
  <2>1. /\ UNCHANGED <<archive, entries, font, loaded>> /\ step = "scan" /\ next < Len(entries)
        /\ \/ step' = "load" /\ next' = next /\ IsModule(entries[next + 1])
           \/ /\ step' = "scan" /\ next' = next + 1
              /\ ~IsModule(entries[next + 1]) \/ ~(mod_idx < MAX_MODULES)
    BY <1>3 DEF NextEntry, parsing
  <2>2. /\ AllKept(archive, entries) /\ Scanned(archive, entries, next, loaded)
        /\ FontRight(archive, font)
    BY <2>1 DEF LoadInv
  <2>3. ~(mod_idx < MAX_MODULES) => Len(loaded) = MAX_MODULES
    BY <1>0, <1>1 DEF LoaderTypes
  <2>4. next' = next + 1 => Scanned(archive, entries, next + 1, loaded)
    <3> SUFFICES ASSUME next' = next + 1 PROVE Scanned(archive, entries, next + 1, loaded)
      OBVIOUS
    <3>1. ~IsModule(entries[next + 1]) \/ Len(loaded) = MAX_MODULES
      BY <1>1, <2>1, <2>3
    <3> QED
      BY <1>1, <2>1, <2>2, <3>1, ScanPasses
  <2> QED
    BY <1>0, <2>1, <2>2, <2>4 DEF LoadInv
<1>4. CASE LoadAt \/ CopySegment
  <2>1. /\ UNCHANGED <<archive, entries, font, loaded>> /\ step \in {"load", "copy"}
        /\ \/ Refused
           \/ step' = "panic"
           \/ step' = "copy" /\ next' = next
    BY <1>4 DEF LoadAt, CopySegment, parsing
  <2>2. /\ AllKept(archive, entries) /\ Scanned(archive, entries, next, loaded)
        /\ FontRight(archive, font) /\ IsModule(entries[next + 1]) /\ next < Len(entries)
    BY <1>0, <2>1 DEF LoadInv, LoaderTypes
  <2>3. CASE Refused
    <3>1. ~WellFormed(archive.members[entries[next + 1].member])
      BY <1>4, <2>3, LoadRefuses DEF elf, member, File
    <3>2. Scanned(archive, entries, next + 1, loaded)
      BY <1>1, <2>2, <3>1, ScanPasses
    <3> QED
      BY <1>0, <2>1, <2>2, <2>3, <3>2 DEF LoadInv, Refused
  <2>4. CASE step' = "panic"
    BY <1>0, <2>4 DEF LoadInv
  <2>5. CASE step' = "copy" /\ next' = next
    BY <1>0, <2>1, <2>2, <2>5 DEF LoadInv
  <2> QED
    BY <2>1, <2>3, <2>4, <2>5
<1>5. CASE SpawnModule
  <2>1. /\ UNCHANGED <<archive, entries, font>> /\ step = "copy" /\ step' = "scan"
        /\ next' = next + 1 /\ loaded' = Append(loaded, entries[next + 1].member)
    BY <1>5 DEF SpawnModule, parsing, member
  <2>2. /\ AllKept(archive, entries) /\ Scanned(archive, entries, next, loaded)
        /\ FontRight(archive, font) /\ IsModule(entries[next + 1]) /\ next < Len(entries)
        /\ mod_idx < MAX_MODULES
    BY <1>0, <2>1 DEF LoadInv, LoaderTypes
  <2>3. loaded \in Seq(Members) /\ entries[next + 1].member \in Members /\ Len(loaded) # MAX_MODULES
    BY <1>0, <1>1, <2>1, <2>2, MemberTyped DEF LoaderTypes, member
  <2>4. \A k, l \in 1 .. Len(entries) : k < l => entries[k].member < entries[l].member
    BY <2>2 DEF AllKept
  <2>5. Scanned(archive, entries, next + 1, loaded')
    BY <1>1, <2>1, <2>2, <2>3, <2>4, ScanLoads
  <2> QED
    BY <1>0, <2>1, <2>2, <2>5 DEF LoadInv
<1>6. CASE SpawnShell
  <2>1. /\ UNCHANGED <<archive, entries, font, next, loaded>> /\ step = "scan"
        /\ step' = "started" /\ next = Len(entries)
    BY <1>6 DEF SpawnShell, parsing
  <2> QED
    BY <1>0, <2>1 DEF LoadInv
<1>7. CASE UNCHANGED loaderVars
  BY <1>0, <1>7 DEF loaderVars, parsing, LoadInv
<1> QED
  BY <1>0, <1>2, <1>3, <1>4, <1>5, <1>6, <1>7, LoadParse DEF LoaderNext

LEMMA LoadInvMeans == LoadInv => EveryModuleLoaded
<1> SUFFICES ASSUME LoadInv, step = "started" PROVE EveryModuleLoaded
  BY DEF EveryModuleLoaded
<1>1. /\ AllKept(archive, entries) /\ Scanned(archive, entries, Len(entries), loaded)
      /\ FontRight(archive, font)
  BY DEF LoadInv
<1> DEFINE mods == {i \in Kept(archive) : IsModule(archive.list[i])}
<1>2. ASSUME NEW i \in mods, WellFormed(File(i)), Len(loaded) # MAX_MODULES
      PROVE  \E j \in 1 .. Len(loaded) : loaded[j] = i
  <2>1. PICK k \in 1 .. Len(entries) : entries[k].member = i /\ entries[k] = archive.list[i]
    BY <1>1 DEF AllKept
  <2>2. IsModule(entries[k]) /\ WellFormed(archive.members[entries[k].member])
    BY <1>2, <2>1 DEF File
  <2> QED
    BY <1>1, <1>2, <2>1, <2>2 DEF Scanned
<1>3. ASSUME NEW j \in 1 .. Len(loaded) PROVE loaded[j] \in mods
  <2>1. PICK k \in 1 .. Len(entries) : loaded[j] = entries[k].member /\ IsModule(entries[k])
    BY <1>1 DEF Scanned
  <2>2. entries[k].member \in Kept(archive) /\ entries[k] = archive.list[entries[k].member]
    BY <1>1 DEF AllKept
  <2> QED
    BY <2>1, <2>2
<1>4. \A j, l \in 1 .. Len(loaded) : j < l => loaded[j] < loaded[l]
  BY <1>1 DEF Scanned
<1>5. LET fonts == {i \in Kept(archive) : archive.list[i].name = "font"}
      IN  /\ font = 0 <=> \A i \in fonts : \E j \in fonts :
                             j <= i /\ (archive.list[j].dir \/ ~File(j).header_ok)
          /\ font # 0 => font \in fonts /\ \A i \in fonts : font <= i
  BY <1>1 DEF FontRight, Fonts, File
<1> QED
  BY <1>2, <1>3, <1>4, <1>5 DEF EveryModuleLoaded

(* When the scheduler starts, every well-formed module that TarFs can keep  *)
(* is in a buffer, in the order of the archive, or the buffers ran out, and *)
(* the font is the first of its name: for every archive laid out as tar     *)
(* does, whatever is cut off its end.                                       *)
THEOREM ModulesAreLoaded == BootSpec => []EveryModuleLoaded
<1>1. LoaderInit => LoadInv
  <2> SUFFICES ASSUME LoaderInit PROVE LoadInv
    OBVIOUS
  <2>1. LoaderTypes
    BY LoaderConstants DEF LoaderInit, LoaderTypes
  <2>2. ImageInv
    BY <2>1 DEF LoaderInit, ImageInv
  <2> QED
    BY <2>2 DEF LoaderInit, LoadInv
<1>2. [BootNext]_bootVars => [LoaderNext]_loaderVars
  BY DEF BootNext, bootVars, UseDisk, LoadModules, Over
<1> QED
  BY <1>1, <1>2, LoadStep, LoadInvMeans, PTL DEF BootSpec, BootInit

=============================================================================
