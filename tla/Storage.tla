------------------------------ MODULE Storage ------------------------------
(***************************************************************************)
(* The storage layer (src/src/userfs_storage.c): inode and block bitmaps,  *)
(* the inode's direct, single- and double-indirect pointers, truncation    *)
(* with its rollback, and the writes of src/src/file_io.c that grow a      *)
(* file through it.                                                        *)
(*                                                                         *)
(* An operation runs under the operation lock and writes the image block   *)
(* by block.  It is a Run: the disk as it stands, the caller's copy of the *)
(* inode, whether a step has failed, and the trail of disks it has passed  *)
(* through.  A completed operation leaves the last one; a process killed   *)
(* in the middle, or an I/O error that no rollback answers, any of them.   *)
(***************************************************************************)
EXTENDS Integers, FiniteSets, FiniteSetsExt

CONSTANTS
    BlockSize,      \* UFS_BLOCK_SIZE, in bytes
    DirectBlocks,   \* UFS_DIRECT_BLOCKS
    PtrsPerBlock,   \* UFS_PTRS_PER_BLOCK
    DataStart,      \* UFS_DATA_REGION_START_BLK
    DataBlocks,     \* UFS_DATA_REGION_BLOCKS
    MaxInodes,      \* UFS_MAX_INODES
    Bytes,          \* the bytes callers write
    Sizes,          \* the sizes callers truncate to
    Writes,         \* the writes callers make: <<start, count>>
    MaxGeneration,  \* bound: inode generations
    CounterValues,  \* 2^32: the values a superblock counter can hold
    Resumes         \* what a further mount goes on after: an interruption of what only
                    \* "allocates", or of "anything"

ASSUME StorageAssumption ==
    /\ {BlockSize, DirectBlocks, PtrsPerBlock, DataStart, DataBlocks, MaxInodes}
          \subseteq Nat \ {0}
    /\ Sizes \subseteq Nat /\ Writes \subseteq Nat \X (Nat \ {0})
    /\ MaxGeneration \in Nat \ {0}
    /\ CounterValues \in Nat /\ CounterValues > DataBlocks /\ CounterValues > MaxInodes
    /\ Resumes \in {"allocates", "anything"}

VARIABLES
    disk,           \* the image
    interrupted     \* whether an operation was cut short, on which inode, whether
                    \* it had failed, and whether it had cleared bits of the bitmaps

vars == <<disk, interrupted>>

Inode == 0 .. MaxInodes - 1
Root == 0
NoInode == MaxInodes
DataRegion == DataStart .. DataStart + DataBlocks - 1
NoBlock == DataStart + DataBlocks       \* UFS_INVALID_BLOCK: no block has it

MaxFileBlocks == DirectBlocks + PtrsPerBlock + PtrsPerBlock * PtrsPerBlock
BlocksOf(size) == (size + BlockSize - 1) \div BlockSize

ZeroData == [o \in 0 .. BlockSize - 1 |-> 0]
NoPointers == [i \in 0 .. PtrsPerBlock - 1 |-> NoBlock]

\* ufs_init_inode, with the generation its callers keep.
FreshInode(generation) ==
    [generation |-> generation, size |-> 0, blocks |-> 0,
     direct |-> [i \in 0 .. DirectBlocks - 1 |-> NoBlock],
     single |-> NoBlock, double |-> NoBlock]

\* ufs_format: only the root inode, without a block.
Formatted ==
    [used |-> {Root}, freeInodes |-> MaxInodes - 1,
     inode |-> [n \in Inode |-> FreshInode(IF n = Root THEN 1 ELSE 0)],
     bitmap |-> {}, freeBlocks |-> DataBlocks,
     block |-> [b \in DataRegion |-> ZeroData]]
----------------------------------------------------------------------------
(* Runs: a write is one block, and nothing follows a failure. *)

Start(n) == [disk |-> disk, inode |-> disk.inode[n], ok |-> TRUE, out |-> NoBlock,
             trail |-> {disk}]

Write(r, d) == IF r.ok THEN [r EXCEPT !.disk = d, !.trail = @ \cup {d}] ELSE r

Failed(r) == [r EXCEPT !.ok = FALSE]

\* A loop over `count' numbers from first on.
For(first, count, Body(_, _), r) ==
    LET after[k \in 0 .. count] == IF k = 0 THEN r ELSE Body(after[k - 1], first + k - 1)
    IN  after[count]

WriteInode(r, n) == Write(r, [r.disk EXCEPT !.inode[n] = r.inode])

\* ... if the caller's copy is no longer what it was.
SaveInode(r, before, n) == IF r.inode # before THEN WriteInode(r, n) ELSE r

Mark(r, b) == Write(r, [r.disk EXCEPT !.bitmap = @ \cup {b}])
Unmark(r, b) == Write(r, [r.disk EXCEPT !.bitmap = @ \ {b}])
Count(r, delta) == Write(r, [r.disk EXCEPT !.freeBlocks = (@ + delta) % CounterValues])
Fill(r, b, content) == Write(r, [r.disk EXCEPT !.block[b] = content])

FirstFree(r) == Min(DataRegion \ r.disk.bitmap)
Full(r) == DataRegion \subseteq r.disk.bitmap

\* Mutants: a block that keeps what it held; one that is counted before it is
\* marked.
DirtyAllocate(r) ==
    LET b == FirstFree(r) IN
    IF Full(r) THEN Failed(r)
    ELSE [Count(Mark(r, b), -1) EXCEPT !.out = b]
EagerAllocate(r) ==
    LET b == FirstFree(r) IN
    IF Full(r) THEN Failed(r)
    ELSE [Fill(Mark(Count(r, -1), b), b, ZeroData) EXCEPT !.out = b]

\* The first free block, marked, zeroed and counted.
AllocateBlock(r) ==
    LET b == FirstFree(r) IN
    IF Full(r) THEN Failed(r)
    ELSE [Count(Fill(Mark(r, b), b, ZeroData), -1) EXCEPT !.out = b]

\* A free block is left alone; one outside the data region is refused.
FreeBlock(r, b) ==
    IF b \notin DataRegion THEN Failed(r)
    ELSE IF b \notin r.disk.bitmap THEN r
    ELSE Count(Unmark(r, b), 1)

\* The block just allocated becomes one of pointers, every slot unallocated.
InitPointers(r) == Fill(r, r.out, NoPointers)
AllocatePointers(r) == InitPointers(AllocateBlock(r))
----------------------------------------------------------------------------
(* get_inode_data_block and ensure_inode_data_block. *)

\* Where logical block lb of an inode is, NoBlock if it has none.
Lookup(d, inode, lb) ==
    LET lb1 == lb - DirectBlocks
        lb2 == lb1 - PtrsPerBlock
        Through(p, i) == IF p = NoBlock THEN NoBlock ELSE d.block[p][i]
    IN  IF lb1 < 0 THEN inode.direct[lb]
        ELSE IF lb2 < 0 THEN Through(inode.single, lb1)
        ELSE Through(Through(inode.double, lb2 \div PtrsPerBlock), lb2 % PtrsPerBlock)

\* The block just allocated goes into the caller's copy of the inode, or into
\* entry i of pointer block p.
SetDirect(r, lb) == IF r.ok THEN [r EXCEPT !.inode.direct[lb] = r.out] ELSE r
SetRoot(r, level) == IF r.ok THEN [r EXCEPT !.inode[level] = r.out] ELSE r
SetEntry(r, p, i) == Write(r, [r.disk EXCEPT !.block[p][i] = r.out])

EnsureDirect(r, lb) ==
    IF ~ r.ok \/ r.inode.direct[lb] # NoBlock THEN r ELSE SetDirect(AllocateBlock(r), lb)

\* The inode's own pointer block of a level.
EnsureRoot(r, level) ==
    IF ~ r.ok \/ r.inode[level] # NoBlock THEN r ELSE SetRoot(AllocatePointers(r), level)

EnsureEntry(r, p, i) ==
    IF ~ r.ok \/ r.disk.block[p][i] # NoBlock THEN r ELSE SetEntry(AllocateBlock(r), p, i)

EnsureSingle(r, i) == EnsureEntry(r, r.inode.single, i)

\* The pointer block that entry i of the double-indirect block points at.
EnsureLevel1(r, i) ==
    IF ~ r.ok \/ r.disk.block[r.inode.double][i] # NoBlock THEN r
    ELSE SetEntry(AllocatePointers(r), r.inode.double, i)

EnsureLevel2(r, i, j) == EnsureEntry(r, r.disk.block[r.inode.double][i], j)

EnsureBlock(r, n, lb) ==
    LET lb1 == lb - DirectBlocks
        lb2 == lb1 - PtrsPerBlock
        i1 == lb2 \div PtrsPerBlock
    IN  SaveInode(
            IF lb1 < 0 THEN EnsureDirect(r, lb)
            ELSE IF lb2 < 0 THEN EnsureSingle(EnsureRoot(r, "single"), lb1)
            ELSE EnsureLevel2(EnsureLevel1(EnsureRoot(r, "double"), i1),
                              i1, lb2 % PtrsPerBlock),
            r.inode, n)
----------------------------------------------------------------------------
(* free_inode_blocks_after. *)

\* The entries of pointer block p given by a set of indices, forgotten.
ForgetEntries(r, p, gone) ==
    IF gone = {} THEN r
    ELSE Write(r, [r.disk EXCEPT !.block[p] =
                      [i \in DOMAIN @ |-> IF i \in gone THEN NoBlock ELSE @[i]]])

Live(ptrs, from) == {i \in DOMAIN ptrs : i >= from /\ ptrs[i] # NoBlock}

FreeEntry(r, ptrs, from, i) == IF i \in Live(ptrs, from) THEN FreeBlock(r, ptrs[i]) ELSE r

\* Free the entries of pointer block p from index `from' on, then write it.
FreeEntries(r, p, from) ==
    LET ptrs == r.disk.block[p]
        Free(s, i) == FreeEntry(s, ptrs, from, i)
    IN  ForgetEntries(For(0, PtrsPerBlock, Free, r), p, Live(ptrs, from))

\* The inode's own pointer block of a level goes when nothing of it is kept.
DropRoot(r, level, from) ==
    IF from > 0 THEN r
    ELSE [FreeBlock(r, r.inode[level]) EXCEPT !.inode[level] = NoBlock]

\* Mutant: a freed block stays in the inode.
DanglingFreeDirect(r, keep) ==
    LET Free(s, i) == IF i < keep \/ s.inode.direct[i] = NoBlock THEN s
                      ELSE FreeBlock(s, s.inode.direct[i])
    IN  For(0, DirectBlocks, Free, r)

DropDirect(r, keep, i) ==
    IF i < keep \/ r.inode.direct[i] = NoBlock THEN r
    ELSE [FreeBlock(r, r.inode.direct[i]) EXCEPT !.inode.direct[i] = NoBlock]

FreeDirect(r, keep) ==
    LET Free(s, i) == DropDirect(s, keep, i) IN For(0, DirectBlocks, Free, r)

\* How many entries below `base' logical blocks are kept.
Beyond(keep, base) == IF keep > base THEN keep - base ELSE 0

\* Mutant: one entry too many survives.
GreedyFreeSingle(r, keep) ==
    LET from == IF keep > DirectBlocks THEN keep - DirectBlocks + 1 ELSE 0
    IN  IF r.inode.single = NoBlock THEN r
        ELSE DropRoot(FreeEntries(r, r.inode.single, from), "single", from)

FreeSingle(r, keep) ==
    LET from == Beyond(keep, DirectBlocks)
    IN  IF r.inode.single = NoBlock THEN r
        ELSE DropRoot(FreeEntries(r, r.inode.single, from), "single", from)

\* The entries of the double-indirect block of which nothing is kept.
Gone(l1, from) == {i \in DOMAIN l1 : l1[i] # NoBlock /\ i * PtrsPerBlock >= from}

FreeGone(r, l1, from, i) == IF i \in Gone(l1, from) THEN FreeBlock(r, l1[i]) ELSE r

FreeLevel1(r, l1, from, i) ==
    IF l1[i] = NoBlock \/ (i + 1) * PtrsPerBlock <= from THEN r
    ELSE FreeGone(FreeEntries(r, l1[i], Beyond(from, i * PtrsPerBlock)), l1, from, i)

FreeDouble(r, keep) ==
    LET from == Beyond(keep, DirectBlocks + PtrsPerBlock)
        l1 == r.disk.block[r.inode.double]
        Free(s, i) == FreeLevel1(s, l1, from, i)
    IN  IF r.inode.double = NoBlock THEN r
        ELSE DropRoot(ForgetEntries(For(0, PtrsPerBlock, Free, r),
                                    r.inode.double, Gone(l1, from)),
                      "double", from)

FreeBlocksAfter(r, n, keep) ==
    SaveInode(FreeDouble(FreeSingle(FreeDirect(r, keep), keep), keep), r.inode, n)
----------------------------------------------------------------------------
(* ufs_truncate_inode. *)

\* A failed growth gives back what it took; its own errors are not looked at.
Rollback(r, n, keep) ==
    IF r.ok THEN r
    ELSE Failed(WriteInode([FreeBlocksAfter([r EXCEPT !.ok = TRUE], n, keep)
                               EXCEPT !.ok = TRUE], n))

\* Mutant: growth that fails keeps what it took.
GrowWithoutRollback(r, n, old, new) ==
    LET Ensure(s, lb) == IF s.ok THEN EnsureBlock(s, n, lb) ELSE s
    IN  For(old, new - old, Ensure, r)

EnsureNext(r, n, lb) == IF r.ok THEN EnsureBlock(r, n, lb) ELSE r

EnsureBlocks(r, n, old, new) ==
    LET Ensure(s, lb) == EnsureNext(s, n, lb) IN For(old, new - old, Ensure, r)

Grow(r, n, old, new) == Rollback(EnsureBlocks(r, n, old, new), n, old)

\* Mutant: the old tail of the last block stays.
KeepTail(r, size) == r

\* The last block kept is cleared beyond the new end.
ClearTail(r, size) ==
    LET b == Lookup(r.disk, r.inode, BlocksOf(size) - 1)
        off == size % BlockSize
    IN  IF ~ r.ok \/ off = 0 \/ b = NoBlock THEN r
        ELSE Write(r, [r.disk EXCEPT !.block[b] =
                          [o \in DOMAIN @ |-> IF o < off THEN @[o] ELSE 0]])

TruncateInode(r, n, size) ==
    LET old == BlocksOf(r.inode.size)
        new == BlocksOf(size)
        fitted == IF size > r.inode.size THEN Grow(r, n, old, new)
                  ELSE IF size < r.inode.size THEN ClearTail(FreeBlocksAfter(r, n, new), size)
                  ELSE r
    IN  IF ~ r.ok \/ size > MaxFileBlocks * BlockSize THEN Failed(r)
        ELSE WriteInode([fitted EXCEPT !.inode.size = size, !.inode.blocks = new], n)

\* The bytes of one block, of those that go to start .. end - 1.
CopyBlock(r, lb, start, end, byte) ==
    LET b == Lookup(r.disk, r.inode, lb)
    IN  IF ~ r.ok THEN r ELSE IF b = NoBlock THEN Failed(r)
        ELSE Write(r, [r.disk EXCEPT !.block[b] =
                [o \in DOMAIN @ |->
                    IF lb * BlockSize + o \in start .. end - 1 THEN byte ELSE @[o]]])

CopyBlocks(r, start, end, byte) ==
    LET Copy(s, lb) == CopyBlock(s, lb, start, end, byte)
        first == start \div BlockSize
    IN  For(first, (end - 1) \div BlockSize - first + 1, Copy, r)

\* ufs_write: grow to the end of the write, then go block by block.
WriteFile(r, n, start, count, byte) ==
    LET end == start + count
    IN  CopyBlocks(IF end > r.inode.size THEN TruncateInode(r, n, end) ELSE r,
                   start, end, byte)
----------------------------------------------------------------------------
(* allocate_inode and free_inode. *)

BlankInode(r, n, generation) ==
    WriteInode([r EXCEPT !.inode = FreshInode(generation)], n)

MarkInode(r, n) == Write(r, [r.disk EXCEPT !.used = @ \cup {n}])
UnmarkInode(r, n) == Write(r, [r.disk EXCEPT !.used = @ \ {n}])
CountInode(r, delta) == Write(r, [r.disk EXCEPT !.freeInodes = (@ + delta) % CounterValues])

AllocateInode(n) ==
    CountInode(BlankInode(MarkInode(Start(n), n), n, disk.inode[n].generation + 1), -1)

\* Mutant: a removed inode forgets its generation.
ForgetfulFreeInode(n) ==
    CountInode(UnmarkInode(BlankInode(TruncateInode(Start(n), n, 0), n, 0), n), 1)

FreeInode(n) ==
    CountInode(UnmarkInode(BlankInode(TruncateInode(Start(n), n, 0), n,
                                      disk.inode[n].generation), n), 1)
----------------------------------------------------------------------------
Nothing == [inode |-> NoInode, ok |-> TRUE, cleared |-> FALSE]

Init == disk = Formatted /\ interrupted = Nothing

\* validate_superblock, as far as the counters go.
Mountable == disk.freeInodes <= MaxInodes /\ disk.freeBlocks <= DataBlocks

OnlyAllocated == interrupted.ok /\ ~ interrupted.cleared

\* After the interruption the image is mounted again, or it is the end.
GoesOn ==
    \/ interrupted = Nothing
    \/ /\ Mountable
       /\ Resumes = "anything" \/ (Resumes = "allocates" /\ OnlyAllocated)

\* An operation on inode n runs to its end, or is cut short on the way.
Do(n, run) ==
    /\ GoesOn
    /\ \/ disk' = run.disk /\ UNCHANGED interrupted
       \/ /\ interrupted = Nothing
          /\ disk' \in run.trail \ {disk, run.disk}
          /\ interrupted' = [inode |-> n, ok |-> run.ok,
                              cleared |-> ~ (/\ disk.bitmap \subseteq disk'.bitmap
                                             /\ disk.used \subseteq disk'.used)]

CreateFile == LET n == Min(Inode \ disk.used) IN
    /\ Inode \ disk.used # {}
    /\ disk.inode[n].generation < MaxGeneration
    /\ Do(n, AllocateInode(n))

Files == disk.used \ {Root}

DeleteFile(n) == n \in Files /\ Do(n, FreeInode(n))

TruncateFile(n, size) == n \in Files /\ Do(n, TruncateInode(Start(n), n, size))

WriteToFile(n, w, byte) ==
    n \in Files /\ Do(n, WriteFile(Start(n), n, w[1], w[2], byte))

Next ==
    \/ CreateFile
    \/ \E n \in Inode :
          \/ DeleteFile(n)
          \/ \E size \in Sizes : TruncateFile(n, size)
          \/ \E w \in Writes, byte \in Bytes : WriteToFile(n, w, byte)

Spec == Init /\ [][Next]_vars
----------------------------------------------------------------------------
(* Every pointer of every allocated inode: which one it is, and its block. *)

InodeRefs(d, n) ==
    LET inode == d.inode[n]
        Through(kind, k, p) ==
            IF p = NoBlock THEN {} ELSE {<<kind, k, i, d.block[p][i]>> : i \in DOMAIN d.block[p]}
        level1 == Through("level 1", 0, inode.double)
        refs == {<<"direct", 0, i, inode.direct[i]>> : i \in DOMAIN inode.direct}
                \cup {<<"single", 0, 0, inode.single>>, <<"double", 0, 0, inode.double>>}
                \cup Through("by single", 0, inode.single)
                \cup level1
                \cup UNION {Through("level 2", e[3], e[4]) : e \in level1}
    IN  {ref \in refs : ref[4] # NoBlock}

References(d) == UNION {{<<n, ref>> : ref \in InodeRefs(d, n)} : n \in d.used}
Referenced(d) == {e[2][4] : e \in References(d)}

\* What reading finds; a logical block without a block is an error (EIO).
Unreadable == -1

FileBytes(d, n) ==
    [i \in 1 .. d.inode[n].size |->
        LET b == Lookup(d, d.inode[n], (i - 1) \div BlockSize)
        IN  IF b = NoBlock THEN Unreadable ELSE d.block[b][(i - 1) % BlockSize]]

TypeOK ==
    /\ disk.used \subseteq Inode /\ disk.bitmap \subseteq DataRegion
    /\ disk.freeInodes \in 0 .. MaxInodes /\ disk.freeBlocks \in 0 .. DataBlocks
    /\ \A n \in Inode :
          LET inode == disk.inode[n] IN
          /\ inode.generation \in 0 .. MaxGeneration
          /\ inode.size \in 0 .. MaxFileBlocks * BlockSize
          /\ inode.blocks \in 0 .. MaxFileBlocks
          /\ inode.direct \in [0 .. DirectBlocks - 1 -> DataRegion \cup {NoBlock}]
          /\ {inode.single, inode.double} \subseteq DataRegion \cup {NoBlock}
    /\ interrupted \in [inode : Inode \cup {NoInode}, ok : BOOLEAN, cleared : BOOLEAN]

\* No block has two owners, whatever the history of growth, failed growth,
\* shrinking and removal.
NoCrossLinks ==
    \A e, f \in References(disk) : e[2][4] = f[2][4] => e = f

\* Between operations the block bitmap is exactly the blocks reachable from
\* allocated inodes (nothing leaks, nothing in use is on offer), and the
\* superblock counters agree with the bitmaps.
BitmapIsExact ==
    interrupted = Nothing =>
        /\ disk.bitmap = Referenced(disk)
        /\ disk.freeBlocks = DataBlocks - Cardinality(disk.bitmap)
        /\ disk.freeInodes = MaxInodes - Cardinality(disk.used)

\* DESIGN section 12.8: a file has a block for each logical block below
\* ceil(size / block size), none beyond, and block_count says so; an indirect
\* pointer block is there exactly when a block needs it.
MappedUpToSize ==
    interrupted = Nothing =>
        \A n \in disk.used :
            LET inode == disk.inode[n]
                count == BlocksOf(inode.size)
            IN  /\ inode.blocks = count
                /\ \A lb \in 0 .. MaxFileBlocks - 1 :
                      lb < count <=> Lookup(disk, inode, lb) # NoBlock
                /\ inode.single # NoBlock <=> count > DirectBlocks
                /\ inode.double # NoBlock <=> count > DirectBlocks + PtrsPerBlock

\* DESIGN section 12.12, "Successful operations remain visible": after an
\* interruption too, an operation on one file changes no byte of any other, the
\* one that was being worked on apart.
OnlyOwnBytesChange ==
    [][\A n \in Inode :
          (\/ DeleteFile(n) \/ \E size \in Sizes : TruncateFile(n, size)
           \/ \E w \in Writes, byte \in Bytes : WriteToFile(n, w, byte)) =>
              \A m \in Files \ {n, interrupted.inode} :
                  m \in disk'.used /\ FileBytes(disk', m) = FileBytes(disk, m)]_vars

\* What an interrupted allocation leaves is a leak and nothing else, for good:
\* a block in use is marked, and a block beyond the end of a file reads as zero
\* (DESIGN section 12.13) when a later growth takes it over.
LeaksStayLeaks ==
    (interrupted = Nothing \/ OnlyAllocated) =>
        /\ Referenced(disk) \subseteq disk.bitmap
        /\ \A n \in Files, lb \in 0 .. MaxFileBlocks - 1 :
              LET b == Lookup(disk, disk.inode[n], lb) IN
              lb >= BlocksOf(disk.inode[n].size) /\ b # NoBlock => disk.block[b] = ZeroData

\* An image that was mounted can be mounted again (DESIGN section 12.12).
StaysMountable == Mountable

\* A slot taken again has a generation no earlier occupant had, so a handle
\* that remembers the old one cannot match (DESIGN section 4.2).
GenerationsNeverRepeat ==
    [][\A n \in Inode :
          /\ disk'.inode[n].generation >= disk.inode[n].generation
          /\ (n \notin disk.used /\ n \in disk'.used /\ interrupted' = Nothing) =>
                disk'.inode[n].generation > disk.inode[n].generation]_vars
=============================================================================
