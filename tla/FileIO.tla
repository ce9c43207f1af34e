------------------------------- MODULE FileIO -------------------------------
(***************************************************************************)
(* The bytes behind the handles: reads, writes, appends and seeks through  *)
(* descriptors (src/src/file_io.c), truncation by path, and mappings, which *)
(* are copies that are written back (src/src/mmap_io.c).                   *)
(*                                                                         *)
(* Every call holds the operation lock and the image lock, so it is one    *)
(* step, and the tables of all processes are one table.  A file is its     *)
(* bytes; which blocks hold them is the matter of the module Storage, and  *)
(* which files there are that of Namespace.  A transfer runs block by      *)
(* block, and an I/O error ends it after any number of blocks.             *)
(***************************************************************************)
EXTENDS Integers, Sequences, SequencesExt, FiniteSets, FiniteSetsExt

CONSTANTS
    File, Readable, Writable,   \* the files, and what their modes let the caller do
    Flags,          \* the flags callers open with: [reads, writes, append]
    Data,           \* what callers write
    Seeks,          \* the signed offsets callers seek by
    Sizes,          \* the sizes callers truncate to
    Ranges,         \* the mappings callers ask for: <<offset, length>>
    Stores,         \* the bytes callers store into shared mappings
    PrivateMark,    \* the byte they store into private ones, and nowhere else
    Contents,       \* what is in the files to begin with
    BlockSize,      \* UFS_BLOCK_SIZE
    MaxFileBlocks,  \* UFS_MAX_FILE_BLOCKS
    DataBlocks,     \* UFS_DATA_REGION_BLOCKS, without those of pointers
    MaxOffset,      \* INT64_MAX, the last off_t
    MaxOpenFiles,   \* UFS_MAX_OPEN_FILES
    MaxMappings,    \* UFS_MAX_MAPPINGS
    MayFail         \* whether blocks fail to be read or written

Modulus == 2 * (MaxOffset + 1)          \* of uint64_t
Byte == 0 .. 255

ASSUME FileIOAssumption ==
    /\ Readable \subseteq File /\ Writable \subseteq File
    /\ Flags \subseteq [reads : BOOLEAN, writes : BOOLEAN, append : BOOLEAN]
    /\ \A flags \in Flags : (flags.reads \/ flags.writes) /\ (flags.append => flags.writes)
    /\ BlockSize \in Nat \ {0}
    /\ {MaxOffset, MaxFileBlocks, DataBlocks, MaxOpenFiles, MaxMappings} \subseteq Nat
    /\ MaxFileBlocks * BlockSize <= MaxOffset
    /\ Seeks \subseteq -(MaxOffset + 1) .. MaxOffset /\ Sizes \subseteq Nat
    /\ \A range \in Ranges : range \in Nat \X (Nat \ {0})
    /\ Stores \subseteq Byte /\ PrivateMark \in Byte \ Stores /\ PrivateMark # 0
    /\ Data \subseteq Seq(Byte \ {PrivateMark}) \ {<<>>}
    /\ Contents \in [File -> Seq(Byte \ {PrivateMark})]
    /\ \A f \in File : Len(Contents[f]) <= MaxFileBlocks * BlockSize
    /\ MayFail \in BOOLEAN

VARIABLES
    file,       \* the bytes of each file
    fds,        \* the descriptor tables
    maps        \* the mapping tables, with the memory they point to

vars == <<file, fds, maps>>

Fd == 0 .. MaxOpenFiles - 1
Slot == 0 .. MaxMappings - 1
NoFile == "none"

Closed == [file |-> NoFile, offset |-> 0,
           flags |-> [reads |-> FALSE, writes |-> FALSE, append |-> FALSE]]
NoMapping == [file |-> NoFile, at |-> 0, bytes |-> <<>>, shared |-> FALSE, writable |-> FALSE]

FreeFds == {fd \in Fd : fds[fd] = Closed}
FreeSlots == {m \in Slot : maps[m] = NoMapping}

Init ==
    /\ file = Contents
    /\ fds = [fd \in Fd |-> Closed] /\ maps = [m \in Slot |-> NoMapping]
----------------------------------------------------------------------------
(* Transfers. *)

BlocksOf(size) == (size + BlockSize - 1) \div BlockSize
FreeBlocks == DataBlocks - MapThenSumSet(LAMBDA f : BlocksOf(Len(file[f])), File)

\* ufs_truncate_inode: a growth that finds too few blocks changes nothing.
Fits(f, size) ==
    /\ size <= MaxFileBlocks * BlockSize
    /\ BlocksOf(size) <= BlocksOf(Len(file[f])) + FreeBlocks

Resized(bytes, size) == [i \in 1 .. size |-> IF i <= Len(bytes) THEN bytes[i] ELSE 0]

Grown(f, size) == IF size > Len(file[f]) THEN Resized(file[f], size) ELSE file[f]

\* A chunk ends where its block or the transfer does.
Chunk(position, left) == Min({BlockSize - (position % BlockSize), left})

\* Where a transfer of `count' bytes is after `blocks' blocks.
Total(start, count, blocks) ==
    LET total[k \in Nat] ==
            IF k = 0 THEN 0
            ELSE LET t == total[k - 1] IN t + Chunk(start + t, count - t)
    IN  total[blocks]

\* Mutant: every chunk comes from the front of the caller's buffer.
RestartedBlock(bytes, position, total, data) ==
    LET last == position + Chunk(position, Len(data) - total)
    IN  [i \in DOMAIN bytes |-> IF i \in position + 1 .. last THEN data[i - position] ELSE bytes[i]]

\* One block of a copy into a file, `total' bytes of the data being done.
CopyBlock(bytes, position, total, data) ==
    LET last == position + Chunk(position, Len(data) - total)
    IN  [i \in DOMAIN bytes |->
            IF i \in position + 1 .. last THEN data[total + i - position] ELSE bytes[i]]

CopyIn(bytes, start, data, blocks) ==
    LET copy[k \in Nat] ==
            IF k = 0 THEN bytes
            ELSE LET total == Total(start, Len(data), k - 1)
                 IN  CopyBlock(copy[k - 1], start + total, total, data)
    IN  copy[blocks]

\* What is read of a block; its last bytes are zeros behind the end of the file.
InBlock(bytes, position, length) ==
    [i \in 1 .. length |-> IF position + i <= Len(bytes) THEN bytes[position + i] ELSE 0]

\* The blocks of a copy out of a file, one chunk after the other.
CopyOut(bytes, start, count, blocks) ==
    LET copy[k \in Nat] ==
            IF k = 0 THEN <<>>
            ELSE LET out == copy[k - 1]
                     position == start + Len(out)
                 IN  out \o InBlock(bytes, position, Chunk(position, count - Len(out)))
    IN  copy[blocks]

\* The blocks a transfer touches, and those it may get through.
Touched(start, count) == CHOOSE k \in 0 .. count : Total(start, count, k) = count
                                 /\ \A j \in 0 .. k - 1 : Total(start, count, j) < count
Progress(start, count) == IF MayFail THEN 0 .. Touched(start, count) ELSE {Touched(start, count)}
----------------------------------------------------------------------------
(* Descriptors. *)

Open(f, flags) ==
    /\ FreeFds # {}
    /\ flags.reads => f \in Readable
    /\ flags.writes => f \in Writable
    /\ fds' = [fds EXCEPT ![Min(FreeFds)] = [file |-> f, offset |-> 0, flags |-> flags]]
    /\ UNCHANGED <<file, maps>>

Close(fd) ==
    /\ fds[fd] # Closed
    /\ fds' = [fds EXCEPT ![fd] = Closed]
    /\ UNCHANGED <<file, maps>>

\* Mutant: the count is cut down to the file, not to the rest of it.
WholeFileCount(h, count) == Min({count, Len(file[h.file])})

\* What a read is cut down to: the rest of the file.
ClippedCount(h, count) == Min({count, Max({0, Len(file[h.file]) - h.offset})})

\* What a read hands out, and the offset it leaves.
ReadBytes(h, count, blocks) == CopyOut(file[h.file], h.offset, ClippedCount(h, count), blocks)

Read(fd, count) ==
    LET h == fds[fd] IN
    /\ h.flags.reads
    /\ \E blocks \in Progress(h.offset, ClippedCount(h, count)) :
          fds' = [fds EXCEPT ![fd].offset = @ + Total(h.offset, ClippedCount(h, count), blocks)]
    /\ UNCHANGED <<file, maps>>

\* Mutant: append mode chooses the end of the file at open time.
FixedStart(h) == h.offset

\* Append mode moves the offset first, whatever becomes of the write.
StartOf(h) == IF h.flags.append THEN Len(file[h.file]) ELSE h.offset

\* EFBIG and ENOSPC.
WriteRefused(fd, data) ==
    LET h == fds[fd]
        end == StartOf(h) + Len(data)
    IN  /\ h.flags.writes
        /\ end > MaxOffset \/ (end > Len(file[h.file]) /\ ~ Fits(h.file, end))
        /\ fds' = [fds EXCEPT ![fd].offset = StartOf(h)]
        /\ UNCHANGED <<file, maps>>

\* The file first grows to the end of the write, then the blocks are copied;
\* a write that is cut short keeps the size and says how far it came.
Write(fd, data) ==
    LET h == fds[fd]
        start == StartOf(h)
        end == start + Len(data)
    IN  /\ h.flags.writes
        /\ end <= MaxOffset /\ (end > Len(file[h.file]) => Fits(h.file, end))
        /\ \E blocks \in Progress(start, Len(data)) :
              /\ file' = [file EXCEPT ![h.file] = CopyIn(Grown(h.file, end), start, data, blocks)]
              /\ fds' = [fds EXCEPT ![fd].offset = start + Total(start, Len(data), blocks)]
        /\ UNCHANGED maps

Wrap(x) == x % Modulus                  \* uint64_t
AsOffset(x) == IF x > MaxOffset THEN x - Modulus ELSE x     \* (off_t)
Failed == -1

\* Mutant: the sum is not looked at before it is taken.
WrappingSeekOffset(base, change) == AsOffset(Wrap(base + change))

\* add_seek_offset, in unsigned arithmetic.
AddSeekOffset(base, change) ==
    LET magnitude == Wrap(Wrap(-(change + 1)) + 1)
    IN  IF change >= 0
        THEN IF base > Wrap(MaxOffset - change) THEN Failed ELSE AsOffset(Wrap(base + change))
        ELSE IF magnitude > base THEN Failed ELSE AsOffset(Wrap(base - magnitude))

Seek(fd, change, whence) ==
    LET h == fds[fd]
        base == CASE whence = "set" -> 0 [] whence = "cur" -> h.offset
                  [] whence = "end" -> Len(file[h.file])
    IN  /\ h # Closed
        /\ AddSeekOffset(base, change) # Failed
        /\ fds' = [fds EXCEPT ![fd].offset = AddSeekOffset(base, change)]
        /\ UNCHANGED <<file, maps>>

Truncate(f, size) ==
    /\ f \in Writable
    /\ size > Len(file[f]) => Fits(f, size)
    /\ file' = [file EXCEPT ![f] = Resized(@, size)]
    /\ UNCHANGED <<fds, maps>>
----------------------------------------------------------------------------
(* Mappings. *)

\* Mutant: a mapping is written back whatever kind it is.
EverWrittenBack(map) == map.writable

MmapAllowed(h, shared, writable) == h.flags.reads /\ (shared /\ writable => h.flags.writes)
WrittenBack(map) == map.shared /\ map.writable

\* The memory is a copy, with zeros where the file has ended.
Mmap(fd, at, length, shared, writable) ==
    LET h == fds[fd]
        count == Min({length, Max({0, Len(file[h.file]) - at})})
    IN  /\ FreeSlots # {} /\ at + length <= MaxFileBlocks * BlockSize
        /\ MmapAllowed(h, shared, writable)
        /\ maps' = [maps EXCEPT ![Min(FreeSlots)] =
                      [file |-> h.file, at |-> at, shared |-> shared, writable |-> writable,
                       bytes |-> Resized(CopyOut(file[h.file], at, count, Touched(at, count)),
                                         length)]]
        /\ UNCHANGED <<file, fds>>

\* The caller writes to the memory; what is not PROT_WRITE faults.
Store(m, i, byte) ==
    /\ i \in DOMAIN maps[m].bytes /\ maps[m].writable
    /\ maps' = [maps EXCEPT ![m].bytes[i] = byte]
    /\ UNCHANGED <<file, fds>>

\* write_inode_range over the first `length' bytes of the memory.
SyncFits(map, length) ==
    map.at + length > Len(file[map.file]) => Fits(map.file, map.at + length)

WriteBack(map, length, blocks) ==
    file' = [file EXCEPT ![map.file] =
               CopyIn(Grown(map.file, map.at + length), map.at, SubSeq(map.bytes, 1, length), blocks)]

\* sync_mapping, cut short or not.
Msync(m, length) ==
    LET map == maps[m] IN
    /\ length \in 1 .. Len(map.bytes) /\ WrittenBack(map) /\ SyncFits(map, length)
    /\ \E blocks \in Progress(map.at, length) : WriteBack(map, length, blocks)
    /\ UNCHANGED <<fds, maps>>

\* Mutant: the memory goes although it could not be written back.
ForgetfulMunmap(m) ==
    LET map == maps[m]
        length == Len(map.bytes)
    IN  /\ map # NoMapping
        /\ IF WrittenBack(map) /\ SyncFits(map, length)
           THEN \E blocks \in Progress(map.at, length) : WriteBack(map, length, blocks)
           ELSE UNCHANGED file
        /\ maps' = [maps EXCEPT ![m] = NoMapping]
        /\ UNCHANGED fds

\* The mapping goes once all of it is written back; one that fails on the way
\* stays, and has done what Msync does.
Munmap(m) ==
    LET map == maps[m]
        length == Len(map.bytes)
    IN  /\ map # NoMapping
        /\ WrittenBack(map) => SyncFits(map, length)
        /\ IF WrittenBack(map) THEN WriteBack(map, length, Touched(map.at, length))
                               ELSE UNCHANGED file
        /\ maps' = [maps EXCEPT ![m] = NoMapping]
        /\ UNCHANGED fds

\* A process dies, and with it every handle of its own.
Die(mine, memory) ==
    /\ mine \cup memory # {}
    /\ \A fd \in mine : fds[fd] # Closed
    /\ \A m \in memory : maps[m] # NoMapping
    /\ fds' = [fd \in Fd |-> IF fd \in mine THEN Closed ELSE fds[fd]]
    /\ maps' = [m \in Slot |-> IF m \in memory THEN NoMapping ELSE maps[m]]
    /\ UNCHANGED file

Descriptors ==
    \E fd \in Fd :
        \/ Close(fd)
        \/ \E data \in Data : Read(fd, Len(data)) \/ Write(fd, data) \/ WriteRefused(fd, data)
        \/ \E change \in Seeks, whence \in {"set", "cur", "end"} : Seek(fd, change, whence)
        \/ \E range \in Ranges, shared, writable \in BOOLEAN :
              Mmap(fd, range[1], range[2], shared, writable)

Mappings ==
    \E m \in Slot :
        \/ \E i \in DOMAIN maps[m].bytes :
              \E byte \in IF maps[m].shared THEN Stores ELSE {PrivateMark} : Store(m, i, byte)
        \/ \E length \in 1 .. Len(maps[m].bytes) : Msync(m, length)
        \/ Munmap(m)

Next ==
    \/ \E f \in File : \/ \E flags \in Flags : Open(f, flags)
                       \/ \E size \in Sizes : Truncate(f, size)
    \/ Descriptors \/ Mappings
    \/ \E mine \in SUBSET Fd, memory \in SUBSET Slot : Die(mine, memory)

Spec == Init /\ [][Next]_vars
----------------------------------------------------------------------------
\* Files are bytes and fit what an inode can map; descriptors and mappings are
\* of files, at positions an off_t holds.
TypeOK ==
    /\ file \in [File -> Seq(Byte)]
    /\ \A f \in File : Len(file[f]) <= MaxFileBlocks * BlockSize
    /\ fds \in [Fd -> {Closed} \cup [file : File, offset : 0 .. MaxOffset, flags : Flags]]
    /\ maps \in [Slot -> {NoMapping} \cup [file : File, at : Nat, bytes : Seq(Byte) \ {<<>>},
                                          shared : BOOLEAN, writable : BOOLEAN]]

\* ufs_seek moves to the sum of its base and the offset if that is a position,
\* and fails otherwise: the unsigned arithmetic never wraps (DESIGN section 7).
SeeksAreSums ==
    \A base \in {fds[fd].offset : fd \in Fd} \cup {Len(file[f]) : f \in File} :
        \A change \in -(MaxOffset + 1) .. MaxOffset :
            AddSeekOffset(base, change) =
                IF base + change \in 0 .. MaxOffset THEN base + change ELSE Failed

\* A read hands out the bytes from the offset on, as many as it reports, and
\* stops only at the count, the end of the file or an I/O error.
ReadsAreExact ==
    \A fd \in {x \in Fd : fds[x].flags.reads}, count \in {Len(data) : data \in Data} :
        LET h == fds[fd] IN
        \A blocks \in Progress(h.offset, ClippedCount(h, count)) :
            LET out == ReadBytes(h, count, blocks) IN
            /\ out = <<>> \/ h.offset + Len(out) <= Len(file[h.file])
            /\ \A i \in DOMAIN out : out[i] = file[h.file][h.offset + i]
            /\ Len(out) = Total(h.offset, ClippedCount(h, count), blocks)
            /\ MayFail \/ Len(out) = count \/ h.offset + Len(out) >= Len(file[h.file])

\* What `new' is when `data', or the part of it up to `done', was written over
\* `old' from `start' on: every other byte is kept, a gap is zeros.
Overlay(old, new, start, data, done) ==
    \A i \in DOMAIN new :
        new[i] = IF i \in start + 1 .. start + done THEN data[i - start]
                 ELSE IF i <= Len(old) THEN old[i] ELSE 0

\* DESIGN section 7: a write puts its bytes where the descriptor stands, or at
\* the end of the file as it is now when the descriptor appends; it changes
\* nothing else, fills a gap with zeros, and leaves the descriptor behind the
\* bytes it has written, even when an I/O error cuts it short.  The value it
\* returns is not looked at: it is -1 when all bytes are written and the times
\* cannot be.
WritesAreExact ==
    [][\A fd \in Fd, data \in Data :
          Write(fd, data) =>
              LET f == fds[fd].file
                  start == IF fds[fd].flags.append THEN Len(file[f]) ELSE fds[fd].offset
                  done == fds'[fd].offset - start
              IN  /\ done \in 0 .. Len(data) /\ (MayFail \/ done = Len(data))
                  /\ Len(file'[f]) = Max({Len(file[f]), start + Len(data)})
                  /\ Overlay(file[f], file'[f], start, data, done)
                  /\ \A g \in File \ {f} : file'[g] = file[g]]_vars

\* DESIGN section 10: writing a mapping back changes the range it was made of
\* and nothing else, block by block from the front.
SyncsAreExact ==
    [][\A m \in Slot, length \in 1 .. MaxFileBlocks * BlockSize :
          (Msync(m, length) \/ (Munmap(m) /\ maps[m].shared /\ maps[m].writable
                                         /\ length = Len(maps[m].bytes))) =>
              LET map == maps[m] IN
              /\ Len(file'[map.file]) = Max({Len(file[map.file]), map.at + length})
              /\ \E done \in 0 .. length :
                    /\ MayFail \/ done = length
                    /\ Overlay(file[map.file], file'[map.file], map.at, map.bytes, done)
              /\ \A g \in File \ {map.file} : file'[g] = file[g]]_vars

\* DESIGN section 10: "ufs_munmap() synchronizes a writable shared mapping
\* before releasing it": unless its process dies, it is in the file when it goes.
NothingMappedIsLost ==
    [][\A m \in Slot : (Munmap(m) /\ maps[m].shared /\ maps[m].writable) =>
          \A i \in DOMAIN maps[m].bytes :
              /\ maps[m].at + i <= Len(file'[maps[m].file])
              /\ file'[maps[m].file][maps[m].at + i] = maps[m].bytes[i]]_vars

\* DESIGN section 10: "a private mapping never modifies the file", not even
\* through another handle later.
PrivateStaysPrivate == \A f \in File : PrivateMark \notin ToSet(file[f])
=============================================================================
