# UserFS in TLA+

UserFS (`src/`) is a file system in one regular Linux file: a C library of about
4700 lines with a shell on top. This directory models the library in TLA+, checks
the models with TLC on small instances, and proves with TLAPS, for every value
of the constants, the central theorems about its journal, its locks and mounts,
formatting, names and handles, permissions and timestamps, and the bytes behind
descriptors and mappings.

`PROJECT.json` ties everything to the source: each modelling definition to its
lines, each hazard to its line and its properties, each property to a mutant of
the code that breaks it.

## 1. The system

| Component | Source | State | Operations |
|---|---|---|---|
| Image device | `src/src/userfs.c` | image file of 32768 blocks of 512 bytes; the page cache in front of it | block read and write, `fsync` |
| Lifecycle | `src/src/userfs.c` | `g_ufs` (descriptor, mounted flag, cached superblock) | format, mount (with recovery), unmount |
| Journal | `src/src/journal.c` | header block, slots, commit block; `g_journal_seq` | begin, stage a block or an inode, abort, commit, recover |
| Storage | `src/src/userfs_storage.c` | inode and block bitmaps, inode table, pointer blocks, superblock counters | allocate and free inodes and blocks, map logical blocks, truncate |
| Namespace | `src/src/namespace.c` | directory entries, link counts, symbolic-link texts | create, mkdir, rmdir, unlink, link, symlink, readlink, resolve, list, stat |
| File descriptors | `src/src/file_io.c` | `descriptor_table` of a process | open, close, read, write, seek |
| Mappings | `src/src/mmap_io.c` | `mapping_table` of a process, private copies of file ranges | mmap, msync, munmap |
| Metadata | `src/src/metadata.c` | owner, mode, times of an inode; the umask and the groups of a process | chmod, chown, umask, access, utimens, relatime |
| Locks | `src/src/ufs_sync.c` | a recursive mutex per process, an `fcntl` lock on the whole image | read lock, write lock, unlock |
| Shell | `src/apps/userfs_shell.c` | none of its own | a command line |

**Interaction.** Every public operation takes the operation mutex of its process
and then the `fcntl` lock of the image, runs, and gives both back. Only changes
of an inode's attributes go through the journal: chmod, chown and utimens, the
access time of a read and the times of a write, a write-back or a truncation
stage the inode and commit its one block. `write_inode`, with which inodes are
created, sized, linked and freed, writes the inode's table block directly, and
so are bitmaps, pointer blocks, directory blocks, file data and the superblock
written in place. `unlink` asks the descriptor and mapping tables of *its own*
process. Mount recovers the journal, caches the superblock and marks it dirty;
mount and unmount take neither lock. What processes share is the image file.

**What is hard.** The order of block writes and `fsync`s under process death
(the page cache survives) and power failure (it does not, and any subset of
blocks may have been written back); journals left behind by earlier processes;
running out of blocks half-way through three pointer levels; operations of
several block writes cut short; slots of the inode table that are reused while
handles remember their previous occupant; symbolic links expanded as text;
whole-bitmap read-modify-write and cached counters under two locks; mounts that
replay a journal without a lock; offsets and ages at the ends of their types;
mappings that are copies, written back late.

**What makes each component correct.**

- *Journal*: a transaction happens completely or not at all, for readers, for
  the next mount and across power failures; nothing old is ever replayed.
- *Storage*: inodes are independent byte arrays; bitmap, counters and pointers
  agree; a failed operation changes nothing; a cut-off one harms one file.
- *Namespace*: names and link counts agree; directories form a tree; a link
  resolves to what a walk from the link's place would reach; failures are
  invisible; open files keep their inode.
- *Locks*: a block has one owner; counters are exact; waits end.
- *Descriptors and mappings*: reads, writes and write-backs are those of a byte
  sequence, cut short or not; positions do not wrap; a mapping reaches its range
  and nothing else, a private one nothing at all.
- *Metadata*: exactly one permission class counts; nobody gains a right but
  through an owner; access times keep what relatime is for.
- *Lifecycle*: a format that succeeded is complete on the medium; an image that
  was mounted can be mounted again.

## 2. Modules

| Module | Models | Lines of C |
|---|---|---|
| `ImageDevice` | block writes, `fsync`, writeback, loss of the page cache | `userfs.c:88-118` |
| `Journal` (extends `ImageDevice`) | `journal.c` whole; mount and unmount around it; faults | `journal.c`, `userfs.c:287-387` |
| `AtomicStore` | abstract: an array of blocks with single writes and atomic groups | |
| `JournalStore` | the refinement mapping from `Journal` to `AtomicStore` | |
| `JournalProofs` | theorems on `Journal`; that it implements `AtomicStore` | |
| `SharedMount` | journal commits, direct writes, access times and recovery of several processes on one inode-table block | `journal.c`, `userfs.c:287-387`, `ufs_sync.c`, `namespace.c:959-976` |
| `Format` (extends `ImageDevice`) | formatting block by block, and what mount makes of it | `userfs.c:161-387` |
| `Storage` | `userfs_storage.c` whole, `ufs_write` on top of it, one interruption and what follows it | `userfs_storage.c`, `file_io.c:336-454` |
| `FileArray` | abstract: numbered byte sequences, one of whose operations may be cut short | |
| `Namespace` | names, links, resolution, descriptors, mappings, several processes | `namespace.c`, `file_io.c`, `mmap_io.c` |
| `FileIO` | bytes, offsets, append, seek; truncation by path; the memory of mappings | `file_io.c`, `mmap_io.c` |
| `Metadata` | modes, owners, groups, umask, timestamps, relatime | `metadata.c` and its callers |
| `SharedImage` | the two locks, mount and unmount, allocation by several threads of several processes | `ufs_sync.c`, `userfs.c:287-387`, `userfs_storage.c:310-383` |
| `SharedProofs`, `SharedMountProofs`, `FormatProofs`, `StorageProofs`, `NamespaceProofs`, `MetadataProofs`, `FileIOProofs` | theorems on the module each is named after (`SharedProofs` on `SharedImage`) | |
| `MCJournal`, `MCStorage`, `MCNamespace`, `MCSharedImage`, `MCSharedMount`, `MCFileIO`, `MCMetadata` | instances for TLC | |

Three modules look at the inode table from different sides. `Journal` has one
process and every fault of device and kernel, with direct writes beside the
commits; `SharedMount` has several processes and no power failure. In `Storage`
and the modules above it the write of an inode is one atom: there it is the one
block write of `write_inode`, and in `Metadata` a commit, which is all or nothing
by what `Journal` shows of transactions of one block.

**How state corresponds.**

*Journal.* `image` is what `pread` returns, `durable` what the medium holds.
`pc` names the next block write or `fsync` in the code; `next` is the loop index.
Each block write, each `fsync` and each staging call is an action of its own;
`KernelWriteback` may run between any two. An inode is one byte of its block and
the checksum is the code's sum, as blind to order as the code's. `seq` is a
static of the process: `Kill` and `PowerFailure` set it back to 1. `IOError`
makes the current operation return -1 where it stands, and its caller abort.

*Storage.* An operation is a `Run`: the disk as it is being written, the caller's
copy of the inode, whether a step failed, and the trail of disks passed through.
`Next` takes the last disk or, once in a behaviour, any of the trail. So the
control of `ensure_inode_data_block`, `free_inode_blocks_after` and
`ufs_truncate_inode`, rollback included, is that of the code, write by write.
After an interruption the image is mounted again, if its counters are in the
range `validate_superblock` accepts (`Mountable`), and operations go on over
what it left; the code repairs nothing. `interrupted` says which inode was being
worked on and whether bits of the bitmaps had been cleared; `Resumes` chooses
after which interruptions the run goes on. Counters are unsigned and wrap at
`CounterValues`.

*Namespace.* Directory entries are triples; the text of a symbolic link is
absolute or relative, with a sequence of names; `normalize_absolute_path` drops
`..` textually, as the code does. Blocks are counted here and identified in
`Storage`; `free` is the number of clear bits. An operation is a trail of disks
again, and with `MayDie` a process may stop at any of them; its tables and locks
go with it. `Resizing` is the trail of `ufs_truncate_inode`: one bit after the
other, the inode last, so a death on the way leaves an inode that counts blocks
that are free, or blocks that nobody counts. It is `torn` then. Other operations
go on beside it, and may be lent its blocks. What happens when a torn inode itself
is written to, resized or removed depends on which blocks these are; `Storage`
follows it, and in `Namespace` nobody does so.

*SharedImage.* Threads step through mutex, image lock, bitmap read, bitmap
write, counter, pointer, unlock. Each process has its cached superblock. The
`fcntl` lock belongs to the process, waits for other processes only, and is
dropped when the process closes the image.

*SharedMount.* A step is one read or one write of a block, in the page cache,
which processes share and which survives them. The table block is the set of
operations whose changes it shows, so that a write from an old copy shows as
operations gone missing. `seq` is each process's `g_journal_seq`, which starts
again with the process. `rule` is what callers keep to when they mount: `first`
(all before the first operation), `alone` (nobody else has the image mounted),
`quiet` (no operation is running), `any`. It is chosen at the start and kept.

*Format.* A block is what it was last written as; the size of the file is apart
from the blocks and has a durable state of its own. The geometry fields of the
superblock are one flag. `formatted` is a history variable: the last thing done
to the image was a format that returned success.

*FileIO.* A call holds both locks, so it is one step. A transfer goes through
its blocks one after the other and may end after any number of them (`MayFail`).
Offsets go up to `MaxOffset`, the last value of `off_t`, and are added with the
code's own unsigned arithmetic, modulo twice as much and two.
`Store` is what a caller does to mapped memory between calls; `Msync` and
`Munmap` write it back. `Die` is a process that goes and takes its handles along.

*Metadata.* A mode is a number whose bits are tested one by one. Callers are
identities with a group and supplementary groups, each with a `umask` of its
own. Handles keep the rights they were opened with, as `ufs_read` and
`ufs_write` ask for none again. The clock may be set (`MayJump`). Of a file's bytes
`filled` says whether there are any, since a read of none leaves the access time.
Block transfers may fail (`MayFail`): a read or a write then ends early, returns
what it has transferred or -1, and leaves the times. `seen` is a history variable:
whether a file was read since it was last written; "part" when the last write was
cut short after its first bytes; "unknown" when a call ended early in another way
(it may have touched bytes and reported an error, or the other way round), or once
somebody has set its times or set the clock back.

## 3. Runs

| Run | Question | Instance |
|---|---|---|
| `journal_faults` | are staged images exact, the limit kept, and is a commit durable under every fault? | 7 blocks, 2 slots, every kind of request, 2 faults of any kind |
| `journal_atomic` | is a transaction of two blocks atomic across power failures, and is every journal worked off? | 2 transactions of a process, 2 power failures |
| `storage` | does storage implement an array of files, to its limits, and what does an operation cut short leave to those after it? | 3 inodes, 1 direct block, 2 pointers per block, 10 data blocks, one interruption |
| `names` | names, links, resolution, handles of one process | 4 inodes, directories of 2 one-entry blocks, 4 data blocks |
| `names_shared` | two processes that may die in the middle of operations | 3 inodes, files of 2 blocks, 3 data blocks, 2 generations |
| `shared_processes` | three threads of two processes, with remounts | 2 blocks, 2 mounts |
| `mount_apart` | do commits, direct writes, access times under the read lock and replays undo each other? | 3 processes that mount first or alone, 2 operations each, death at any step |
| `format` | is a successful format complete on the medium? | 6 blocks, 2 bitmap blocks, 2 formats, every fault |
| `file_io` | are reads, writes and write-backs those of a byte sequence? | 2 files, 1 descriptor, 1 mapping, 3 blocks of 2 bytes, 4-bit offsets |
| `metadata_rights` | who may do what, and who may gain rights through whom? | a file in the root, 3 callers, modes 0047 and 0750 |
| `metadata_times` | are ages in range, changes dated, and is relatime of use? | times of 4 bits, 2-second days, a clock that may be set, transfers that may fail |

All of these pass. One more run shows where the code departs from its design:

| Run | Statement | What happens |
|---|---|---|
| `journal_io_error` | "Successful operations remain visible after unmounting and remounting the same image." (`DESIGN_Final.md:297-298`) | A home write fails after the commit record (`journal.c:213`): the operation reports failure, its journal stays valid, and the next mount replays it over a later, successful write. |

**Further configurations**, to be run by hand with
`tlc -config <name>.cfg <module>`. Two pass:

| Configuration | Module | Question |
|---|---|---|
| `journal_inode` | `MCJournal` | refinement, quiet states and `ChecksumTells` for the one-inode transactions the library makes, with process death too: 3 faults |
| `shared_threads` | `MCSharedImage` | two threads of one process with remounts: the counter is exact (`CounterIsExact`) |

The others are counterexamples. They mark the ends of what the runs above claim,
and each says what the design says of the place and what it does not: it claims
neither that every operation is one transaction (`DESIGN_Final.md:241-244`) nor
complete multi-process semantics (`DESIGN_Final.md:276-278`).

| Configuration | Module | Statement violated | What happens |
|---|---|---|---|
| `journal_stale_commit` | `MCJournal` | `IncompleteIsDiscarded`: "An incomplete ... transaction is discarded" (`DESIGN_Final.md:236`) | A process dies between clearing the header and clearing the commit record. Recovery returns at the blank header (`journal.c:247`) and leaves the record; every process counts from 1, so the next process's first transaction finds its commit record already there. |
| `journal_replay_crash` | `MCJournal` | `ReplayIsAtomic`: "recovery is safe if a crash happens during an earlier replay" (`DESIGN_Final.md:237-239`) | A journal survived a process death in the page cache only; recovery writes home blocks without synchronizing it first (`journal.c:290`), and a power failure keeps some of them. It takes a transaction of several blocks, which the library's own callers do not make. |
| `storage_shrink` | `MCStorage` | `OnlyOwnBytesChange` | Shrinking clears a block's bit before it drops the pointer (`userfs_storage.c:582-592`, `719-724`): cut short in between, the next allocation gives the block to a second file. |
| `storage_counter` | `MCStorage` | `StaysMountable` | A release clears the bit and then counts (`userfs_storage.c:374-380`): cut short in between, the free counter is one too low for good, goes below zero with the last allocation, and mount refuses it (`userfs.c:156`). |
| `names_link_crash` | `MCNamespace` | `EntriesAreAllocated` (`DESIGN_Final.md:294`) | `ufs_link` writes the name before the count (`namespace.c:835`): a process that dies in between leaves two names and a count of one. |
| `shared_counter`, `shared_clean` | `MCSharedImage` | `StaysMountable`; `DirtyWhileMounted` (`DESIGN_Final.md:71-72`) | Two processes have the image mounted and write back their cached superblocks whole: updates of the counters are lost, and the first unmount marks clean what the other one uses. |
| `mount_race`, `mount_stale` | `MCSharedMount` | `NothingIsUndone` | Mount recovers without the image lock (`userfs.c:329`): it replays a commit in progress over a later one, or the journal of a process that died long ago over what others have written since. |
| `metadata_short` | `MCMetadata` | `WritesShow`: "Writes and truncation update modification and change times" (`DESIGN_Final.md:214-215`) | `ufs_write` fails at a block after its first (`file_io.c:413-441`): it returns the number of bytes written and does not reach the times, so a file that was read before still looks read since its last write. |
| `format_cut` | `Format` | `RootIsThere` (`DESIGN_Final.md:284`) | The superblock is the first metadata block written (`userfs.c:236`): a format cut short after it leaves an image that mounts and has no root. |

**Bounds, and why they suffice.** *Journal*: two slots give a first and a last
block of a loop and one too many; two transactions of a process plus a
successor's give every meeting of an old journal with a new transaction
(`MaxSeq`); two faults give a fault in the recovery of a fault (`MaxFaults`).
Payload values are chosen so that the byte sum tells old and new images apart:
that a byte sum does not in general is a limit of the code, not a claim of the
model. *SharedMount*: a committer, a direct writer and a reader of a link at
once; two operations each, so that a process that has committed meets one that
commits with the same sequence number; a process that dies leaves its journal
to two successors. *Format*: the second format meets the image of the first, used
and unused; two bitmap blocks make the loop turn. *Storage*: one direct block and
two pointers to a block give seven file blocks over all three levels, with the
second level-1 entry reached; ten data blocks are one fewer than a file of seven
blocks needs with its pointer blocks and fewer than two files want, so growth
fails at every depth; there is a size in the single- and one in the double-indirect range, one too
large, and none at all in removal, which truncates to nothing; the write begins
in the single-indirect range and ends in the second level-2 block. One interruption suffices to ask what it
leaves to those that come after it. `MaxGeneration` bounds reuse. *Namespace*:
directories hold two names, there are fewer data blocks than names want, inodes
run out, one descriptor and one mapping per process are a full table,
`MaxSymlinkDepth` is small enough to be exceeded by a cycle; with processes that
die, files have two blocks of three, so that a release and a growth can stop
half-way and another file can be lent what is left. *FileIO*: a write of
three bytes crosses a block boundary wherever it starts; a fourth block is one
too many for a file, and the image is full before that; offsets of four bits
leave positions past every file, up to the last; the end of the file moves under
the descriptor by truncation and by write-back. *Metadata*: mode 0047 denies the
owner what others may, 0750 differs in every class; days of two seconds are
reached and not reached; times are set to both ends of their type. Rights do not
depend on transfers, and `metadata_rights` has none that fail.
*SharedImage*: two blocks make both exhaustion and a wrong choice possible;
counters have a small modulus; `MaxMounts` bounds remounts.

**Deadlock** is checked but for `format_cut` and the configurations of `Storage`
and `SharedMount`, which stop where their bounds end: when every format,
generation, or operation and mount, is used up, or when the counters are such
that no mount accepts the image (`userfs.c:156`).

**Fairness.** `Journal!FairSpec` assumes that a process that is committing or
mounting goes on, and that somebody mounts the image again; nothing is assumed
of faults except their bound. `SharedImage!FairSpec` assumes that each thread
that can continue all the time does: weak fairness of a thread, which the
scheduler provides. Neither POSIX mutexes nor `fcntl` promise an order to their
waiters, so no strong fairness is assumed, and the liveness properties say that
*some* waiting thread goes on, not that each does.

## 4. Properties

*Journal.* `ImplementsStore` (refinement of `AtomicStore`: commits are
all-or-nothing for readers, for a later mount and after power failures);
`CommittedIsDurable`; `ReadsWhatMountReads` (nothing stale left to replay);
`StagedImages` (read-modify-write of inode blocks loses no update);
`JournalRetires` (liveness).

*Storage.* `ImplementsFileArray` (refinement of `FileArray`: failed operations
are stuttering steps, one that is cut short harms its own file only, and what
comes after an interrupted allocation is exact again); `NoCrossLinks`;
`BitmapIsExact`; `MappedUpToSize`; `GenerationsNeverRepeat`; `LeaksStayLeaks`
(what an interrupted allocation leaves is marked, and zero when a later growth
takes it over); `StaysMountable`.

*Namespace.* `LinksAreNames`, `OneTree`, `BlocksAccounted`, `DirectoriesHold`,
`HandlesAreCurrent`, `ResolvesAsWalked` (textual re-resolution against a
reference that walks from where the link is), `FailureIsInvisible`; with two
processes that may die, `NamesAreBacked`, `ReuseIsDetected` and
`NothingCountedTwice` (a death inside a release leaves blocks free that its inode
still counts, and they are lent again, as `storage_shrink` shows; but no block of
another inode is free or somebody else's, and a writer whose file another process
has removed may only lose blocks).

*SharedImage.* `NoDoubleAllocation`, `OwnedIsMarked`, `MutexIsPassedOn`,
`OperationsComplete`; with one process `CounterIsExact`.

*SharedMount.* `NothingIsUndone`: no later write of the block, be it another
operation's, an access time's or a replay's, undoes an operation that has
returned success.

*Format.* `FormatIsDurable`.

*FileIO.* `SeeksAreSums` (the unsigned arithmetic of `add_seek_offset` against the
integers, for every base and every signed offset); `ReadsAreExact`;
`WritesAreExact` (gap, size and position agree even when a write is cut short);
`SyncsAreExact`; `NothingMappedIsLost`; `PrivateStaysPrivate`.

*Metadata.* `ClassesAreExclusive` (bit tests against octal tables);
`RightsComeFromOwners` (over every combination of chmod, chown, groups and
directories on the way of a fixed tree); `ChangesAreDated`; `ReadingShows` (what
relatime is for: the times tell of the reads and writes that got to their end);
`AgesAreInRange`. `WritesShow` asks the same of writes that were cut short, and
does not hold (`metadata_short`).

Every property has a mutant: a definition of the model changed as a plausible
bug would change the code (a missing `fsync`, an off-by-one in an index, a
dropped rollback, a lock not given back). The mutants stand before the
definitions they change, marked `Mutant`.

## 5. Proofs

Every theorem is proved for all values of the constants that satisfy the
assumption its component's module names (`JournalAssumption`, ...): what the
code's constants satisfy, and no bound of the runs. The invariants were checked
by TLC on the runs before they were proved.

### Journal

`JournalProofs`:

- `JournalTypeCorrect`: `Spec => []TypeOK`.
- `CommittedSurvives`: `Spec => []CommittedIsDurable`, with every kind of fault.
- `NothingLeftToReplay`: `Spec => []ReadsWhatMountReads` if no I/O error happens;
  with I/O errors the statement is false, as `journal_io_error` shows.
- `NoStagedUpdateIsLost`: `Spec => []StagedImages`.

`TypeInv` adds to `TypeOK` what each step needs of `next` and
of the request being staged. `Layout` and `TxLayout` say that slots, header,
commit record and home blocks are apart, so that a write of one leaves the
others. `CommittedIsDurable` is not inductive: it speaks of the recovered medium
in the last five steps, and nothing in it says how they are reached.
`PhaseInv` is the strengthening. It says, phase by phase, what the page cache and
what the medium hold: the header and the images written so far; all of them on
the medium before the commit record is written; everything on the medium while
home blocks are written; home blocks on the medium before the journal is
cleared. Writeback between any two steps copies a block from one to the other,
so each phase is stated of both. `CommittedMounts` and `ClearedMounts` derive what
recovery makes of such a medium. `NothingLeftToReplay` rests on `QuietInv`: the
header is blank in the page cache from its clearing on, and on the medium from
the `fsync` that follows; every way to `idle` leads through that `fsync`.
`StagedImages` compares buffers with a fold over the requests only when staging is
over; `StageInv` states it of every byte after every request, through the last
request that covers the byte (`OutcomeIsNewest`).

The refinement, in the second half of the module:

- `JournalIsAtomic`: with power failures only,
  `Spec /\ []ChecksumTells => ImplementsStore`.
- `JournalIsAtomicUntilItFails`: without faults, `Spec => ImplementsStore`.

`StoreInv` adds to the two invariants above where page cache and medium agree
(`MediumInv`) and how far a replay is (`ReplayInv`): the mapping takes what a
mount of either disk would show, so a step is a step of the store only if the two
records that count are the same one, or the one on the medium is in place already
(`Agreed`). One lemma per kind of step shows which action of the store it is: a
home write under a record that counts is none, a writeback of the header or the
commit record keeps a whole group or nothing, a power failure is the store's.
`ChecksumTells` is a proviso and not a lemma, because the code does not ensure
it: while the images of a transaction are being written, the page cache or the
medium may hold a commit record of an earlier process with the same number, and
a byte sum that happens to agree. The configuration `journal_inode` checks that
it holds of its images; without faults no commit record outlives its transaction
(`FreshInv`) and the second theorem needs no proviso. With process death the
refinement is false for transactions of several blocks (`journal_replay_crash`),
which is why the first theorem excludes it, and I/O errors are excluded as above.

### Storage

`StorageProofs`, for any size of block, pointer block, data region and inode table,
for any sizes and writes, with one operation cut short between any two of its
block writes:

- `BitmapExact`, `FilesAreMapped`: `BitmapIsExact`, `MappedUpToSize`. They are about
  operations that ran to their end, failed ones with their rollback included.
- `LeaksAreLeaks`: `LeaksStayLeaks`, after an interrupted allocation.
- `BlocksHaveOneOwner`, `ImageStaysMountable`, `GenerationsGrow`: `NoCrossLinks`,
  `StaysMountable`, `GenerationsNeverRepeat`, if only interrupted allocations are
  worked on (`Resumes = "allocates"`, as in the run `storage`). A release cut
  short leaves a block free that is still pointed to, and a counter one too low;
  `storage_shrink` and `storage_counter` show what operations make of these.
- `TypeCorrect`: `Spec => []TypeOK`, under the same condition.
- `StorageInductive`: `Spec => []StorageInv`, the invariant the others follow from.

`StorageInv` has three strengths. With no interruption the image is `Tidy`: the
bitmap is the set of blocks the inodes hold, and each file has the slots its size
asks for. After an interrupted allocation it is `Whole`: blocks held are marked
and zero past the end of their file, and the free counter lies between the clear
bits and the blocks not held, which is what keeps its decrement from wrapping.
After any interruption, if only interrupted allocations are worked on, it is
`Loose`: the pointers form a forest (`Forest`) - no block in two slots, no slot
that leads out of the data region or reads bytes as pointers - and the counters
are in range.

A `Slot` is a place for a pointer: direct, a root, or an entry of a pointer block
on one of the two levels; `First` gives the first logical block behind it and
`Home` the slot of a logical block. What a call does is said in slots. Growing:
each pass either puts a block nobody holds into an empty slot or fails with
nothing changed (`EnsuresBlock`), and every image on the way is `Fine`, one an
interruption may leave. Giving back: the slots past the kept blocks are freed and
then emptied, the entries of one pointer block at a time (`Freeing`), so an image
on the way is either `Fine` or has a bit cleared too early (`Gap`); `CutShort`
tells the two apart by the bitmap, as `interrupted.cleared` does. Shrinking, the
zeroed tail, the rewritten inode and the copied bytes are put together in
`Shrinks`, `GrowsFully`, `Finishes` and `WritesSafely`, and `StorageStep` has one
case per action. The loops are recursive functions of the number of passes done;
`LoopRuns` is the induction over them, and `Euclid` gives the division that finds
a block in the double-indirect tree. TLC has checked
`StorageInv` on the instance of `storage`.

### Locks

`SharedProofs` proves for any threads, any assignment of them to processes and
any finite data region, with processes mounting and unmounting in between
(callers do not unmount during an operation of their own
process, which is a guard of the model):

- `OwnedStaysMarked`: `Spec => []OwnedIsMarked`.
- `NoBlockTwice`: `Spec => NoDoubleAllocation`.
- `SharedTypes`: `Spec => []TypeOK`, the counter modulo 2^32 included.

And for one process, where two processes break them (`shared_counter`,
`shared_clean`):

- `CounterStaysExact`: `Spec => []CounterIsExact`.
- `OneProcessMounts`: `Spec => []StaysMountable`, in the middle of operations too.
- `OneProcessIsDirty`: `Spec => []DirtyWhileMounted`.

The first two are not inductive: both speak of threads that are in
the middle of an allocation, and nothing in them says that there is only one.
`MutexInv` says that whoever is past the mutex has it, and that whoever mounts
or unmounts is alone in its process, so that the close which drops the
process's lock drops nobody's; `LockInv` that the image is locked for whoever
is inside and that a writer's lock is the only one. `Alone` follows: while one
thread is between its read of the bitmap and its last write, no other is inside.
`DataInv` then says what that thread sees: the bitmap it read is the bitmap;
every file's block is marked but for the one just given back; the one just
taken is marked and nobody's. `DataUndisturbed` deals with every step that is
not an access. That first fit yields a free block at all (`FirstFitIsFree`) rests
on the well-foundedness of `<`, from which `MinIsLeast` is derived.

For one process `CountInv` follows the counter through an operation: it agrees with
the bitmap but for the thread that has written the bitmap and is about to count,
for which it is one too high or one too low, and what the process caches is what
the image holds. `Alone` gives that there is one such thread; that subtracting one
by adding 2^32 - 1 does not wrap wrongly needs 2^32 to exceed the data region.
`DirtyInv` says that between the two steps of a mount the cache is already dirty,
and that a mounted process which is not closing has both copies dirty; only an
unmount writes clean, and by `MutexInv` nobody counts until its close.

### Mounts

`SharedMountProofs`, for any processes, operations and mounts:

- `LocksAndTypes`: `Spec => []TypeOK`, whenever callers mount.
- `MountsApartUndoNothing`: `Spec => []NothingIsUndone` for callers that mount
  before the first operation or alone. For the others the statement is false
  (`mount_race`, `mount_stale`).

`NothingIsUndone` says what the table has, but a step writes what a buffer or the
journal has. `TableInv` says of each operation that what it is about to write is
the table with its own change, which the lock makes true (`AccessInv`). Replays
are the rest. `FirstInv`: when all mount first, they find a cleared header, so
nobody replays. `AloneInv`: a journal whose image verifies, left by whoever died,
has everything that has returned success, until a mount has cleared it; `KnownInv`,
that nothing shows an operation that has not begun, is what keeps a journal with
an old image and a new header from verifying.

### Formatting

`FormatProofs`, for images and bitmaps of any size:

- `FormatsAreDurable`: `Spec => []FormatIsDurable`, with every fault.
- `RootsAreThere`: without faults an image that mounts has a root; `format_cut`
  shows what a format cut short leaves.
- `FormatTypes`: `Spec => []TypeOK`.

`FormatIsDurable` speaks of the end only. `LayoutInv` says which blocks are laid out
at each step and that the others are zero, because of `O_TRUNC` and whatever has
been written back since; `SizeInv` that the file has its size from the
`ftruncate` on. The `fsync` at the end then takes over all of it.

### Names and handles

`NamespaceProofs`, for any processes, paths, links, targets, sizes of inode table
and directories, and whatever path resolution yields. Wherever processes die:

- `DirectoriesAlwaysHold`, `WholeInodesShareNothing`, `ReuseIsAlwaysDetected`:
  `DirectoriesHold`, `NothingCountedTwice`, `ReuseIsDetected`.
- `NamesAreAlwaysBacked`: `NamesAreBacked` if nobody makes hard links, since a death
  in the middle of `ufs_link` leaves a count behind (`names_link_crash`).
- `HandlesAreAlwaysCurrent`: `HandlesAreCurrent` for one process; `ufs_unlink` sees
  no other's tables.
- `NamespaceTypes`: `Spec => []TypeOK`.

When none dies:

- `LinksCountNames`, `FailuresAreInvisible`: `LinksAreNames`, `FailureIsInvisible`.
- `DirectoriesAreOneTree`: `OneTree`.
- `BlocksAreAccounted`: `BlocksAccounted` for one process.

A death leaves a disk from the middle of an operation, so the invariant has to
hold of every disk of every trail. `DiskOK` is the part that does: a free inode
has no type, only directories have entries, none has a name twice or more
entries than slots, no chain of entries leads back to where it began (`Ranked`),
and free blocks and those held by *all* inodes are no more
than there are. All inodes, because a handle whose file another process removed
still matches the generation of the free inode and may write to it: such blocks
are in no allocated inode, and a count of these alone is not inductive. Held is
what an inode is `Sure` to have, which is nothing while it is torn: on the first
disk of `Resizing` the blocks of the inode leave the sum, on the last they are back
in it, and in between bits come and go without a count (`TearStep`, `SpaceStep`).
`ResizingTrail`, `CreationTrail`, `GoneTrail`, `UnlinkedTrail` and `LinkTrail` show
of each operation that its disks are in `Left`: they satisfy `DiskOK`, have no
generation lowered, and keep at least as many links as names (`NamesOK`) - all but
those of `ufs_link`, which are only in `Kept`. They show of its last disk alone
(`Ended`) that an inode that is taken has a new generation, that without a change
of names no inode changes, and that links and blocks are exact if they were.
`Step` puts this together with the tables: no handle is of a later generation
than its inode (`Aged`), which is what detects reuse, and in one process every
handle is of an allocated file (`AllCurrent`), which `BlocksAccounted` needs as
well. TLC has checked `DiskOK`, `HandlesOK` and `NamesOK` on the instance of
`names_shared`, and all of the invariant on that of `names`.

`OneTree` takes three of these. `Ranked` is a number for every inode that grows
along every entry. An operation adds one entry, of an inode with nothing
in it, which can be numbered anew above its directory (`RankOfMore`); a death in
between leaves fewer entries (`RankOfFewer`). So nothing is its own ancestor.
`LinksOK` gives every allocated inode but the root a name, so in a set that goes
up to everything above it the lowest number can only be the root's
(`RootIsOnTop`): parents lead there. `NamesOK` gives a directory one name.

### Permissions and timestamps

`MetadataProofs`, for any tree, callers, modes, owners, times and clock:

- `OneClassCounts`, `OwnersGrantRights`: `ClassesAreExclusive`, `RightsComeFromOwners`.
- `NoForgedChange`, `RelatimeWorks`, `AgesInRange`: `ChangesAreDated`,
  `ReadingShows`, `AgesAreInRange`.
- `MetadataTypes`: `Spec => []TypeOK`.

`AgesAreInRange` needs `ChangedSince`: a change time is never before the epoch,
because only the clock sets it, while access and modification times may be
any. `RightsComeFromOwners` goes through what permissions are computed from
(`Guard`): a call of somebody who, after it, owns no node of the way to a file
leaves the guards of that way alone, or removes the node it leads to
(`StrangersChangeNothing`), and neither gives anybody a right.

### Bytes

`FileIOProofs`, for every size of blocks, files and `off_t`:

- `ReadsReturnTheFile`, `WritesWriteTheirData`, `SyncsWriteTheirRange`:
  `ReadsAreExact`, `WritesAreExact`, `SyncsAreExact`.
- `SeekIsSum`: `SeeksAreSums`. `MappedBytesReachTheFile`: `NothingMappedIsLost`.
- `PrivateMemoryIsPrivate`: `PrivateStaysPrivate`.
- `FileIOTypes`: `Spec => []TypeOK`.

The loops over blocks are recursive functions of the number of blocks. What they
compute is shown by looking at the least number for which it would fail (`Least`,
`Induction`): after `n` blocks the bytes up to the end of the `n`th are copied and
the others are what they were. `PrivateStaysPrivate` is not inductive, since a
file gets its bytes from shared mappings and those from the file: both are free of
the mark a private mapping is given (`FilesAreClean`, `SharedIsClean`).

### Model-checked only

- Liveness (`JournalRetires`, `MutexIsPassedOn`, `OperationsComplete`).
- `ImplementsFileArray` of `Storage`: the proofs follow which slot holds which block,
  and of the bytes only that those past the end are zero.
- `ResolvesAsWalked` of `Namespace`: folds over paths. It is claimed for texts in
  which ".." comes first, and its reference stops after as many steps as the
  instance's texts can need, so it is no statement about every text. The theorems
  on `Namespace` need of resolution only that it yields an inode or none.

## 6. Not modelled

- Listing and stat, which change nothing; the limits on the length of names and
  paths; nanoseconds, which only break ties between times.
- Unmounting during an operation of the same process (`userfs.c:374`): no lock
  protects it, and `SharedImage` assumes that callers do not (`Quiet`).
- Formatting an image another process has mounted (`userfs.c:191`): nothing
  prevents it, and nothing is promised.
- The composition of `Storage` and `Namespace` with `Journal`: `ufs_truncate` writes
  the inode directly and then commits it with new times, a commit of the same inode
  once more; what a journal left by it undoes or not is asked in `SharedMount`.
- In `Namespace`, writing to, resizing or removing a file whose resize a death cut
  short (`torn`): `Storage` follows this for one process.
- The return value of a write whose bytes are all written and whose times cannot be
  (-1, `file_io.c:448`), in `FileIO`; hard links in `Metadata`.
- A second interruption in `Storage`; repair, of which there is none in the code.
- Two descriptors of one file in `FileIO`'s run: `MaxOpenFiles` is a constant, and
  the file moves under the one descriptor by truncation and by write-back.
- Hard links under process death: `names_shared` makes none, for the reason
  `names_link_crash` shows.
- An unlink in one process of a file open in another: the tables are per
  process; `HandlesAreCurrent` is claimed for one, `ReuseIsDetected` and
  `NothingCountedTwice` for two.
- Short reads and writes of the host and `EINTR`, which the code retries
  (`userfs.c:23-67`); the shell; the tests; the wording of errors.

## 7. Plan

Done: 1 journal, its abstract store and first theorems; 2 storage and the file
array; 3 names and handles; 4 locks and the shared allocator, with theorems;
5 bytes behind descriptors and mappings; 6 rights and times; 7 storage beyond an
interruption; 8 the journal under several processes, and formatting; 9 theorems
on the journal's refinement, mounts, formatting, rights and times, bytes, names
and handles, and the storage layer.

What is left is proofs, in this order:

1. `JournalProofs`: the refinement with process death, for transactions of one block.
2. `Storage`: `ImplementsFileArray`, from `StorageInv` and what each loop does to the
   bytes of a file.
