------------------------------ MODULE Journal ------------------------------
(***************************************************************************)
(* The redo journal of UserFS (src/src/journal.c) with the mount and       *)
(* unmount that surround it (src/src/userfs.c): staging, the commit        *)
(* protocol block write by block write, recovery, direct writes that       *)
(* bypass the journal, process death, power failure and I/O errors.        *)
(*                                                                         *)
(* One process, one operation at a time: the library runs transactions     *)
(* under its operation lock.  An inode is one byte of a home block and a   *)
(* block holds InodesPerBlock of them, so the byte-sum checksum and the    *)
(* read-modify-write of an inode-table block are those of the code.        *)
(***************************************************************************)
EXTENDS ImageDevice, Sequences, Functions

CONSTANTS
    InodeTableStart,    \* UFS_INODE_TABLE_START_BLK
    InodeTableBlocks,   \* UFS_INODE_TABLE_BLOCKS
    InodesPerBlock,     \* UFS_BLOCK_SIZE / UFS_INODE_SIZE
    JournalStart,       \* UFS_JOURNAL_START_BLK
    JournalBlocks,      \* UFS_JOURNAL_BLOCKS
    MaxTxBlocks,        \* UFS_MAX_TX_BLOCKS
    Byte,               \* the values of one byte
    Workload,           \* the transactions callers ask for: sequences of requests
    DirectWrites,       \* the unjournalled writes callers make: <<block, data>>
    Faults,             \* which faults happen: a subset of {"kill", "power", "io"}
    MaxSeq,             \* bound: transactions begun by one process
    MaxFaults           \* bound: faults of one behaviour

SuperBlk  == 0
HeaderBlk == JournalStart
CommitBlk == JournalStart + JournalBlocks - 1
Slot(i)   == JournalStart + i
Journal   == JournalStart .. CommitBlk
Home      == Block \ Journal

Offset == 0 .. InodesPerBlock - 1
Data   == [Offset -> Byte]
Zeroed == [o \in Offset |-> 0]
Clean  == 0
Dirty  == 1

\* An after-image of a block, or an inode to be merged into its block.
BlockRequest == [kind : {"block"}, target : Nat, data : Data]
InodeRequest == [kind : {"inode"}, inode : Nat, value : Byte]

ASSUME JournalAssumption ==
    /\ JournalStart \in Nat \ {0} /\ JournalBlocks \in Nat
    /\ MaxTxBlocks \in Nat \ {0}
    /\ JournalBlocks >= MaxTxBlocks + 2
    /\ JournalStart + JournalBlocks <= TotalBlocks
    /\ InodesPerBlock \in Nat \ {0}
    /\ InodeTableStart \in Nat \ {0} /\ InodeTableBlocks \in Nat
    /\ InodeTableStart + InodeTableBlocks <= JournalStart
    /\ {Clean, Dirty} \subseteq Byte
    /\ Workload \subseteq Seq(BlockRequest \cup InodeRequest)
    /\ DirectWrites \subseteq Home \X Data
    /\ MaxSeq \in Nat /\ MaxFaults \in Nat

VARIABLES
    pc,         \* what the process is about to do
    seq,        \* g_journal_seq: a static of the process, not of the image
    tx,         \* the transaction: its number, target blocks and after-images
    request,    \* what the caller of this transaction stages
    next,       \* the loop index of the step in progress
    faults      \* faults so far

vars == <<image, durable, pc, seq, tx, request, next, faults>>
----------------------------------------------------------------------------
(* What the journal blocks say. *)

NoTx == [seq |-> 0, targets |-> <<>>, buffers |-> <<>>]

BlankHeader == [magic |-> FALSE, seq |-> 0, targets |-> <<>>, sum |-> 0]
BlankCommit == [magic |-> FALSE, seq |-> 0]

\* The sum of all bytes of a block: blind to the order of the bytes.
ByteSum(data) == SumFunction(data)

\* The sum over a whole payload: blind to the order of the blocks as well.
Checksum(payload) ==
    SumFunction([i \in DOMAIN payload |-> ByteSum(payload[i])])

HeaderOf(t) == [magic |-> TRUE, seq |-> t.seq, targets |-> t.targets,
                sum |-> Checksum(t.buffers)]
CommitOf(t) == [magic |-> TRUE, seq |-> t.seq]

Payload(disk) == [i \in DOMAIN disk[HeaderBlk].targets |-> disk[Slot(i)]]

\* Recovery replays the journal of this disk: a header with a sane count, a
\* commit record with its sequence number, targets at home, the checksum.
ValidJournal(disk) ==
    LET header == disk[HeaderBlk] IN
    /\ header.magic
    /\ Len(header.targets) \in 1 .. MaxTxBlocks
    /\ disk[CommitBlk].magic
    /\ disk[CommitBlk].seq = header.seq
    /\ \A i \in DOMAIN header.targets : header.targets[i] \in Home
    /\ Checksum(Payload(disk)) = header.sum

\* The home blocks a mount of this disk shows: what recovery would replay,
\* over what is there.
Recovered(disk) ==
    LET targets == disk[HeaderBlk].targets IN
    [b \in Home |->
        IF ValidJournal(disk) /\ \E i \in DOMAIN targets : targets[i] = b
        THEN disk[Slot(CHOOSE i \in DOMAIN targets : targets[i] = b)]
        ELSE disk[b]]
----------------------------------------------------------------------------
\* ufs_format leaves a clean superblock and zeroed blocks, synchronized.
Formatted == [b \in Block |-> CASE b = HeaderBlk -> BlankHeader
                                [] b = CommitBlk -> BlankCommit
                                [] OTHER -> Zeroed]

Init ==
    /\ image = Formatted /\ durable = Formatted
    /\ pc = "down" /\ seq = 1 /\ tx = NoTx /\ request = <<>> /\ next = 1
    /\ faults = 0

\* The process moves on from one step of its code to another.
Goto(from, to) ==
    /\ pc = from /\ pc' = to
    /\ UNCHANGED <<seq, tx, request, faults>>

\* The same, for a step that leaves the loop index alone.
Step(from, to) == Goto(from, to) /\ UNCHANGED next
----------------------------------------------------------------------------
(* ufs_tx_begin and the staging functions. *)

Begin(w) ==
    /\ pc = "idle" /\ seq <= MaxSeq
    /\ pc' = "staging"
    /\ tx' = [seq |-> seq, targets |-> <<>>, buffers |-> <<>>]
    /\ seq' = seq + 1
    /\ request' = w /\ next' = 1
    /\ UNCHANGED <<image, durable, faults>>

\* The block a request ends up in.
TargetOf(r) == IF r.kind = "block"
               THEN r.target
               ELSE InodeTableStart + r.inode \div InodesPerBlock

Staged(t, b) == \E i \in DOMAIN t.targets : t.targets[i] = b

\* Mutant: an inode is merged into the device's block, not the staged one.
StaleImageOf(r, t) ==
    IF r.kind = "block" THEN r.data
    ELSE [image[TargetOf(r)] EXCEPT ![r.inode % InodesPerBlock] = r.value]

\* The image a request stages.  An inode is merged into the block as this
\* transaction has staged it, or as the device holds it.
ImageOf(r, t) ==
    IF r.kind = "block"
    THEN r.data
    ELSE LET b == TargetOf(r)
             base == IF Staged(t, b)
                     THEN t.buffers[CHOOSE i \in DOMAIN t.targets : t.targets[i] = b]
                     ELSE image[b]
         IN  [base EXCEPT ![r.inode % InodesPerBlock] = r.value]

\* Mutant: nobody counts the staged blocks.
UncountedRefused(r, t) ==
    \/ r.kind = "inode" /\ r.inode >= InodeTableBlocks * InodesPerBlock
    \/ TargetOf(r) \notin Home

\* A request the staging functions refuse: EINVAL for a target off the image,
\* inside the journal or an inode past the table, ENOSPC for one block too many.
Refused(r, t) ==
    \/ r.kind = "inode" /\ r.inode >= InodeTableBlocks * InodesPerBlock
    \/ TargetOf(r) \notin Home
    \/ ~ Staged(t, TargetOf(r)) /\ Len(t.targets) >= MaxTxBlocks

\* The newest image of a block replaces an older one in the same transaction.
Restage(t, b, data) ==
    [t EXCEPT !.buffers = [i \in DOMAIN @ |->
                              IF t.targets[i] = b THEN data ELSE @[i]]]

Append1(t, b, data) ==
    [t EXCEPT !.targets = Append(@, b), !.buffers = Append(@, data)]

Stage ==
    /\ pc = "staging" /\ next <= Len(request)
    /\ LET r == request[next]
           b == TargetOf(r)
       IN  /\ ~ Refused(r, tx)
           /\ tx' = IF Staged(tx, b) THEN Restage(tx, b, ImageOf(r, tx))
                                     ELSE Append1(tx, b, ImageOf(r, tx))
    /\ next' = next + 1
    /\ UNCHANGED <<image, durable, pc, seq, request, faults>>

\* Every caller answers a failure with ufs_tx_abort, which scrubs the staged
\* blocks and touches nothing of the journal on the device.
AbortTo(state) ==
    /\ pc' = state /\ tx' = NoTx /\ request' = <<>> /\ next' = 1

StageRefused ==
    /\ pc = "staging" /\ next <= Len(request)
    /\ Refused(request[next], tx)
    /\ AbortTo("idle")
    /\ UNCHANGED <<image, durable, seq, faults>>
----------------------------------------------------------------------------
(* ufs_tx_commit. *)

CommitNothing ==
    /\ pc = "staging" /\ next > Len(request) /\ tx.targets = <<>>
    /\ AbortTo("idle")
    /\ UNCHANGED <<image, durable, seq, faults>>

WriteHeader ==
    /\ next > Len(request) /\ tx.targets # <<>>
    /\ Goto("staging", "images") /\ next' = 1
    /\ WriteBlock(HeaderBlk, HeaderOf(tx))

\* One turn of a loop over the staged blocks: write block b and go on, or
\* leave the loop after the last one.
LoopOver(n, from, to, b, content) ==
    /\ IF next < n
       THEN Goto(from, from) /\ next' = next + 1
       ELSE Goto(from, to) /\ next' = 1
    /\ WriteBlock(b, content)

WriteImage == LoopOver(Len(tx.targets), "images", "syncImages",
                       Slot(next), tx.buffers[next])

SyncImages == Step("syncImages", "commit") /\ SyncImage

WriteCommit == Step("commit", "syncCommit") /\ WriteBlock(CommitBlk, CommitOf(tx))

\* Mutants: an fsync that is not there.
NoSyncCommit == Step("syncCommit", "apply") /\ UNCHANGED deviceVars
NoSyncApply == Step("syncApply", "clearHeader") /\ UNCHANGED deviceVars
NoSyncClear ==
    /\ pc = "syncClear"
    /\ AbortTo("idle")
    /\ UNCHANGED <<image, durable, seq, faults>>

SyncCommit == Step("syncCommit", "apply") /\ SyncImage

ApplyImage == LoopOver(Len(tx.targets), "apply", "syncApply",
                       tx.targets[next], tx.buffers[next])

SyncApply == Step("syncApply", "clearHeader") /\ SyncImage

ClearHeader == Step("clearHeader", "clearCommit") /\ WriteBlock(HeaderBlk, BlankHeader)

ClearCommit == Step("clearCommit", "syncClear") /\ WriteBlock(CommitBlk, BlankCommit)

SyncClear ==
    /\ pc = "syncClear"
    /\ SyncImage
    /\ AbortTo("idle")
    /\ UNCHANGED <<seq, faults>>
----------------------------------------------------------------------------
(* ufs_mount: ufs_journal_recover, then the superblock is marked dirty. *)

\* Mutant: a mount that does not recover.
BlindMount == Goto("down", "mountFlush") /\ next' = 1 /\ UNCHANGED deviceVars

\* A header without the magic ends recovery at once; a journal that is not
\* valid is cleared; a valid one is replayed and then cleared.
Mount ==
    /\ Goto("down", IF ~ image[HeaderBlk].magic THEN "mountFlush"
                    ELSE IF ValidJournal(image) THEN "replay" ELSE "recClearHeader")
    /\ next' = 1
    /\ UNCHANGED deviceVars

Replay == LET targets == image[HeaderBlk].targets IN
          LoopOver(Len(targets), "replay", "syncReplay", targets[next], image[Slot(next)])

SyncReplay == Step("syncReplay", "recClearHeader") /\ SyncImage

RecClearHeader == /\ Step("recClearHeader", "recClearCommit")
                  /\ WriteBlock(HeaderBlk, BlankHeader)

RecClearCommit == /\ Step("recClearCommit", "recSyncClear")
                  /\ WriteBlock(CommitBlk, BlankCommit)

RecSyncClear == Step("recSyncClear", "mountFlush") /\ SyncImage

Marked(state) == [image[SuperBlk] EXCEPT ![0] = state]

MountFlush == Step("mountFlush", "mountSync") /\ WriteBlock(SuperBlk, Marked(Dirty))

MountSync == Step("mountSync", "idle") /\ SyncImage

UnmountFlush == Step("idle", "unmountSync") /\ WriteBlock(SuperBlk, Marked(Clean))

UnmountSync == Step("unmountSync", "down") /\ SyncImage

\* The process that unmounted exits; its successor counts from 1 again.
NewProcess ==
    /\ pc = "down" /\ seq # 1
    /\ seq' = 1
    /\ UNCHANGED <<image, durable, pc, tx, request, next, faults>>

\* The allocator, the namespace and file data write home blocks in place.
DirectWrite(b, data) ==
    /\ Step("idle", "idle")
    /\ WriteBlock(b, data)
----------------------------------------------------------------------------
(* Faults. *)

MountSteps == {"replay", "syncReplay", "recClearHeader", "recClearCommit",
               "recSyncClear", "mountFlush", "mountSync"}
UnmountSteps == {"unmountSync"}
CommitSteps == {"images", "syncImages", "commit", "syncCommit", "apply",
                "syncApply", "clearHeader", "clearCommit", "syncClear"}

Fault(kind) ==
    /\ kind \in Faults /\ faults < MaxFaults
    /\ faults' = faults + 1

\* The process dies; the page cache is the kernel's and survives it.
Kill ==
    /\ pc # "down" /\ Fault("kill")
    /\ AbortTo("down") /\ seq' = 1
    /\ UNCHANGED deviceVars

PowerFailure ==
    /\ Fault("power")
    /\ AbortTo("down") /\ seq' = 1
    /\ LosePageCache

\* A read, write or fsync fails: the operation returns -1 where it stands.  A
\* transaction is aborted; a mount gives up; an unmount closes all the same.
IOError ==
    /\ Fault("io")
    /\ \/ pc \in {"staging"} \cup CommitSteps /\ AbortTo("idle")
       \/ pc \in MountSteps \cup UnmountSteps /\ AbortTo("down")
    /\ UNCHANGED <<image, durable, seq>>

KernelWriteback(b) ==
    /\ Writeback(b)
    /\ UNCHANGED <<pc, seq, tx, request, next, faults>>
----------------------------------------------------------------------------
Committing ==
    \/ Stage \/ StageRefused \/ CommitNothing \/ WriteHeader \/ WriteImage
    \/ SyncImages \/ WriteCommit \/ SyncCommit \/ ApplyImage \/ SyncApply
    \/ ClearHeader \/ ClearCommit \/ SyncClear

Mounting ==
    \/ Mount \/ Replay \/ SyncReplay \/ RecClearHeader \/ RecClearCommit
    \/ RecSyncClear \/ MountFlush \/ MountSync

Next ==
    \/ \E w \in Workload : Begin(w)
    \/ Committing
    \/ Mounting
    \/ UnmountFlush \/ UnmountSync \/ NewProcess
    \/ \E dw \in DirectWrites : DirectWrite(dw[1], dw[2])
    \/ Kill \/ PowerFailure \/ IOError
    \/ \E b \in Block : KernelWriteback(b)

Spec == Init /\ [][Next]_vars

\* The process runs its code to the end, and somebody mounts the image again.
FairSpec == Spec /\ WF_vars(Committing) /\ WF_vars(Mounting)
----------------------------------------------------------------------------
(* Types. *)

Header(h) ==
    /\ h = [magic |-> h.magic, seq |-> h.seq, targets |-> h.targets, sum |-> h.sum]
    /\ h.magic \in BOOLEAN /\ h.seq \in Nat /\ h.targets \in Seq(Home)

DiskTypeOK(disk) ==
    /\ DOMAIN disk = Block
    /\ Header(disk[HeaderBlk])
    /\ disk[CommitBlk] \in [magic : BOOLEAN, seq : Nat]
    /\ \A b \in Block \ {HeaderBlk, CommitBlk} : disk[b] \in Data

\* Journal header and commit record are only ever in their own blocks, a
\* transaction has one after-image per target and at most MaxTxBlocks of them.
TypeOK ==
    /\ DiskTypeOK(image) /\ DiskTypeOK(durable)
    /\ pc \in {"down", "idle", "staging"} \cup CommitSteps \cup MountSteps \cup UnmountSteps
    /\ seq \in 1 .. MaxSeq + 1
    /\ tx \in [seq : Nat, targets : Seq(Home), buffers : Seq(Data)]
    /\ Len(tx.targets) = Len(tx.buffers) /\ Len(tx.targets) <= MaxTxBlocks
    /\ request \in Workload \cup {<<>>}
    /\ next \in Nat \ {0}
    /\ faults \in 0 .. MaxFaults

\* A caller sees at once what a mount would show: whenever no operation is in
\* progress, nothing is left in the journal that a later mount would replay
\* over newer blocks (journal.c clears it "to prevent double-replaying later").
ReadsWhatMountReads ==
    pc \in {"idle", "staging"} =>
        \A b \in Home : /\ Recovered(image)[b] = image[b]
                        /\ Recovered(durable)[b] = durable[b]

\* "Transaction is now safely on disk": once the commit record is synchronized,
\* a power failure at any later step still mounts with every after-image.
CommittedIsDurable ==
    pc \in {"apply", "syncApply", "clearHeader", "clearCommit", "syncClear"} =>
        \A i \in DOMAIN tx.targets : Recovered(durable)[tx.targets[i]] = tx.buffers[i]

\* The after-image of a block is what the requests staged so far make of the
\* block on the device, in order: a transaction that stages a block or two
\* inodes of one block more than once loses none of its updates, and changes no
\* byte it was not asked to change.
Outcome(b, o) ==
    LET writers == {j \in 1 .. Len(request) :
                      /\ pc = "staging" => j < next
                      /\ TargetOf(request[j]) = b
                      /\ request[j].kind = "inode" => request[j].inode % InodesPerBlock = o}
    IN  IF writers = {} THEN image[b][o]
        ELSE LET last == CHOOSE j \in writers : \A k \in writers : k <= j
             IN  IF request[last].kind = "inode"
                 THEN request[last].value ELSE request[last].data[o]

StagedImages ==
    pc \in {"staging", "images", "syncImages", "commit", "syncCommit"} =>
        /\ \A i \in DOMAIN tx.targets : \A o \in Offset :
              tx.buffers[i][o] = Outcome(tx.targets[i], o)
        /\ \A i, j \in DOMAIN tx.targets : tx.targets[i] = tx.targets[j] => i = j

\* Only a record of a transaction whose commit record was written makes a
\* journal valid: a transaction interrupted before that is discarded.
IncompleteIsDiscarded ==
    pc \in {"images", "syncImages", "commit"} => ~ ValidJournal(image)

\* journal_checksum is not mistaken: while ufs_tx_commit writes the images of a
\* transaction, a journal with its header counts only if it holds all of them.  A
\* commit record of an earlier process may have the same number, and a byte sum
\* does not tell all images apart, so it is a proviso of JournalIsAtomic.
ChecksumTells ==
    pc \in {"images", "syncImages", "commit"} =>
        \A disk \in {image, durable} :
            ValidJournal(disk) /\ disk[HeaderBlk] = HeaderOf(tx) =>
                \A i \in DOMAIN tx.targets : disk[Slot(i)] = tx.buffers[i]

\* A power failure during the replay finds all the after-images or none: each
\* step leaves what the medium would mount with as it was on the blocks being
\* replayed, or moves all of them to the transaction's images.
ReplayIsAtomic ==
    [][pc = "replay" =>
          LET blocks == Range(image[HeaderBlk].targets) IN
          \/ \A b \in blocks : Recovered(durable')[b] = Recovered(durable)[b]
          \/ \A b \in blocks : Recovered(durable')[b] = Recovered(image)[b]]_vars

\* A successful write outside a transaction is what the next mount shows.
SuccessfulWritesSurvive ==
    [][(pc = "idle" /\ pc' = "idle") =>
          \A b \in Home : image'[b] # image[b] => Recovered(image')[b] = image'[b]]_vars

\* A journal left by a crash is always worked off: the process (or the mount
\* after it) reaches a state with nothing to replay.
JournalRetires == ValidJournal(image) ~> (pc = "idle" /\ ~ ValidJournal(image))
=============================================================================
