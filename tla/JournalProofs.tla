--------------------------- MODULE JournalProofs ---------------------------
(***************************************************************************)
(* What holds of the journal on every image geometry, for every workload   *)
(* and every combination of faults; and that it implements the atomic      *)
(* store: in every behaviour with power failures in which the byte sum is  *)
(* not mistaken, every step of the journal is a step of AtomicStore on     *)
(* what a mount would show, or none.                                       *)
(***************************************************************************)
EXTENDS JournalStore, TLAPS

\* The journal blocks are apart from the home blocks and from each other.
LEMMA Layout ==
    /\ Home \subseteq Block /\ SuperBlk \in Home
    /\ HeaderBlk \in Block \ Home /\ CommitBlk \in Block \ Home
    /\ HeaderBlk # CommitBlk
    /\ \A i \in 1 .. MaxTxBlocks :
          Slot(i) \in (Block \ Home) \ {HeaderBlk, CommitBlk}
BY JournalAssumption, TotalBlocksAssumption, SMT
   DEF Home, Block, Journal, HeaderBlk, CommitBlk, Slot, SuperBlk

\* Writing a block of the right kind at its place keeps a disk well formed.
LEMMA DiskWrites ==
    ASSUME NEW disk, DiskTypeOK(disk)
    PROVE  /\ \A b \in Home, d \in Data : DiskTypeOK([disk EXCEPT ![b] = d])
           /\ \A i \in 1 .. MaxTxBlocks, d \in Data :
                 DiskTypeOK([disk EXCEPT ![Slot(i)] = d])
           /\ \A h : Header(h) => DiskTypeOK([disk EXCEPT ![HeaderBlk] = h])
           /\ \A c \in [magic : BOOLEAN, seq : Nat] :
                 DiskTypeOK([disk EXCEPT ![CommitBlk] = c])
<1>1. \A b \in Home, d \in Data : DiskTypeOK([disk EXCEPT ![b] = d])
  BY Layout DEF DiskTypeOK
<1>2. \A i \in 1 .. MaxTxBlocks, d \in Data :
         DiskTypeOK([disk EXCEPT ![Slot(i)] = d])
  BY Layout DEF DiskTypeOK
<1>3. \A h : Header(h) => DiskTypeOK([disk EXCEPT ![HeaderBlk] = h])
  BY Layout DEF DiskTypeOK
<1>4. \A c \in [magic : BOOLEAN, seq : Nat] :
         DiskTypeOK([disk EXCEPT ![CommitBlk] = c])
  BY Layout DEF DiskTypeOK
<1>5. QED BY <1>1, <1>2, <1>3, <1>4
----------------------------------------------------------------------------
(* Type correctness, with the bounds of the loops and the distinct targets *)
(* it rests on.                                                            *)

Distinct == \A i, j \in DOMAIN tx.targets : tx.targets[i] = tx.targets[j] => i = j

LoopOK ==
    /\ pc \in CommitSteps => tx.targets # <<>>
    /\ pc \in {"images", "apply"} => next <= Len(tx.targets)
    /\ pc \in {"syncImages", "commit", "syncCommit"} => next = 1
    /\ pc = "replay" => /\ next <= Len(image[HeaderBlk].targets)
                        /\ Len(image[HeaderBlk].targets) <= MaxTxBlocks

TypeInv == TypeOK /\ LoopOK /\ Distinct

\* Aborting scrubs the transaction, whatever it held.
LEMMA AbortKeepsTypes ==
    ASSUME AbortTo("idle") \/ AbortTo("down"),
           DiskTypeOK(image)', DiskTypeOK(durable)',
           seq' \in 1 .. MaxSeq + 1, faults' \in 0 .. MaxFaults
    PROVE  TypeInv'
<1>1. <<>> \in Seq(Home) /\ <<>> \in Seq(Data)
  OBVIOUS
<1>2. tx' = NoTx /\ request' = <<>> /\ next' = 1 /\ pc' \in {"idle", "down"}
  BY DEF AbortTo
<1>3. NoTx.targets = <<>> /\ NoTx.buffers = <<>>
      /\ NoTx \in [seq : Nat, targets : Seq(Home), buffers : Seq(Data)]
  BY <1>1 DEF NoTx
<1>4. TypeOK'
  BY <1>2, <1>3, JournalAssumption DEF TypeOK
<1>5. (LoopOK /\ Distinct)'
  BY <1>2, <1>3 DEF LoopOK, Distinct, CommitSteps
<1>6. QED
  BY <1>4, <1>5 DEF TypeInv

\* A request that is not refused stages a block of data at a home block.
LEMMA AcceptedRequest ==
    ASSUME TypeOK, NEW r \in BlockRequest \cup InodeRequest, ~ Refused(r, tx)
    PROVE  TargetOf(r) \in Home /\ ImageOf(r, tx) \in Data
<1>1. TargetOf(r) \in Home
  BY DEF Refused
<1>2. CASE r.kind = "block"
  BY <1>1, <1>2 DEF ImageOf, BlockRequest, InodeRequest
<1>3. CASE r.kind # "block"
  <2> DEFINE b == TargetOf(r)
             old == CHOOSE i \in DOMAIN tx.targets : tx.targets[i] = b
             base == IF Staged(tx, b) THEN tx.buffers[old] ELSE image[b]
  <2>1. r.value \in Byte
    BY <1>3 DEF BlockRequest, InodeRequest
  <2>2. image[b] \in Data
    BY <1>1, Layout DEF TypeOK, DiskTypeOK
  <2>3. Staged(tx, b) => tx.buffers[old] \in Data
    <3>1. SUFFICES ASSUME Staged(tx, b) PROVE tx.buffers[old] \in Data
      OBVIOUS
    <3>2. old \in DOMAIN tx.targets
      BY <3>1 DEF Staged
    <3>3. QED
      BY <3>2 DEF TypeOK
  <2>4. base \in Data
    BY <2>2, <2>3
  <2>5. [base EXCEPT ![r.inode % InodesPerBlock] = r.value] \in Data
    BY <2>1, <2>4 DEF Data
  <2>6. QED
    BY <1>1, <1>3, <2>5 DEF ImageOf
<1>4. QED
  BY <1>2, <1>3

\* Types hold at the start.
LEMMA TypeInit == Init => TypeInv
<1> SUFFICES ASSUME Init PROVE TypeInv
  OBVIOUS
<1>1. <<>> \in Seq(Home) /\ <<>> \in Seq(Data) /\ DOMAIN <<>> = {} /\ Len(<<>>) = 0
  OBVIOUS
<1>2. Zeroed \in Data
  BY JournalAssumption DEF Zeroed, Data, Clean
<1>3. DiskTypeOK(Formatted)
  BY <1>1, <1>2, Layout DEF DiskTypeOK, Formatted, Header, BlankHeader, BlankCommit
<1>4. TypeOK
  BY <1>1, <1>3, JournalAssumption DEF Init, TypeOK, NoTx
<1>5. LoopOK /\ Distinct
  BY <1>1 DEF Init, LoopOK, Distinct, NoTx, CommitSteps
<1>6. QED
  BY <1>4, <1>5 DEF TypeInv

\* Staging keeps one after-image per target.
LEMMA StageKeepsTypes == TypeInv /\ Stage => TypeInv'
<1> SUFFICES ASSUME TypeInv, Stage PROVE TypeInv'
  OBVIOUS
<1> DEFINE r == request[next]
           b == TargetOf(r)
<1>1. r \in BlockRequest \cup InodeRequest
  BY JournalAssumption DEF TypeInv, TypeOK, Stage
<1>2. b \in Home /\ ImageOf(r, tx) \in Data
  BY <1>1, AcceptedRequest DEF TypeInv, Stage
<1>3. pc' = "staging" /\ pc = "staging"
  BY DEF Stage
<1>4. CASE Staged(tx, b)
  <2>1. tx' = Restage(tx, b, ImageOf(r, tx))
    BY <1>4 DEF Stage
  <2>2. /\ tx'.targets = tx.targets /\ tx'.seq = tx.seq
        /\ tx'.buffers = [i \in DOMAIN tx.buffers |->
                            IF tx.targets[i] = b THEN ImageOf(r, tx) ELSE tx.buffers[i]]
        /\ tx' = [seq |-> tx'.seq, targets |-> tx'.targets, buffers |-> tx'.buffers]
    BY <2>1 DEF Restage, TypeInv, TypeOK
  <2>3. tx'.buffers \in Seq(Data) /\ Len(tx'.buffers) = Len(tx.buffers)
    BY <2>2, <1>2 DEF TypeInv, TypeOK
  <2>4. TypeOK'
    BY <2>2, <2>3 DEF TypeInv, TypeOK, Stage
  <2>5. QED
    BY <2>2, <2>4, <1>3 DEF TypeInv, LoopOK, Distinct, CommitSteps
<1>5. CASE ~ Staged(tx, b)
  <2>1. tx' = Append1(tx, b, ImageOf(r, tx))
    BY <1>5 DEF Stage
  <2>2. /\ tx'.targets = Append(tx.targets, b) /\ tx'.seq = tx.seq
        /\ tx'.buffers = Append(tx.buffers, ImageOf(r, tx))
        /\ tx' = [seq |-> tx'.seq, targets |-> tx'.targets, buffers |-> tx'.buffers]
    BY <2>1 DEF Append1, TypeInv, TypeOK
  <2>3. Len(tx.targets) < MaxTxBlocks
    BY <1>5, JournalAssumption DEF Stage, Refused, TypeInv, TypeOK
  <2>4. /\ tx'.targets \in Seq(Home) /\ tx'.buffers \in Seq(Data)
        /\ Len(tx'.targets) = Len(tx.targets) + 1
        /\ Len(tx'.buffers) = Len(tx.buffers) + 1 /\ tx'.seq \in Nat
    BY <2>2, <1>2 DEF TypeInv, TypeOK
  <2>5. Len(tx'.targets) <= MaxTxBlocks
    BY <2>4, <2>3, JournalAssumption DEF TypeInv, TypeOK
  <2>6. TypeOK'
    BY <2>2, <2>4, <2>5 DEF TypeInv, TypeOK, Stage
  <2>7. Distinct'
    BY <2>2, <1>2, <1>5 DEF TypeInv, TypeOK, Distinct, Staged
  <2>8. QED
    BY <2>6, <2>7, <1>3 DEF TypeInv, LoopOK, CommitSteps
<1>6. QED
  BY <1>4, <1>5

\* The steps of a commit keep the types.
LEMMA CommitKeepsTypes == TypeInv /\ Committing => TypeInv'
<1> SUFFICES ASSUME TypeInv, Committing PROVE TypeInv'
  OBVIOUS
<1> USE DEF TypeInv
<1> DEFINE n == Len(tx.targets)
<1>1. /\ n \in 0 .. MaxTxBlocks
      /\ \A i \in 1 .. n : /\ i \in 1 .. MaxTxBlocks /\ tx.targets[i] \in Home
                           /\ tx.buffers[i] \in Data
      /\ Header(HeaderOf(tx)) /\ Header(BlankHeader)
      /\ CommitOf(tx) \in [magic : BOOLEAN, seq : Nat]
      /\ BlankCommit \in [magic : BOOLEAN, seq : Nat]
      /\ tx.targets # <<>> => n >= 1
  BY JournalAssumption
     DEF TypeOK, Header, HeaderOf, BlankHeader, CommitOf, BlankCommit
<1>2. CASE Stage
  BY <1>2, StageKeepsTypes
<1>3. CASE StageRefused \/ CommitNothing \/ SyncClear
  <2>1. /\ AbortTo("idle") /\ DiskTypeOK(image)' /\ DiskTypeOK(durable)'
        /\ seq' \in 1 .. MaxSeq + 1 /\ faults' \in 0 .. MaxFaults
    BY <1>3 DEF StageRefused, CommitNothing, SyncClear, SyncImage, TypeOK
  <2>2. QED
    BY <2>1, AbortKeepsTypes
<1>4. CASE WriteHeader
  <2>1. DiskTypeOK(image')
    BY <1>1, <1>4, DiskWrites DEF WriteHeader, WriteBlock, TypeOK
  <2>2. QED
    BY <1>1, <1>4, <2>1
       DEF WriteHeader, WriteBlock, Goto, TypeOK, LoopOK, Distinct, CommitSteps
<1>5. CASE WriteImage
  <2>1. next \in 1 .. n
    BY <1>5 DEF WriteImage, LoopOver, Goto, LoopOK, TypeOK
  <2>2. DiskTypeOK(image')
    BY <1>1, <1>5, <2>1, DiskWrites DEF WriteImage, LoopOver, WriteBlock, TypeOK
  <2>3. QED
    BY <1>1, <1>5, <2>1, <2>2
       DEF WriteImage, LoopOver, WriteBlock, Goto, TypeOK, LoopOK, Distinct, CommitSteps
<1>6. CASE ApplyImage
  <2>1. next \in 1 .. n
    BY <1>6 DEF ApplyImage, LoopOver, Goto, LoopOK, TypeOK
  <2>2. DiskTypeOK(image')
    BY <1>1, <1>6, <2>1, DiskWrites DEF ApplyImage, LoopOver, WriteBlock, TypeOK
  <2>3. QED
    BY <1>1, <1>6, <2>1, <2>2
       DEF ApplyImage, LoopOver, WriteBlock, Goto, TypeOK, LoopOK, Distinct, CommitSteps
<1>7. CASE SyncImages \/ SyncCommit \/ SyncApply
  BY <1>1, <1>7 DEF SyncImages, SyncCommit, SyncApply, Step, Goto, SyncImage,
                    TypeOK, LoopOK, Distinct, CommitSteps
<1>8. CASE WriteCommit \/ ClearHeader \/ ClearCommit
  <2>1. DiskTypeOK(image')
    BY <1>1, <1>8, DiskWrites
       DEF WriteCommit, ClearHeader, ClearCommit, WriteBlock, TypeOK
  <2>2. QED
    BY <1>8, <2>1 DEF WriteCommit, ClearHeader, ClearCommit, WriteBlock, Step, Goto,
                      TypeOK, LoopOK, Distinct, CommitSteps
<1>9. QED
  BY <1>2, <1>3, <1>4, <1>5, <1>6, <1>7, <1>8 DEF Committing

\* The steps of mount and unmount keep the types.
LEMMA MountKeepsTypes ==
    TypeInv /\ (Mounting \/ UnmountFlush \/ UnmountSync) => TypeInv'
<1> SUFFICES ASSUME TypeInv, Mounting \/ UnmountFlush \/ UnmountSync
             PROVE  TypeInv'
  OBVIOUS
<1> USE DEF TypeInv
<1> DEFINE n == Len(image[HeaderBlk].targets)
<1>1. /\ n \in Nat
      /\ \A i \in 1 .. n : image[HeaderBlk].targets[i] \in Home
      /\ n <= MaxTxBlocks => \A i \in 1 .. n : image[Slot(i)] \in Data
      /\ Header(BlankHeader) /\ BlankCommit \in [magic : BOOLEAN, seq : Nat]
      /\ Marked(Dirty) \in Data /\ Marked(Clean) \in Data
  <2>1. n \in Nat /\ \A i \in 1 .. n : image[HeaderBlk].targets[i] \in Home
    BY DEF TypeOK, DiskTypeOK, Header
  <2>2. n <= MaxTxBlocks => \A i \in 1 .. n : image[Slot(i)] \in Data
    BY <2>1, Layout, JournalAssumption DEF TypeOK, DiskTypeOK
  <2>3. Header(BlankHeader) /\ BlankCommit \in [magic : BOOLEAN, seq : Nat]
    BY DEF Header, BlankHeader, BlankCommit
  <2>4. image[SuperBlk] \in Data
    BY Layout DEF TypeOK, DiskTypeOK
  <2>5. Marked(Dirty) \in Data /\ Marked(Clean) \in Data
    BY <2>4, JournalAssumption DEF Marked, Data
  <2>6. QED
    BY <2>1, <2>2, <2>3, <2>5
<1>2. CASE Mount
  <2>1. ValidJournal(image) => n \in 1 .. MaxTxBlocks
    BY DEF ValidJournal
  <2>2. pc' \in {"mountFlush", "replay", "recClearHeader"}
        /\ (pc' = "replay" => ValidJournal(image))
    BY <1>2 DEF Mount, Goto
  <2>3. QED
    BY <1>1, <1>2, <2>1, <2>2, JournalAssumption
       DEF Mount, Goto, deviceVars, TypeOK, LoopOK, Distinct, CommitSteps, MountSteps
<1>3. CASE Replay
  <2>1. next \in 1 .. n /\ n <= MaxTxBlocks
    BY <1>1, <1>3 DEF Replay, LoopOver, Goto, LoopOK, TypeOK
  <2>2. DiskTypeOK(image')
    BY <1>1, <1>3, <2>1, DiskWrites DEF Replay, LoopOver, WriteBlock, TypeOK
  <2>3. image'[HeaderBlk] = image[HeaderBlk]
    BY <1>1, <1>3, <2>1, Layout
       DEF Replay, LoopOver, WriteBlock, TypeOK, DiskTypeOK
  <2>4. QED
    BY <1>1, <1>3, <2>1, <2>2, <2>3
       DEF Replay, LoopOver, WriteBlock, Goto, TypeOK, LoopOK, Distinct, CommitSteps,
           MountSteps
<1>4. CASE SyncReplay \/ RecSyncClear \/ MountSync \/ UnmountSync
  BY <1>4 DEF SyncReplay, RecSyncClear, MountSync, UnmountSync, Step, Goto, SyncImage,
              TypeOK, LoopOK, Distinct, CommitSteps, MountSteps
<1>5. CASE RecClearHeader \/ RecClearCommit \/ MountFlush \/ UnmountFlush
  <2>1. DiskTypeOK(image')
    BY <1>1, <1>5, DiskWrites, Layout
       DEF RecClearHeader, RecClearCommit, MountFlush, UnmountFlush, WriteBlock, TypeOK
  <2>2. QED
    BY <1>5, <2>1
       DEF RecClearHeader, RecClearCommit, MountFlush, UnmountFlush, WriteBlock, Step,
           Goto, TypeOK, LoopOK, Distinct, CommitSteps, MountSteps, UnmountSteps
<1>6. QED
  BY <1>2, <1>3, <1>4, <1>5 DEF Mounting

\* Every step keeps the types.
LEMMA TypeStep == TypeInv /\ [Next]_vars => TypeInv'
<1> SUFFICES ASSUME TypeInv, [Next]_vars PROVE TypeInv'
  OBVIOUS
<1> USE DEF TypeInv
<1>1. CASE Committing
  BY <1>1, CommitKeepsTypes
<1>2. CASE Mounting \/ UnmountFlush \/ UnmountSync
  BY <1>2, MountKeepsTypes
<1>3. CASE \E w \in Workload : Begin(w)
  <2>1. <<>> \in Seq(Home) /\ <<>> \in Seq(Data)
    OBVIOUS
  <2>2. PICK w \in Workload : Begin(w)
    BY <1>3
  <2>3. /\ pc = "idle" /\ seq <= MaxSeq /\ pc' = "staging" /\ seq' = seq + 1 /\ next' = 1
        /\ request' = w /\ UNCHANGED <<image, durable, faults>>
    BY <2>2 DEF Begin
  <2>4. tx' = [seq |-> seq, targets |-> <<>>, buffers |-> <<>>]
    BY <2>2 DEF Begin
  <2>5. seq \in Nat /\ seq' \in 1 .. MaxSeq + 1 /\ MaxTxBlocks \in Nat
    BY <2>3, JournalAssumption DEF TypeOK
  <2>6. tx'.targets = <<>> /\ tx'.buffers = <<>>
    BY <2>4
  <2>7. tx' \in [seq : Nat, targets : Seq(Home), buffers : Seq(Data)]
    BY <2>1, <2>4, <2>5
  <2>8. Len(tx'.targets) = Len(tx'.buffers) /\ Len(tx'.targets) <= MaxTxBlocks
    BY <2>5, <2>6
  <2>9. TypeOK'
    BY <2>3, <2>5, <2>7, <2>8 DEF TypeOK
  <2>10. QED
    BY <2>3, <2>6, <2>9 DEF LoopOK, Distinct, CommitSteps
<1>4. CASE NewProcess
  BY <1>4, JournalAssumption DEF NewProcess, TypeOK, LoopOK, Distinct
<1>5. CASE \E dw \in DirectWrites : DirectWrite(dw[1], dw[2])
  <2>1. PICK dw \in DirectWrites : DirectWrite(dw[1], dw[2])
    BY <1>5
  <2>2. dw[1] \in Home /\ dw[2] \in Data
    BY JournalAssumption
  <2>3. DiskTypeOK(image')
    BY <2>1, <2>2, DiskWrites DEF DirectWrite, WriteBlock, TypeOK
  <2>4. QED
    BY <2>1, <2>3 DEF DirectWrite, WriteBlock, Step, Goto, TypeOK, LoopOK, Distinct,
                      CommitSteps
<1>6. CASE Kill \/ PowerFailure \/ IOError
  <2>1. /\ AbortTo("idle") \/ AbortTo("down")
        /\ DiskTypeOK(image)' /\ DiskTypeOK(durable)'
        /\ seq' \in 1 .. MaxSeq + 1 /\ faults' \in 0 .. MaxFaults
    BY <1>6, JournalAssumption
       DEF Kill, PowerFailure, IOError, Fault, LosePageCache, deviceVars, TypeOK
  <2>2. QED
    BY <2>1, AbortKeepsTypes
<1>7. CASE \E b \in Block : KernelWriteback(b)
  <2>1. PICK b \in Block : KernelWriteback(b)
    BY <1>7
  <2>2. DiskTypeOK(durable')
    BY <2>1 DEF KernelWriteback, Writeback, DiskTypeOK, TypeOK
  <2>3. QED
    BY <2>1, <2>2 DEF KernelWriteback, Writeback, TypeOK, LoopOK, Distinct
<1>8. CASE UNCHANGED vars
  BY <1>8 DEF vars, TypeOK, LoopOK, Distinct
<1>9. QED
  BY <1>1, <1>2, <1>3, <1>4, <1>5, <1>6, <1>7, <1>8 DEF Next

\* The disk keeps its layout and a transaction its form: a header and a commit
\* record are never found anywhere but in their own blocks, a home block never
\* holds one, whatever is staged, interrupted or replayed (journal.c).
THEOREM JournalTypeCorrect == Spec => []TypeOK
<1>1. TypeInv => TypeOK
  BY DEF TypeInv
<1>2. QED
  BY TypeInit, TypeStep, <1>1, PTL DEF Spec
----------------------------------------------------------------------------
(* What each phase of a commit knows about the page cache and the medium.  *)

\* The journal holds the after-images; the transaction is recorded and
\* committed; its after-images are at home.
Images(disk) == \A i \in DOMAIN tx.targets : disk[Slot(i)] = tx.buffers[i]
Recorded(disk) == disk[HeaderBlk] = HeaderOf(tx) /\ Images(disk)
Committed(disk) == Recorded(disk) /\ disk[CommitBlk] = CommitOf(tx)
InPlace(disk) == \A i \in DOMAIN tx.targets : disk[tx.targets[i]] = tx.buffers[i]

PhaseInv ==
    /\ pc = "images" =>
          /\ image[HeaderBlk] = HeaderOf(tx)
          /\ \A i \in 1 .. next - 1 : image[Slot(i)] = tx.buffers[i]
    /\ pc \in {"syncImages", "commit"} => Recorded(image)
    /\ pc = "syncCommit" => Committed(image)
    /\ pc \in {"apply", "syncApply", "clearHeader"} => Committed(image) /\ Committed(durable)
    /\ pc = "apply" => \A i \in 1 .. next - 1 : image[tx.targets[i]] = tx.buffers[i]
    /\ pc = "syncApply" => InPlace(image)
    /\ pc \in {"clearHeader", "clearCommit", "syncClear"} => InPlace(image) /\ InPlace(durable)
    /\ pc \in {"clearCommit", "syncClear"} =>
          /\ Images(image) /\ Images(durable)
          /\ image[HeaderBlk] = BlankHeader
          /\ durable[HeaderBlk] \in {HeaderOf(tx), BlankHeader}

CommitInv == TypeInv /\ PhaseInv

\* A transaction's after-images have their own slots, away from header, commit
\* record and home.
LEMMA TxLayout ==
    ASSUME TypeInv
    PROVE  /\ DOMAIN tx.targets = 1 .. Len(tx.targets)
           /\ DOMAIN tx.buffers = 1 .. Len(tx.targets)
           /\ Len(tx.targets) \in 0 .. MaxTxBlocks
           /\ \A i \in DOMAIN tx.targets :
                 /\ tx.targets[i] \in Home /\ tx.targets[i] \in Block
                 /\ tx.targets[i] \notin {HeaderBlk, CommitBlk}
                 /\ Slot(i) \in Block /\ Slot(i) \notin {HeaderBlk, CommitBlk}
                 /\ \A j \in DOMAIN tx.targets : /\ tx.targets[j] # Slot(i)
                                                 /\ Slot(i) = Slot(j) => i = j
           /\ HeaderBlk \in Block /\ CommitBlk \in Block /\ HeaderBlk # CommitBlk
           /\ DOMAIN image = Block /\ DOMAIN durable = Block
<1>1. /\ DOMAIN tx.targets = 1 .. Len(tx.targets)
      /\ DOMAIN tx.buffers = 1 .. Len(tx.targets)
      /\ Len(tx.targets) \in 0 .. MaxTxBlocks
      /\ \A i \in DOMAIN tx.targets : tx.targets[i] \in Home
  BY JournalAssumption DEF TypeInv, TypeOK
<1>2. \A i \in DOMAIN tx.targets : i \in 1 .. MaxTxBlocks
  BY <1>1, JournalAssumption
<1>3. \A i, j \in 1 .. MaxTxBlocks : Slot(i) = Slot(j) => i = j
  BY JournalAssumption DEF Slot
<1>4. QED
  BY <1>1, <1>2, <1>3, Layout DEF TypeInv, TypeOK, DiskTypeOK

\* Outside a commit the phases say nothing.
LEMMA NotCommitting == pc' \notin CommitSteps => PhaseInv'
BY DEF PhaseInv, CommitSteps

\* The phases while header, images and commit record are written.
LEMMA PhaseWrites ==
    CommitInv /\ (WriteHeader \/ WriteImage \/ WriteCommit) => PhaseInv'
<1> SUFFICES ASSUME CommitInv, WriteHeader \/ WriteImage \/ WriteCommit
             PROVE  PhaseInv'
  OBVIOUS
<1> USE TxLayout DEF CommitInv, WriteBlock
<1>1. CASE WriteHeader
  BY <1>1 DEF WriteHeader, Goto, PhaseInv, HeaderOf
<1>2. CASE WriteImage
  <2> DEFINE n == Len(tx.targets)
  <2>1. next \in 1 .. n
    BY <1>2 DEF WriteImage, LoopOver, Goto, TypeInv, LoopOK, TypeOK
  <2>2. /\ tx' = tx
        /\ image'[HeaderBlk] = HeaderOf(tx)
        /\ \A i \in 1 .. next : image'[Slot(i)] = tx.buffers[i]
    BY <1>2, <2>1 DEF WriteImage, LoopOver, Goto, PhaseInv
  <2>3. CASE next < n
    BY <1>2, <2>1, <2>2, <2>3 DEF WriteImage, LoopOver, Goto, PhaseInv, HeaderOf
  <2>4. CASE ~ (next < n)
    BY <1>2, <2>1, <2>2, <2>4
       DEF WriteImage, LoopOver, Goto, PhaseInv, Recorded, Images, HeaderOf
  <2>5. QED
    BY <2>3, <2>4
<1>3. CASE WriteCommit
  BY <1>3 DEF WriteCommit, Step, Goto, PhaseInv, Committed, Recorded, Images,
              HeaderOf, CommitOf
<1>4. QED
  BY <1>1, <1>2, <1>3

\* The phases that an fsync begins.
LEMMA PhaseSyncs ==
    CommitInv /\ (SyncImages \/ SyncCommit \/ SyncApply) => PhaseInv'
<1> SUFFICES ASSUME CommitInv, SyncImages \/ SyncCommit \/ SyncApply
             PROVE  PhaseInv'
  OBVIOUS
<1>1. UNCHANGED <<image, tx, next>> /\ durable' = image
  BY DEF SyncImages, SyncCommit, SyncApply, Step, Goto, SyncImage
<1>2. CASE SyncImages
  BY <1>1, <1>2 DEF SyncImages, Step, Goto, CommitInv, PhaseInv, Recorded, Images,
                    HeaderOf
<1>3. CASE SyncCommit
  <2>1. next = 1 /\ pc = "syncCommit" /\ pc' = "apply"
    BY <1>3 DEF SyncCommit, Step, Goto, CommitInv, TypeInv, LoopOK
  <2>2. Committed(image)' /\ Committed(durable)'
    BY <1>1, <2>1 DEF CommitInv, PhaseInv, Committed, Recorded, Images, HeaderOf, CommitOf
  <2>3. QED
    BY <1>1, <2>1, <2>2 DEF PhaseInv
<1>4. CASE SyncApply
  BY <1>1, <1>4 DEF SyncApply, Step, Goto, CommitInv, PhaseInv, Committed, Recorded,
                    Images, InPlace, HeaderOf, CommitOf
<1>5. QED
  BY <1>2, <1>3, <1>4

\* The phase in which home blocks are written.
LEMMA PhaseApply == CommitInv /\ ApplyImage => PhaseInv'
<1> SUFFICES ASSUME CommitInv, ApplyImage PROVE PhaseInv'
  OBVIOUS
<1> USE TxLayout DEF CommitInv
<1> DEFINE n == Len(tx.targets)
<1>1. next \in 1 .. n
  BY DEF ApplyImage, LoopOver, Goto, TypeInv, LoopOK, TypeOK
<1>2. /\ tx' = tx /\ durable' = durable
      /\ image' = [image EXCEPT ![tx.targets[next]] = tx.buffers[next]]
      /\ pc = "apply"
  BY DEF ApplyImage, LoopOver, Goto, WriteBlock
<1>3. Committed(image)' /\ Committed(durable)'
  BY <1>1, <1>2 DEF PhaseInv, Committed, Recorded, Images, HeaderOf, CommitOf
<1>4. \A i \in 1 .. next : image'[tx.targets[i]] = tx.buffers[i]
  BY <1>1, <1>2 DEF PhaseInv, TypeInv, Distinct
<1>5. CASE next < n
  BY <1>1, <1>2, <1>3, <1>4, <1>5 DEF ApplyImage, LoopOver, Goto, PhaseInv
<1>6. CASE ~ (next < n)
  BY <1>1, <1>2, <1>3, <1>4, <1>6 DEF ApplyImage, LoopOver, Goto, PhaseInv, InPlace
<1>7. QED
  BY <1>5, <1>6

\* The phases in which the journal is cleared.
LEMMA PhaseClears == CommitInv /\ (ClearHeader \/ ClearCommit) => PhaseInv'
<1> SUFFICES ASSUME CommitInv, ClearHeader \/ ClearCommit PROVE PhaseInv'
  OBVIOUS
<1> USE TxLayout DEF CommitInv, WriteBlock, Step, Goto
<1>1. CASE ClearHeader
  BY <1>1 DEF ClearHeader, PhaseInv, Committed, Recorded, Images, InPlace, HeaderOf
<1>2. CASE ClearCommit
  BY <1>2 DEF ClearCommit, PhaseInv, Images, InPlace, HeaderOf
<1>3. QED
  BY <1>1, <1>2

\* Where the page cache and the medium agree, writing back changes nothing.
LEMMA PhaseWriteback == \A b \in Block : CommitInv /\ KernelWriteback(b) => PhaseInv'
<1> SUFFICES ASSUME NEW b \in Block, CommitInv, KernelWriteback(b) PROVE PhaseInv'
  OBVIOUS
<1>1. /\ \A c \in Block : durable'[c] \in {durable[c], image[c]}
      /\ UNCHANGED <<image, pc, tx, next>>
  BY TxLayout DEF KernelWriteback, Writeback, CommitInv
<1>2. /\ Images(image)' = Images(image) /\ InPlace(image)' = InPlace(image)
      /\ Recorded(image)' = Recorded(image) /\ Committed(image)' = Committed(image)
  BY <1>1 DEF Images, InPlace, Recorded, Committed
<1>3. Images(image) /\ Images(durable) => Images(durable)'
  BY <1>1, TxLayout DEF CommitInv, Images
<1>4. InPlace(image) /\ InPlace(durable) => InPlace(durable)'
  BY <1>1, TxLayout DEF CommitInv, InPlace
<1>5. HeaderBlk \in Block /\ CommitBlk \in Block
  BY TxLayout DEF CommitInv
<1>6. Recorded(image) /\ Recorded(durable) => Recorded(durable)'
  BY <1>1, <1>3, <1>5 DEF Recorded
<1>7. Committed(image) /\ Committed(durable) => Committed(durable)'
  BY <1>1, <1>5, <1>6 DEF Committed
<1>8. durable'[HeaderBlk] \in {durable[HeaderBlk], image[HeaderBlk]}
  BY <1>1, <1>5
<1>9. PhaseInv
  BY DEF CommitInv
<1> HIDE DEF Images, InPlace, Recorded, Committed
<1>10. QED
  BY <1>1, <1>2, <1>3, <1>4, <1>7, <1>8, <1>9 DEF PhaseInv

\* Every step keeps the invariant of the commit.
LEMMA CommitInvStep == CommitInv /\ [Next]_vars => CommitInv'
<1> SUFFICES ASSUME CommitInv, [Next]_vars PROVE PhaseInv'
  BY TypeStep DEF CommitInv
<1>1. CASE WriteHeader \/ WriteImage \/ WriteCommit
  BY <1>1, PhaseWrites
<1>2. CASE SyncImages \/ SyncCommit \/ SyncApply
  BY <1>2, PhaseSyncs
<1>3. CASE ApplyImage
  BY <1>3, PhaseApply
<1>4. CASE ClearHeader \/ ClearCommit
  BY <1>4, PhaseClears
<1>5. CASE \E b \in Block : KernelWriteback(b)
  BY <1>5, PhaseWriteback
<1>6. CASE UNCHANGED vars
  BY <1>6 DEF vars, CommitInv, PhaseInv, Committed, Recorded, Images, InPlace, HeaderOf,
              CommitOf
<1>7. CASE \/ Stage \/ StageRefused \/ CommitNothing \/ SyncClear \/ Mounting
           \/ UnmountFlush \/ UnmountSync \/ NewProcess
           \/ \E w \in Workload : Begin(w)
           \/ \E dw \in DirectWrites : DirectWrite(dw[1], dw[2])
           \/ Kill \/ PowerFailure \/ IOError
  <2>1. pc' \notin CommitSteps
    BY <1>7
       DEF Stage, StageRefused, CommitNothing, SyncClear, AbortTo, Mounting, Mount,
           Replay, LoopOver, SyncReplay, RecClearHeader, RecClearCommit, RecSyncClear,
           MountFlush, MountSync, UnmountFlush, UnmountSync, NewProcess, Begin,
           DirectWrite, Kill, PowerFailure, IOError, Step, Goto, CommitSteps
  <2>2. QED
    BY <2>1, NotCommitting
<1>8. QED
  BY <1>1, <1>2, <1>3, <1>4, <1>5, <1>6, <1>7 DEF Next, Committing

\* A disk that holds all of a committed transaction has a journal that counts.
LEMMA CommittedCounts ==
    ASSUME TypeInv, tx.targets # <<>>, NEW disk, Committed(disk)
    PROVE  ValidJournal(disk)
<1>1. disk[HeaderBlk].targets = tx.targets
  BY DEF Committed, Recorded, HeaderOf
<1>2. Payload(disk) = tx.buffers
  <2>1. /\ DOMAIN tx.buffers = DOMAIN tx.targets
        /\ tx.buffers = [i \in DOMAIN tx.buffers |-> tx.buffers[i]]
    BY TxLayout DEF TypeInv, TypeOK
  <2>2. QED
    BY <1>1, <2>1 DEF Payload, Committed, Recorded, Images
<1>3. Len(tx.targets) \in 1 .. MaxTxBlocks
  BY TxLayout DEF TypeInv, TypeOK
<1>4. QED
  BY <1>1, <1>2, <1>3, TxLayout
     DEF ValidJournal, Committed, Recorded, HeaderOf, CommitOf

\* A medium that holds all of a committed transaction mounts with it.
LEMMA CommittedMounts ==
    ASSUME TypeInv, tx.targets # <<>>, NEW disk, Committed(disk)
    PROVE  \A i \in DOMAIN tx.targets : Recovered(disk)[tx.targets[i]] = tx.buffers[i]
<1>1. disk[HeaderBlk].targets = tx.targets
  BY DEF Committed, Recorded, HeaderOf
<1>2. ValidJournal(disk)
  BY CommittedCounts
<1>3. TAKE i \in DOMAIN tx.targets
<1> DEFINE j == CHOOSE k \in DOMAIN tx.targets : tx.targets[k] = tx.targets[i]
<1>4. j = i
  BY DEF TypeInv, Distinct
<1>5. Recovered(disk)[tx.targets[i]] = disk[Slot(j)]
  BY <1>1, <1>2, TxLayout DEF Recovered
<1>6. QED
  BY <1>4, <1>5 DEF Committed, Recorded, Images

\* While the header is being cleared the after-images are at home too, so it
\* does not matter whether the journal still counts.
LEMMA ClearedMounts ==
    ASSUME TypeInv, NEW disk, Images(disk), InPlace(disk),
           disk[HeaderBlk] \in {HeaderOf(tx), BlankHeader}
    PROVE  \A i \in DOMAIN tx.targets : Recovered(disk)[tx.targets[i]] = tx.buffers[i]
<1>1. TAKE i \in DOMAIN tx.targets
<1>2. CASE ValidJournal(disk)
  <2>1. disk[HeaderBlk].targets = tx.targets
    BY <1>2 DEF ValidJournal, HeaderOf, BlankHeader
  <2> DEFINE j == CHOOSE k \in DOMAIN tx.targets : tx.targets[k] = tx.targets[i]
  <2>2. j = i
    BY DEF TypeInv, Distinct
  <2>3. Recovered(disk)[tx.targets[i]] = disk[Slot(j)]
    BY <1>2, <2>1, TxLayout DEF Recovered
  <2>4. QED
    BY <2>2, <2>3 DEF Images
<1>3. CASE ~ ValidJournal(disk)
  <2>1. Recovered(disk)[tx.targets[i]] = disk[tx.targets[i]]
    BY <1>3, TxLayout DEF Recovered
  <2>2. QED
    BY <2>1 DEF InPlace
<1>4. QED
  BY <1>2, <1>3

\* Once its commit record is synchronized a transaction is durable: at every
\* later step of the commit, whatever the kernel has written back by then and
\* whatever failed before, a power failure mounts with all its after-images.
THEOREM CommittedSurvives == Spec => []CommittedIsDurable
<1>1. Init => CommitInv
  BY TypeInit DEF CommitInv, Init, PhaseInv
<1>2. CommitInv => CommittedIsDurable
  <2>1. SUFFICES ASSUME CommitInv PROVE CommittedIsDurable
    OBVIOUS
  <2>2. CASE pc \in {"apply", "syncApply", "clearHeader"}
    <3>1. Committed(durable) /\ tx.targets # <<>>
      BY <2>1, <2>2 DEF CommitInv, PhaseInv, TypeInv, LoopOK, CommitSteps
    <3>2. QED
      BY <2>1, <3>1, CommittedMounts DEF CommitInv, CommittedIsDurable
  <2>3. CASE pc \in {"clearCommit", "syncClear"}
    <3>1. /\ Images(durable) /\ InPlace(durable)
          /\ durable[HeaderBlk] \in {HeaderOf(tx), BlankHeader}
      BY <2>1, <2>3 DEF CommitInv, PhaseInv
    <3>2. QED
      BY <2>1, <3>1, ClearedMounts DEF CommitInv, CommittedIsDurable
  <2>4. QED
    BY <2>2, <2>3 DEF CommittedIsDurable
<1>3. QED
  BY <1>1, CommitInvStep, <1>2, PTL DEF Spec
----------------------------------------------------------------------------
(* Nothing is left to replay when no operation is in progress.             *)

QuietInv ==
    /\ pc \in {"idle", "staging", "unmountSync", "clearCommit", "syncClear",
               "recClearCommit", "recSyncClear", "mountFlush", "mountSync"} =>
          ~ image[HeaderBlk].magic
    /\ pc \in {"idle", "staging", "unmountSync"} => ~ durable[HeaderBlk].magic

\* Without I/O errors, every step keeps a blank header blank once an operation is over.
LEMMA QuietStep ==
    ASSUME "io" \notin Faults
    PROVE  (TypeInv /\ QuietInv) /\ [Next]_vars => (TypeInv /\ QuietInv)'
<1> SUFFICES ASSUME TypeInv, QuietInv, [Next]_vars PROVE QuietInv'
  BY TypeStep
<1> USE TxLayout DEF QuietInv
<1>1. CASE Stage \/ StageRefused \/ CommitNothing
  BY <1>1 DEF Stage, StageRefused, CommitNothing, AbortTo
<1>2. CASE WriteHeader \/ WriteImage \/ WriteCommit \/ ApplyImage
  BY <1>2 DEF WriteHeader, WriteImage, WriteCommit, ApplyImage, LoopOver, Step, Goto
<1>3. CASE SyncImages \/ SyncCommit \/ SyncApply \/ SyncReplay
  BY <1>3 DEF SyncImages, SyncCommit, SyncApply, SyncReplay, Step, Goto
<1>4. CASE ClearHeader \/ ClearCommit \/ RecClearHeader \/ RecClearCommit
  BY <1>4 DEF ClearHeader, ClearCommit, RecClearHeader, RecClearCommit, WriteBlock, Step,
              Goto, BlankHeader
<1>5. CASE SyncClear \/ RecSyncClear \/ MountSync \/ UnmountSync
  BY <1>5 DEF SyncClear, RecSyncClear, MountSync, UnmountSync, SyncImage, AbortTo, Step,
              Goto
<1>6. CASE MountFlush \/ UnmountFlush
  BY <1>6, Layout DEF MountFlush, UnmountFlush, WriteBlock, Step, Goto
<1>7. CASE Mount \/ Replay
  BY <1>7 DEF Mount, Replay, LoopOver, deviceVars, Goto
<1>8. CASE NewProcess \/ \E w \in Workload : Begin(w)
  BY <1>8 DEF NewProcess, Begin
<1>9. CASE \E dw \in DirectWrites : DirectWrite(dw[1], dw[2])
  <2>1. PICK dw \in DirectWrites : DirectWrite(dw[1], dw[2])
    BY <1>9
  <2>2. dw[1] # HeaderBlk
    BY JournalAssumption, Layout
  <2>3. QED
    BY <2>1, <2>2 DEF DirectWrite, WriteBlock, Step, Goto
<1>10. CASE Kill \/ PowerFailure \/ IOError
  BY <1>10 DEF Kill, PowerFailure, IOError, Fault, AbortTo
<1>11. CASE \E b \in Block : KernelWriteback(b)
  <2>1. PICK b \in Block : KernelWriteback(b)
    BY <1>11
  <2>2. durable'[HeaderBlk] \in {durable[HeaderBlk], image[HeaderBlk]}
    BY <2>1 DEF KernelWriteback, Writeback
  <2>3. QED
    BY <2>1, <2>2 DEF KernelWriteback, Writeback
<1>12. CASE UNCHANGED vars
  BY <1>12 DEF vars
<1>13. QED
  BY <1>1, <1>2, <1>3, <1>4, <1>5, <1>6, <1>7, <1>8, <1>9, <1>10, <1>11, <1>12
     DEF Next, Committing, Mounting

\* Unless a read, write or fsync fails, no idle process sits on a journal that
\* a later mount would replay over its newer blocks, whatever was killed or
\* lost power before.
THEOREM NothingLeftToReplay ==
    ASSUME "io" \notin Faults
    PROVE  Spec => []ReadsWhatMountReads
<1>1. Init => TypeInv /\ QuietInv
  BY TypeInit DEF Init, QuietInv
<1>2. QuietInv => ReadsWhatMountReads
  BY DEF QuietInv, ReadsWhatMountReads, Recovered, ValidJournal
<1>3. QED
  BY <1>1, QuietStep, <1>2, PTL DEF Spec
----------------------------------------------------------------------------
(* What a transaction stages.                                              *)

\* The requests staged so far that give byte o of block b a value, the last of
\* them, and the value.
Covers(r, b, o) == /\ TargetOf(r) = b
                   /\ r.kind = "inode" => r.inode % InodesPerBlock = o
Writers(b, o) ==
    {j \in 1 .. Len(request) : (pc = "staging" => j < next) /\ Covers(request[j], b, o)}
Newest(S) == CHOOSE j \in S : \A k \in S : k <= j
Said(r, o) == IF r.kind = "inode" THEN r.value ELSE r.data[o]

StageInv ==
    /\ pc = "staging" =>
          \A j \in 1 .. Len(request) : j < next => Staged(tx, TargetOf(request[j]))
    /\ pc \in {"staging", "images", "syncImages", "commit", "syncCommit"} =>
          \A i \in DOMAIN tx.targets : \A o \in Offset :
              tx.buffers[i][o] = Outcome(tx.targets[i], o)

\* The bytes of the last request that covers them: a fold over the requests comes to that.
LEMMA OutcomeIsNewest ==
    \A b, o : Outcome(b, o) = IF Writers(b, o) = {} THEN image[b][o]
                              ELSE Said(request[Newest(Writers(b, o))], o)
BY DEF Outcome, Writers, Covers, Newest, Said

\* A step that stages nothing and leaves the home blocks alone changes no outcome.
LEMMA OutcomesStay ==
    ASSUME request' = request,
           \A b \in Home : image'[b] = image[b],
           \A j \in 1 .. Len(request) : (pc' = "staging" => j < next') <=> (pc = "staging" => j < next)
    PROVE  \A b \in Home, o \in Offset : Outcome(b, o)' = Outcome(b, o)
<1> TAKE b \in Home, o \in Offset
<1>1. Writers(b, o)' = Writers(b, o)
  BY DEF Writers
<1>2. Outcome(b, o)' = IF Writers(b, o)' = {} THEN image'[b][o]
                       ELSE Said(request'[Newest(Writers(b, o)')], o)
  BY DEF Outcome, Writers, Covers, Newest, Said
<1>3. QED
  BY <1>1, <1>2, OutcomeIsNewest

\* The next request is the newest for what it covers and says nothing of the rest.
LEMMA OutcomesMove ==
    ASSUME TypeInv, Stage, NEW b \in Home, NEW o \in Offset
    PROVE  Outcome(b, o)' = IF Covers(request[next], b, o) THEN Said(request[next], o)
                                                           ELSE Outcome(b, o)
<1> DEFINE r == request[next]
<1>1. /\ pc = "staging" /\ pc' = "staging" /\ next' = next + 1 /\ request' = request
      /\ image' = image /\ next <= Len(request)
  BY DEF Stage
<1>2. next \in Nat \ {0} /\ Len(request) \in Nat
  BY JournalAssumption DEF TypeInv, TypeOK
<1>3. \A j \in 1 .. Len(request) : j < next + 1 <=> j < next \/ j = next
  BY <1>2
<1>4. next \in 1 .. Len(request)
  BY <1>1, <1>2
<1>5. \A j \in Writers(b, o) : j < next
  BY <1>1 DEF Writers
<1>6. Writers(b, o)' = IF Covers(r, b, o) THEN Writers(b, o) \cup {next} ELSE Writers(b, o)
  BY <1>1, <1>3, <1>4 DEF Writers
<1>7. Outcome(b, o)' = IF Writers(b, o)' = {} THEN image'[b][o]
                       ELSE Said(request'[Newest(Writers(b, o)')], o)
  BY DEF Outcome, Writers, Covers, Newest, Said
<1>8. CASE Covers(r, b, o)
  <2> DEFINE W == Writers(b, o) \cup {next}
  <2>1. \A k \in W : k <= next
    BY <1>2, <1>5 DEF Writers
  <2>2. \A j \in W : (\A k \in W : k <= j) => j = next
    <3>1. SUFFICES ASSUME NEW j \in Writers(b, o), next <= j PROVE FALSE
      OBVIOUS
    <3>2. j \in Nat /\ j < next
      BY <1>5 DEF Writers
    <3>3. QED
      BY <1>2, <3>1, <3>2
  <2>3. Newest(W) = next
    BY <2>1, <2>2 DEF Newest
  <2>4. QED
    BY <1>1, <1>6, <1>7, <1>8, <2>3
<1>9. CASE ~ Covers(r, b, o)
  BY <1>1, <1>6, <1>7, <1>9, OutcomeIsNewest
<1>10. QED
  BY <1>8, <1>9

\* What is staged for a request is the outcome with that request.
LEMMA StagedIsOutcome ==
    ASSUME TypeInv, StageInv, Stage, NEW b \in Home, NEW o \in Offset,
           TargetOf(request[next]) = b
    PROVE  ImageOf(request[next], tx)[o] = Outcome(b, o)'
<1> DEFINE r == request[next]
           old == CHOOSE i \in DOMAIN tx.targets : tx.targets[i] = b
           base == IF Staged(tx, b) THEN tx.buffers[old] ELSE image[b]
<1>1. /\ pc = "staging" /\ r \in BlockRequest \cup InodeRequest /\ ~ Refused(r, tx)
      /\ next \in 1 .. Len(request)
  BY JournalAssumption DEF Stage, TypeInv, TypeOK
<1>3. Outcome(b, o)' = IF Covers(r, b, o) THEN Said(r, o) ELSE Outcome(b, o)
  BY OutcomesMove
<1>4. CASE r.kind = "block"
  BY <1>3, <1>4 DEF Covers, Said, ImageOf
<1>5. CASE r.kind # "block"
  <2>1. r.kind = "inode"
    BY <1>1, <1>5 DEF BlockRequest, InodeRequest
  <2>2. base[o] = Outcome(b, o)
    <3>1. CASE Staged(tx, b)
      <4>1. old \in DOMAIN tx.targets /\ tx.targets[old] = b
        BY <3>1 DEF Staged
      <4>2. QED
        BY <1>1, <3>1, <4>1 DEF StageInv
    <3>2. CASE ~ Staged(tx, b)
      <4>1. Writers(b, o) = {}
        BY <1>1, <3>2 DEF StageInv, Writers, Covers
      <4>2. QED
        BY <3>2, <4>1, OutcomeIsNewest
    <3>3. QED
      BY <3>1, <3>2
  <2>3. base \in Data
    <3>1. CASE Staged(tx, b)
      <4>1. old \in DOMAIN tx.targets
        BY <3>1 DEF Staged
      <4>2. QED
        BY <3>1, <4>1 DEF TypeInv, TypeOK
    <3>2. CASE ~ Staged(tx, b)
      BY <3>2, Layout DEF TypeInv, TypeOK, DiskTypeOK
    <3>3. QED
      BY <3>1, <3>2
  <2>4. ImageOf(r, tx) = [base EXCEPT ![r.inode % InodesPerBlock] = r.value]
    BY <1>5 DEF ImageOf
  <2> HIDE DEF base
  <2>5. ImageOf(r, tx)[o] = IF r.inode % InodesPerBlock = o THEN r.value ELSE base[o]
    BY <2>3, <2>4 DEF Data
  <2>6. QED
    BY <1>3, <2>1, <2>2, <2>5 DEF Covers, Said
<1>6. QED
  BY <1>4, <1>5

\* Staging one more request keeps the images those of all requests so far.
LEMMA StageKeepsImages == TypeInv /\ StageInv /\ Stage => StageInv'
<1> SUFFICES ASSUME TypeInv, StageInv, Stage PROVE StageInv'
  OBVIOUS
<1>0. PICK b \in Home : b = TargetOf(request[next])
  BY DEF Stage, Refused
<1> DEFINE r == request[next]
           data == ImageOf(r, tx)
<1>1. /\ pc = "staging" /\ pc' = "staging" /\ next' = next + 1 /\ request' = request
      /\ r \in BlockRequest \cup InodeRequest /\ ~ Refused(r, tx)
      /\ tx' = IF Staged(tx, b) THEN Restage(tx, b, data) ELSE Append1(tx, b, data)
  BY <1>0, JournalAssumption DEF Stage, TypeInv, TypeOK
<1>3. \A o \in Offset : data[o] = Outcome(b, o)'
  BY <1>0, StagedIsOutcome
<1>4. \A c \in Home, o \in Offset : c # b => Outcome(c, o)' = Outcome(c, o)
  BY <1>0, OutcomesMove DEF Covers
<1>5. /\ tx.targets \in Seq(Home) /\ tx.buffers \in Seq(Data)
      /\ Len(tx.targets) = Len(tx.buffers) /\ DOMAIN tx.targets = DOMAIN tx.buffers
      /\ tx = [seq |-> tx.seq, targets |-> tx.targets, buffers |-> tx.buffers]
  BY DEF TypeInv, TypeOK
<1> DEFINE n == Len(tx.targets)
<1>6. CASE Staged(tx, b)
  <2>1. /\ tx'.targets = tx.targets
        /\ \A i \in DOMAIN tx.targets :
              tx'.buffers[i] = IF tx.targets[i] = b THEN data ELSE tx.buffers[i]
    BY <1>1, <1>5, <1>6 DEF Restage
  <2>2. \A c : Staged(tx, c) => Staged(tx', c)
    BY <2>1 DEF Staged
  <2>3. ASSUME NEW i \in DOMAIN tx'.targets, NEW o \in Offset,
               NEW c \in Home, tx'.targets[i] = c
        PROVE  tx'.buffers[i][o] = Outcome(c, o)'
    <3>1. i \in DOMAIN tx.targets /\ tx.targets[i] = c
      BY <1>5, <2>1, <2>3
    <3>2. CASE c = b
      BY <1>3, <2>1, <3>1, <3>2
    <3>3. CASE c # b
      BY <1>1, <1>4, <2>1, <3>1, <3>3 DEF StageInv
    <3>4. QED
      BY <3>2, <3>3
  <2>4. ASSUME NEW j \in 1 .. Len(request), j < next + 1 PROVE Staged(tx', TargetOf(request[j]))
    <3>1. CASE j = next
      BY <1>0, <1>6, <2>2, <3>1
    <3>2. CASE j # next
      <4>1. j < next
        BY <2>4, <3>2 DEF TypeInv, TypeOK
      <4>2. QED
        BY <1>1, <2>2, <4>1 DEF StageInv
    <3>3. QED
      BY <3>1, <3>2
  <2>5. QED
    <3>1. tx'.targets \in Seq(Home)
      BY <1>5, <2>1
    <3>2. QED
      BY <1>1, <2>3, <2>4, <3>1 DEF StageInv
<1>7. CASE ~ Staged(tx, b)
  <2>1. /\ tx'.targets = Append(tx.targets, b) /\ tx'.buffers = Append(tx.buffers, data)
    BY <1>1, <1>5, <1>7 DEF Append1
  <2>2. /\ DOMAIN tx'.targets = 1 .. n + 1 /\ DOMAIN tx.targets = 1 .. n /\ n \in Nat
        /\ \A i \in 1 .. n : tx'.targets[i] = tx.targets[i] /\ tx'.buffers[i] = tx.buffers[i]
        /\ tx'.targets[n + 1] = b /\ tx'.buffers[n + 1] = data
    BY <1>5, <2>1
  <2>3. \A c : Staged(tx, c) => Staged(tx', c)
    BY <2>2 DEF Staged
  <2>4. ASSUME NEW i \in DOMAIN tx'.targets, NEW o \in Offset,
               NEW c \in Home, tx'.targets[i] = c
        PROVE  tx'.buffers[i][o] = Outcome(c, o)'
    <3>1. CASE i = n + 1
      BY <1>3, <2>2, <2>4, <3>1
    <3>2. CASE i # n + 1
      <4>1. i \in 1 .. n /\ tx.targets[i] = c
        BY <1>5, <2>2, <2>4, <3>2
      <4>2. c # b
        BY <1>7, <2>2, <4>1 DEF Staged
      <4>3. QED
        BY <1>1, <1>4, <2>2, <4>1, <4>2 DEF StageInv
    <3>3. QED
      BY <3>1, <3>2
  <2>5. ASSUME NEW j \in 1 .. Len(request), j < next + 1 PROVE Staged(tx', TargetOf(request[j]))
    <3>1. CASE j = next
      BY <1>0, <2>2, <3>1 DEF Staged
    <3>2. CASE j # next
      <4>1. j < next
        BY <2>5, <3>2 DEF TypeInv, TypeOK
      <4>2. QED
        BY <1>1, <2>3, <4>1 DEF StageInv
    <3>3. QED
      BY <3>1, <3>2
  <2>6. QED
    <3>1. tx'.targets \in Seq(Home)
      BY <1>5, <2>1
    <3>2. QED
      BY <1>1, <2>4, <2>5, <3>1 DEF StageInv
<1>8. QED
  BY <1>6, <1>7

Staging == {"staging", "images", "syncImages", "commit", "syncCommit"}

\* A step of the commit that stages nothing keeps the transaction and its images.
LEMMA CommitKeepsImages ==
    ASSUME TypeInv, StageInv, tx' = tx, request' = request,
           \A b \in Home : image'[b] = image[b],
           \/ pc \in Staging \ {"staging"} /\ pc' \in Staging \ {"staging"}
           \/ pc = "staging" /\ next > Len(request) /\ pc' = "images"
           \/ pc' = pc /\ next' = next /\ pc \in Staging
    PROVE  StageInv'
<1>1. \A j \in 1 .. Len(request) :
         (pc' = "staging" => j < next') <=> (pc = "staging" => j < next)
  <2>1. Len(request) \in Nat /\ next \in Nat
    BY JournalAssumption DEF TypeInv, TypeOK
  <2>2. next > Len(request) => \A j \in 1 .. Len(request) : j < next
    BY <2>1
  <2>3. QED
    BY <2>2 DEF Staging
<1>2. \A b \in Home, o \in Offset : Outcome(b, o)' = Outcome(b, o)
  BY <1>1, OutcomesStay
<1>3. pc' = "staging" =>
         \A j \in 1 .. Len(request') : j < next' => Staged(tx', TargetOf(request'[j]))
  BY DEF StageInv, Staging
<1>4. ASSUME NEW i \in DOMAIN tx'.targets, NEW o \in Offset,
             NEW c \in Home, tx'.targets[i] = c
      PROVE  tx'.buffers[i][o] = Outcome(c, o)'
  <2>1. i \in DOMAIN tx.targets /\ tx.targets[i] = c
    BY <1>4
  <2>2. pc \in Staging
    BY DEF Staging
  <2>3. tx.buffers[i][o] = Outcome(c, o)
    BY <2>1, <2>2 DEF StageInv, Staging
  <2>4. QED
    BY <1>2, <2>3
<1>5. tx'.targets \in Seq(Home)
  BY DEF TypeInv, TypeOK
<1>6. QED
  BY <1>3, <1>4, <1>5 DEF StageInv

\* Every step keeps the invariant of staging.
LEMMA StageInvStep == TypeInv /\ StageInv /\ [Next]_vars => StageInv'
<1> SUFFICES ASSUME TypeInv, StageInv, [Next]_vars PROVE StageInv'
  OBVIOUS
<1>1. CASE Stage
  BY <1>1, StageKeepsImages
<1>2. CASE WriteHeader
  BY <1>2, Layout, CommitKeepsImages DEF WriteHeader, WriteBlock, Goto, Staging, TypeInv, TypeOK, DiskTypeOK
<1>3. CASE WriteImage
  <2>1. next \in 1 .. MaxTxBlocks
    BY <1>3, JournalAssumption DEF WriteImage, LoopOver, Goto, TypeInv, TypeOK, LoopOK
  <2>2. \A b \in Home : image'[b] = image[b]
    BY <1>3, <2>1, Layout DEF WriteImage, LoopOver, WriteBlock, TypeInv, TypeOK, DiskTypeOK
  <2>3. tx' = tx /\ request' = request /\ pc = "images" /\ pc' \in {"images", "syncImages"}
    BY <1>3 DEF WriteImage, LoopOver, Goto
  <2>4. QED
    BY <2>2, <2>3, CommitKeepsImages DEF Staging
<1>4. CASE SyncImages
  BY <1>4, CommitKeepsImages DEF SyncImages, Step, Goto, SyncImage, Staging
<1>5. CASE WriteCommit
  BY <1>5, Layout, CommitKeepsImages
     DEF WriteCommit, Step, Goto, WriteBlock, Staging, TypeInv, TypeOK, DiskTypeOK
<1>6. CASE (\E b \in Block : KernelWriteback(b)) \/ UNCHANGED vars
  <2>1. UNCHANGED <<image, pc, tx, request, next>>
    BY <1>6 DEF KernelWriteback, Writeback, vars
  <2>2. CASE pc \in Staging
    BY <2>1, <2>2, CommitKeepsImages
  <2>3. CASE pc \notin Staging
    BY <2>1, <2>3 DEF StageInv, Staging
  <2>4. QED
    BY <2>2, <2>3
<1>7. CASE \E w \in Workload : Begin(w)
  BY <1>7, JournalAssumption DEF Begin, StageInv
<1>8. CASE \/ StageRefused \/ CommitNothing \/ SyncCommit \/ ApplyImage \/ SyncApply
           \/ ClearHeader \/ ClearCommit \/ SyncClear
  <2>1. pc' \notin Staging
    BY <1>8 DEF StageRefused, CommitNothing, SyncCommit, ApplyImage, SyncApply, ClearHeader,
       ClearCommit, SyncClear, AbortTo, LoopOver, Step, Goto, Staging
  <2>2. QED
    BY <2>1 DEF StageInv, Staging
<1>9. CASE Mounting
  <2>1. pc' \notin Staging
    BY <1>9 DEF Mounting, Mount, Replay, SyncReplay, RecClearHeader, RecClearCommit,
       RecSyncClear, MountFlush, MountSync, LoopOver, Step, Goto, Staging
  <2>2. QED
    BY <2>1 DEF StageInv, Staging
<1>10. CASE \/ UnmountFlush \/ UnmountSync \/ NewProcess \/ Kill \/ PowerFailure \/ IOError
            \/ \E dw \in DirectWrites : DirectWrite(dw[1], dw[2])
  <2>1. pc' \notin Staging
    BY <1>10 DEF UnmountFlush, UnmountSync, NewProcess, Kill, PowerFailure, IOError,
       DirectWrite, AbortTo, Step, Goto, Staging
  <2>2. QED
    BY <2>1 DEF StageInv, Staging
<1>11. QED
  BY <1>1, <1>2, <1>3, <1>4, <1>5, <1>6, <1>7, <1>8, <1>9, <1>10 DEF Next, Committing

\* Whatever requests a caller stages, in whatever order and however often for
\* one block, the images the commit writes are what the requests make of the
\* blocks: no update of the transaction is lost and no other byte is changed,
\* and each block is staged once.
THEOREM NoStagedUpdateIsLost == Spec => []StagedImages
<1>1. Init => TypeInv /\ StageInv
  BY TypeInit DEF Init, StageInv
<1>2. TypeInv /\ StageInv => StagedImages
  BY DEF TypeInv, Distinct, StageInv, StagedImages
<1>3. QED
  BY <1>1, TypeStep, StageInvStep, <1>2, PTL DEF Spec

-----------------------------------------------------------------------------

\* Replaying the journal of this disk changes nothing.
Applied(disk) ==
    \A i \in DOMAIN disk[HeaderBlk].targets :
        disk[disk[HeaderBlk].targets[i]] = disk[Slot(i)]

\* No block is recorded twice.
Injective(disk) ==
    \A i, j \in DOMAIN disk[HeaderBlk].targets :
        disk[HeaderBlk].targets[i] = disk[HeaderBlk].targets[j] => i = j

\* The same record, and the same images to it.
SameJournal(disk1, disk2) ==
    /\ disk1[HeaderBlk] = disk2[HeaderBlk] /\ disk1[CommitBlk] = disk2[CommitBlk]
    /\ \A i \in DOMAIN disk1[HeaderBlk].targets : disk1[Slot(i)] = disk2[Slot(i)]

\* Where page cache and medium agree, step by step.
MediumInv ==
    /\ pc \in {"down", "recClearHeader"} => durable = image
    /\ pc \in {"idle", "staging", "unmountSync", "mountFlush", "mountSync",
               "replay", "syncReplay"} =>
          \A b \in Block \ Home : image[b] = durable[b]
    /\ pc \in {"recClearCommit", "recSyncClear"} =>
          /\ \A b \in Block \ {HeaderBlk, CommitBlk} : image[b] = durable[b]
          /\ image[CommitBlk] \in {durable[CommitBlk], BlankCommit}
          /\ ValidJournal(durable) => Applied(durable)
    /\ pc \in {"images", "syncImages", "commit"} =>
          /\ image[CommitBlk] = durable[CommitBlk]
          /\ durable[HeaderBlk].magic => durable[HeaderBlk] = HeaderOf(tx)
          /\ \A i \in DOMAIN tx.targets : image[Slot(i)] \in {durable[Slot(i)], tx.buffers[i]}
    /\ pc \in {"commit", "syncCommit"} => Recorded(durable)

\* How far recovery is, and that it replays no block twice.
ReplayInv ==
    /\ Injective(image) /\ Injective(durable)
    /\ pc \in {"replay", "syncReplay"} => ValidJournal(image)
    /\ pc = "replay" => \A i \in 1 .. next - 1 :
                           image[image[HeaderBlk].targets[i]] = image[Slot(i)]
    /\ pc = "syncReplay" => Applied(image)
    /\ pc = "recClearHeader" => (ValidJournal(image) => Applied(image))

StoreInv == CommitInv /\ QuietInv /\ MediumInv /\ ReplayInv

\* What the mapping needs of the two disks: a record that counts on both is the
\* same one, and one that counts on the medium only is in place there.
Agreed ==
    /\ ValidJournal(image) /\ ValidJournal(durable) => SameJournal(durable, image)
    /\ ~ ValidJournal(image) /\ ValidJournal(durable) => Applied(durable)
----------------------------------------------------------------------------
(* What a mount of a disk shows.                                           *)

\* A record that counts is of blocks at home, in slots of the journal.
LEMMA RecordLayout ==
    ASSUME NEW disk, DiskTypeOK(disk), ValidJournal(disk)
    PROVE  \A i \in DOMAIN disk[HeaderBlk].targets :
              /\ disk[HeaderBlk].targets[i] \in Home /\ disk[HeaderBlk].targets[i] \in Block
              /\ disk[HeaderBlk].targets[i] \notin {HeaderBlk, CommitBlk}
              /\ i \in 1 .. MaxTxBlocks
              /\ Slot(i) \in (Block \ Home) \ {HeaderBlk, CommitBlk}
              /\ disk[Slot(i)] \in Data
<1> DEFINE targets == disk[HeaderBlk].targets
<1>1. targets \in Seq(Home) /\ Len(targets) \in 1 .. MaxTxBlocks
  BY DEF DiskTypeOK, Header, ValidJournal
<1>2. DOMAIN targets = 1 .. Len(targets) /\ Len(targets) \in Nat /\ MaxTxBlocks \in Nat
  BY <1>1, JournalAssumption
<1> HIDE DEF targets
<1>3. \A i \in DOMAIN targets : i \in 1 .. MaxTxBlocks /\ targets[i] \in Home
  BY <1>1, <1>2
<1>4. ASSUME NEW i \in DOMAIN targets
      PROVE  Slot(i) \in (Block \ Home) \ {HeaderBlk, CommitBlk} /\ disk[Slot(i)] \in Data
  BY <1>3, Layout DEF DiskTypeOK
<1>5. QED
  BY <1>3, <1>4, Layout DEF targets

\* Header, commit record and the slots in use decide whether a journal counts.
LEMMA SameCounts ==
    ASSUME NEW disk1, NEW disk2, SameJournal(disk1, disk2)
    PROVE  ValidJournal(disk1) <=> ValidJournal(disk2)
<1>1. Payload(disk1) = Payload(disk2)
  BY DEF SameJournal, Payload
<1>2. QED
  BY <1>1 DEF SameJournal, ValidJournal

\* Without a valid journal, a mount shows the home blocks.
LEMMA WithoutJournal ==
    ASSUME NEW disk, ~ ValidJournal(disk)
    PROVE  Recovered(disk) = [b \in Home |-> disk[b]]
BY DEF Recovered

\* So it does if the journal's images are in place already.
LEMMA InPlaceShows ==
    ASSUME NEW disk, ValidJournal(disk) => Applied(disk)
    PROVE  Recovered(disk) = [b \in Home |-> disk[b]]
<1>1. CASE ValidJournal(disk)
  <2> DEFINE targets == disk[HeaderBlk].targets
  <2>1. ASSUME NEW b \in Home, \E i \in DOMAIN targets : targets[i] = b
        PROVE  disk[Slot(CHOOSE i \in DOMAIN targets : targets[i] = b)] = disk[b]
    BY <1>1, <2>1 DEF Applied
  <2>2. QED
    BY <2>1 DEF Recovered
<1>2. CASE ~ ValidJournal(disk)
  BY <1>2, WithoutJournal
<1>3. QED
  BY <1>1, <1>2

\* A block that is recorded is shown as its image, every other one as it is.
LEMMA RecoveredAt ==
    ASSUME NEW disk, NEW b \in Home
    PROVE  /\ ValidJournal(disk) /\ b \in Targets(disk) =>
                 \E i \in DOMAIN disk[HeaderBlk].targets :
                    disk[HeaderBlk].targets[i] = b /\ Recovered(disk)[b] = disk[Slot(i)]
           /\ ~ ValidJournal(disk) \/ b \notin Targets(disk) => Recovered(disk)[b] = disk[b]
BY DEF Recovered, Targets, Range

\* Disks that differ only in what the journal overwrites show the same.
LEMMA RecoveredSame ==
    ASSUME NEW disk1, NEW disk2, SameJournal(disk1, disk2),
           \A b \in Home : disk1[b] = disk2[b] \/ (ValidJournal(disk1) /\ b \in Targets(disk1))
    PROVE  Recovered(disk1) = Recovered(disk2)
<1>1. ValidJournal(disk1) <=> ValidJournal(disk2)
  BY SameCounts
<1> DEFINE targets == disk1[HeaderBlk].targets
<1>2. disk2[HeaderBlk].targets = targets
  BY DEF SameJournal
<1>3. ASSUME NEW b \in Home PROVE Recovered(disk1)[b] = Recovered(disk2)[b]
  <2> DEFINE j == CHOOSE i \in DOMAIN targets : targets[i] = b
  <2>1. CASE ValidJournal(disk1) /\ \E i \in DOMAIN targets : targets[i] = b
    <3>1. j \in DOMAIN targets
      BY <2>1
    <3>2. Recovered(disk1)[b] = disk1[Slot(j)] /\ Recovered(disk2)[b] = disk2[Slot(j)]
      BY <1>1, <1>2, <2>1 DEF Recovered
    <3>3. QED
      BY <3>1, <3>2 DEF SameJournal
  <2>2. CASE ~ (ValidJournal(disk1) /\ \E i \in DOMAIN targets : targets[i] = b)
    <3>1. disk1[b] = disk2[b]
      BY <2>2 DEF Targets, Range
    <3>2. QED
      BY <1>1, <1>2, <2>2, <3>1 DEF Recovered
  <2>3. QED
    BY <2>1, <2>2
<1>4. Recovered(disk1) = [b \in Home |-> Recovered(disk1)[b]]
      /\ Recovered(disk2) = [b \in Home |-> Recovered(disk2)[b]]
  BY DEF Recovered
<1>5. QED
  BY <1>3, <1>4

\* What a mount shows is data.
LEMMA RecoveredTypes ==
    ASSUME NEW disk, DiskTypeOK(disk)
    PROVE  Recovered(disk) \in [Home -> Data] /\ [b \in Home |-> disk[b]] \in [Home -> Data]
<1>1. \A b \in Home : disk[b] \in Data
  BY Layout DEF DiskTypeOK
<1>2. ASSUME NEW b \in Home PROVE Recovered(disk)[b] \in Data
  <2>1. CASE ValidJournal(disk) /\ b \in Targets(disk)
    BY <2>1, RecoveredAt, RecordLayout
  <2>2. CASE ~ (ValidJournal(disk) /\ b \in Targets(disk))
    BY <1>1, <2>2, RecoveredAt
  <2>3. QED
    BY <2>1, <2>2
<1>3. Recovered(disk) = [b \in Home |-> Recovered(disk)[b]]
  BY DEF Recovered
<1>4. QED
  BY <1>1, <1>2, <1>3
----------------------------------------------------------------------------
(* The invariant.                                                          *)

\* Outside a commit and a mount MediumInv asks for little.
LEMMA MediumCommits ==
    ASSUME StoreInv, WriteHeader \/ WriteImage \/ WriteCommit \/ ApplyImage
                     \/ ClearHeader \/ ClearCommit
    PROVE  MediumInv'
<1> USE TxLayout DEF StoreInv, CommitInv
<1>1. CASE WriteHeader
  <2>1. /\ pc = "staging" /\ pc' = "images" /\ tx' = tx /\ durable' = durable
        /\ image' = [image EXCEPT ![HeaderBlk] = HeaderOf(tx)]
    BY <1>1 DEF WriteHeader, Goto, WriteBlock
  <2>2. /\ ~ durable[HeaderBlk].magic
        /\ \A b \in Block \ Home : image[b] = durable[b]
    BY <2>1 DEF QuietInv, MediumInv
  <2>3. image'[CommitBlk] = durable[CommitBlk]
    BY <2>1, <2>2, Layout
  <2>4. \A i \in DOMAIN tx.targets : image'[Slot(i)] = durable[Slot(i)]
    <3>1. \A i \in DOMAIN tx.targets : Slot(i) \in Block \ Home
      BY Layout, JournalAssumption DEF TypeInv, TypeOK
    <3>2. QED
      BY <2>1, <2>2, <3>1
  <2>5. QED
    BY <2>1, <2>2, <2>3, <2>4 DEF MediumInv
<1>2. CASE WriteImage
  <2>1. /\ pc = "images" /\ pc' \in {"images", "syncImages"} /\ tx' = tx /\ durable' = durable
        /\ image' = [image EXCEPT ![Slot(next)] = tx.buffers[next]]
    BY <1>2 DEF WriteImage, LoopOver, Goto, WriteBlock
  <2>2. next \in DOMAIN tx.targets
    BY <1>2 DEF WriteImage, LoopOver, Goto, TypeInv, LoopOK, TypeOK
  <2>3. image'[CommitBlk] = durable[CommitBlk]
    BY <2>1, <2>2 DEF MediumInv
  <2>4. \A i \in DOMAIN tx.targets : image'[Slot(i)] \in {durable[Slot(i)], tx.buffers[i]}
    BY <2>1, <2>2 DEF MediumInv
  <2>5. HeaderOf(tx)' = HeaderOf(tx)
    BY <2>1 DEF HeaderOf
  <2>6. QED
    BY <2>1, <2>3, <2>4, <2>5 DEF MediumInv
<1>3. CASE WriteCommit
  BY <1>3 DEF WriteCommit, Step, Goto, WriteBlock, MediumInv, Recorded, Images, HeaderOf
<1>4. CASE ApplyImage \/ ClearHeader \/ ClearCommit
  BY <1>4 DEF ApplyImage, ClearHeader, ClearCommit, LoopOver, Step, Goto, MediumInv
<1>5. QED
  BY <1>1, <1>2, <1>3, <1>4

\* After an fsync page cache and medium agree as the next phase needs.
LEMMA MediumSyncs ==
    ASSUME StoreInv, SyncImages \/ SyncCommit \/ SyncApply \/ SyncClear \/ SyncReplay
                     \/ RecSyncClear \/ MountSync \/ UnmountSync
    PROVE  MediumInv'
<1> USE DEF StoreInv, CommitInv
<1>1. durable' = image /\ image' = image
  BY DEF SyncImages, SyncCommit, SyncApply, SyncClear, SyncReplay, RecSyncClear, MountSync,
         UnmountSync, Step, Goto, SyncImage
<1>2. CASE SyncImages
  <2>1. pc = "syncImages" /\ pc' = "commit" /\ tx' = tx
    BY <1>2 DEF SyncImages, Step, Goto
  <2>2. Recorded(image)
    BY <2>1 DEF PhaseInv
  <2>3. image[HeaderBlk] = HeaderOf(tx) /\ HeaderOf(tx)' = HeaderOf(tx)
    BY <2>1, <2>2 DEF Recorded, HeaderOf
  <2>4. Recorded(durable)'
    BY <1>1, <2>1, <2>2 DEF Recorded, Images, HeaderOf
  <2>5. QED
    BY <1>1, <2>1, <2>3, <2>4 DEF MediumInv
<1>3. CASE SyncCommit \/ SyncApply
  BY <1>1, <1>3 DEF SyncCommit, SyncApply, Step, Goto, MediumInv
<1>4. CASE SyncClear
  BY <1>1, <1>4 DEF SyncClear, AbortTo, MediumInv
<1>5. CASE SyncReplay \/ RecSyncClear \/ MountSync \/ UnmountSync
  BY <1>1, <1>5 DEF SyncReplay, RecSyncClear, MountSync, UnmountSync, Step, Goto, MediumInv
<1>6. QED
  BY <1>2, <1>3, <1>4, <1>5

\* So they do after the steps of a mount and an unmount and after direct writes.
LEMMA MediumMounts ==
    ASSUME StoreInv, Mount \/ Replay \/ RecClearHeader \/ RecClearCommit \/ MountFlush
                     \/ UnmountFlush \/ \E dw \in DirectWrites : DirectWrite(dw[1], dw[2])
    PROVE  MediumInv'
<1> USE TxLayout, Layout DEF StoreInv, CommitInv
<1>1. CASE Mount
  <2>1. image' = image /\ durable' = durable /\ image = durable
        /\ pc' \in {"mountFlush", "replay", "recClearHeader"}
    BY <1>1 DEF Mount, Goto, deviceVars, MediumInv
  <2>2. QED
    BY <2>1 DEF MediumInv
<1>2. CASE Replay
  <2>1. /\ pc = "replay" /\ pc' \in {"replay", "syncReplay"} /\ durable' = durable
        /\ image' = [image EXCEPT ![image[HeaderBlk].targets[next]] = image[Slot(next)]]
    BY <1>2 DEF Replay, LoopOver, Goto, WriteBlock
  <2>2. image[HeaderBlk].targets[next] \in Home
    BY <1>2, RecordLayout DEF Replay, LoopOver, Goto, TypeInv, LoopOK, TypeOK, ReplayInv,
                              DiskTypeOK, Header
  <2>3. QED
    BY <2>1, <2>2 DEF MediumInv
<1>3. CASE RecClearHeader
  <2>1. /\ pc = "recClearHeader" /\ pc' = "recClearCommit" /\ durable' = durable
        /\ image' = [image EXCEPT ![HeaderBlk] = BlankHeader] /\ image = durable
    BY <1>3 DEF RecClearHeader, Step, Goto, WriteBlock, MediumInv
  <2>2. ValidJournal(durable) => Applied(durable)
    BY <2>1 DEF ReplayInv
  <2>3. QED
    BY <2>1, <2>2 DEF MediumInv
<1>4. CASE RecClearCommit
  <2>1. /\ pc = "recClearCommit" /\ pc' = "recSyncClear" /\ durable' = durable
        /\ image' = [image EXCEPT ![CommitBlk] = BlankCommit]
    BY <1>4 DEF RecClearCommit, Step, Goto, WriteBlock
  <2>2. QED
    BY <2>1 DEF MediumInv
<1>5. CASE MountFlush \/ UnmountFlush
  BY <1>5 DEF MountFlush, UnmountFlush, Step, Goto, WriteBlock, MediumInv
<1>6. CASE \E dw \in DirectWrites : DirectWrite(dw[1], dw[2])
  <2>1. PICK dw \in DirectWrites : DirectWrite(dw[1], dw[2])
    BY <1>6
  <2>2. dw[1] \in Home
    BY JournalAssumption
  <2>3. QED
    BY <2>1, <2>2 DEF DirectWrite, Step, Goto, WriteBlock, MediumInv
<1>7. QED
  BY <1>1, <1>2, <1>3, <1>4, <1>5, <1>6

\* So they do after the kernel has written back a block.
LEMMA MediumWriteback ==
    ASSUME StoreInv, NEW b \in Block, KernelWriteback(b) PROVE MediumInv'
<1> USE TxLayout DEF StoreInv, CommitInv
<1>1. /\ image[b] # durable[b] /\ durable' = [durable EXCEPT ![b] = image[b]]
      /\ \A c \in Block : durable'[c] \in {durable[c], image[c]}
      /\ UNCHANGED <<image, pc, tx, next>>
  BY DEF KernelWriteback, Writeback
<1>2. CASE pc \in {"down", "recClearHeader"}
  BY <1>1, <1>2 DEF MediumInv
<1>3. CASE pc \in {"idle", "staging", "unmountSync", "mountFlush", "mountSync", "replay",
                   "syncReplay"}
  BY <1>1, <1>3 DEF MediumInv
<1>4. CASE pc \in {"recClearCommit", "recSyncClear"}
  <2>1. /\ \A c \in Block \ {HeaderBlk, CommitBlk} : image[c] = durable[c]
        /\ image[CommitBlk] \in {durable[CommitBlk], BlankCommit} /\ ~ image[HeaderBlk].magic
    BY <1>4 DEF MediumInv, QuietInv
  <2>2. b = HeaderBlk \/ (b = CommitBlk /\ image[CommitBlk] = BlankCommit)
    <3>1. b \notin Block \ {HeaderBlk, CommitBlk}
      BY <1>1, <2>1
    <3>2. b = CommitBlk => image[CommitBlk] = BlankCommit
      BY <1>1, <2>1
    <3>3. QED
      BY <3>1, <3>2
  <2>3. ~ ValidJournal(durable')
    BY <1>1, <2>1, <2>2 DEF ValidJournal, BlankCommit
  <2>4. QED
    BY <1>1, <1>4, <2>1, <2>3 DEF MediumInv
<1>5. CASE pc \in {"images", "syncImages", "commit", "syncCommit"}
  <2>1. HeaderOf(tx)' = HeaderOf(tx)
    BY <1>1 DEF HeaderOf
  <2>2. pc \in {"commit", "syncCommit"} => Recorded(image)
    BY <1>5 DEF PhaseInv, Committed
  <2>3. pc \in {"commit", "syncCommit"} => Recorded(durable)'
    BY <1>1, <1>5, <2>1, <2>2 DEF MediumInv, Recorded, Images
  <2>4. pc \in {"images", "syncImages", "commit"} => image[HeaderBlk] = HeaderOf(tx)
    BY <1>5, <2>2 DEF PhaseInv, Recorded
  <2>5. QED
    BY <1>1, <1>5, <2>1, <2>3, <2>4 DEF MediumInv
<1>6. CASE pc \in {"apply", "syncApply", "clearHeader", "clearCommit", "syncClear"}
  BY <1>1, <1>6 DEF MediumInv
<1>7. QED
  BY <1>2, <1>3, <1>4, <1>5, <1>6
     DEF TypeInv, TypeOK, CommitSteps, MountSteps, UnmountSteps

\* With power failures only, every step keeps the agreement of page cache and medium.
LEMMA MediumStep ==
    ASSUME Faults \subseteq {"power"} PROVE StoreInv /\ [Next]_vars => MediumInv'
<1> SUFFICES ASSUME StoreInv, [Next]_vars PROVE MediumInv'
  OBVIOUS
<1>1. CASE \/ WriteHeader \/ WriteImage \/ WriteCommit \/ ApplyImage
           \/ ClearHeader \/ ClearCommit
  BY <1>1, MediumCommits
<1>2. CASE \/ SyncImages \/ SyncCommit \/ SyncApply \/ SyncClear \/ SyncReplay
           \/ RecSyncClear \/ MountSync \/ UnmountSync
  BY <1>2, MediumSyncs
<1>3. CASE \/ Mount \/ Replay \/ RecClearHeader \/ RecClearCommit \/ MountFlush \/ UnmountFlush
           \/ \E dw \in DirectWrites : DirectWrite(dw[1], dw[2])
  BY <1>3, MediumMounts
<1>4. CASE Stage \/ StageRefused \/ CommitNothing \/ NewProcess \/ \E w \in Workload : Begin(w)
  BY <1>4 DEF Stage, StageRefused, CommitNothing, NewProcess, Begin, AbortTo, StoreInv, MediumInv
<1>5. CASE Kill \/ PowerFailure \/ IOError
  BY <1>5 DEF Kill, PowerFailure, IOError, Fault, AbortTo, LosePageCache, MediumInv
<1>6. CASE \E b \in Block : KernelWriteback(b)
  BY <1>6, MediumWriteback
<1>7. CASE UNCHANGED vars
  BY <1>7 DEF vars, StoreInv, MediumInv, Recorded, Images, HeaderOf, Applied, ValidJournal, Payload
<1>8. QED
  BY <1>1, <1>2, <1>3, <1>4, <1>5, <1>6, <1>7 DEF Next, Committing, Mounting

\* A replay puts one image in place and keeps those that are.
LEMMA ReplayProgress ==
    ASSUME StoreInv, Replay PROVE ReplayInv'
<1> USE DEF StoreInv, CommitInv
<1> DEFINE targets == image[HeaderBlk].targets
           n == Len(targets)
<1>1. /\ pc = "replay" /\ ValidJournal(image) /\ Injective(image)
      /\ image' = [image EXCEPT ![targets[next]] = image[Slot(next)]] /\ durable' = durable
      /\ IF next < n THEN pc' = "replay" /\ next' = next + 1 ELSE pc' = "syncReplay"
  BY DEF Replay, LoopOver, Goto, WriteBlock, ReplayInv
<1>2. next \in 1 .. n /\ DOMAIN targets = 1 .. n /\ n \in Nat
  BY <1>1 DEF TypeInv, TypeOK, LoopOK, DiskTypeOK, Header
<1>3. \A i \in DOMAIN targets :
         /\ targets[i] \in Home /\ targets[i] \in Block
         /\ Slot(i) \in (Block \ Home) \ {HeaderBlk, CommitBlk}
  BY <1>1, RecordLayout DEF TypeInv, TypeOK
<1>4. image'[HeaderBlk] = image[HeaderBlk] /\ image'[CommitBlk] = image[CommitBlk]
      /\ \A i \in DOMAIN targets : image'[Slot(i)] = image[Slot(i)]
  BY <1>1, <1>2, <1>3, Layout
<1>5. ValidJournal(image')
  <2>1. SameJournal(image, image')
    BY <1>4 DEF SameJournal
  <2>2. QED
    BY <1>1, <2>1, SameCounts
<1>6. \A i \in 1 .. next : image'[targets[i]] = image[Slot(i)]
  <2>1. image'[targets[next]] = image[Slot(next)]
    BY <1>1, <1>2, <1>3 DEF TypeInv, TypeOK, DiskTypeOK
  <2>2. \A i \in 1 .. next - 1 : targets[i] # targets[next] /\ targets[i] \in Block
    <3> SUFFICES ASSUME NEW i \in 1 .. next - 1
                 PROVE  targets[i] # targets[next] /\ targets[i] \in Block
      OBVIOUS
    <3>1. i \in DOMAIN targets /\ next \in DOMAIN targets /\ i # next
      BY <1>2
    <3>2. QED
      BY <1>1, <1>3, <3>1 DEF Injective
  <2>3. \A i \in 1 .. next - 1 : image'[targets[i]] = image[Slot(i)]
    BY <1>1, <2>2 DEF ReplayInv, TypeInv, TypeOK, DiskTypeOK
  <2>4. QED
    BY <1>2, <2>1, <2>3
<1>7. Injective(image') /\ Injective(durable')
  BY <1>1, <1>4 DEF Injective, ReplayInv
<1>8. CASE next < n
  <2>1. \A i \in 1 .. next' - 1 : image'[image'[HeaderBlk].targets[i]] = image'[Slot(i)]
    BY <1>1, <1>2, <1>4, <1>6, <1>8
  <2>2. QED
    BY <1>1, <1>5, <1>7, <1>8, <2>1 DEF ReplayInv
<1>9. CASE ~ (next < n)
  <2>1. Applied(image')
    BY <1>2, <1>4, <1>6, <1>9 DEF Applied
  <2>2. QED
    BY <1>1, <1>5, <1>7, <1>9, <2>1 DEF ReplayInv
<1>10. QED
  BY <1>8, <1>9

\* With power failures only, every step keeps the progress of a replay.
LEMMA ReplayStep ==
    ASSUME Faults \subseteq {"power"} PROVE StoreInv /\ [Next]_vars => ReplayInv'
<1> SUFFICES ASSUME StoreInv, [Next]_vars PROVE ReplayInv'
  OBVIOUS
<1> USE TxLayout, Layout DEF StoreInv, CommitInv
<1>1. CASE WriteHeader \/ ClearHeader
  <2>1. /\ image'[HeaderBlk] \in {HeaderOf(tx), BlankHeader} /\ durable' = durable
        /\ pc' \in {"images", "clearCommit"}
    BY <1>1 DEF WriteHeader, ClearHeader, Step, Goto, WriteBlock
  <2>2. Injective(image')
    BY <2>1 DEF Injective, HeaderOf, BlankHeader, TypeInv, Distinct
  <2>3. QED
    BY <2>1, <2>2 DEF ReplayInv
<1>2. CASE WriteImage \/ WriteCommit \/ ApplyImage \/ ClearCommit
  <2>1. image'[HeaderBlk] = image[HeaderBlk] /\ durable' = durable
    <3>1. next \in DOMAIN tx.targets \/ WriteCommit \/ ClearCommit
      BY <1>2 DEF WriteImage, ApplyImage, LoopOver, Goto, TypeInv, LoopOK, TypeOK
    <3>2. QED
      BY <1>2, <3>1 DEF WriteImage, WriteCommit, ApplyImage, ClearCommit, LoopOver, Step, WriteBlock
  <2>2. pc' \in {"images", "syncImages", "syncCommit", "apply", "syncApply", "syncClear"}
    BY <1>2 DEF WriteImage, WriteCommit, ApplyImage, ClearCommit, LoopOver, Step, Goto
  <2>3. QED
    BY <2>1, <2>2 DEF ReplayInv, Injective
<1>3. CASE \/ SyncImages \/ SyncCommit \/ SyncApply \/ SyncClear \/ RecSyncClear \/ MountSync
           \/ UnmountSync
  BY <1>3 DEF SyncImages, SyncCommit, SyncApply, SyncClear, RecSyncClear, MountSync, UnmountSync,
              AbortTo, Step, Goto, SyncImage, ReplayInv
<1>4. CASE Mount
  BY <1>4 DEF Mount, Goto, deviceVars, ReplayInv
<1>5. CASE Replay
  BY <1>5, ReplayProgress
<1>6. CASE SyncReplay
  BY <1>6 DEF SyncReplay, Step, Goto, SyncImage, ReplayInv
<1>7. CASE RecClearHeader \/ RecClearCommit \/ MountFlush \/ UnmountFlush
  <2>1. /\ image'[HeaderBlk] \in {image[HeaderBlk], BlankHeader} /\ durable' = durable
        /\ pc' \in {"recClearCommit", "recSyncClear", "mountSync", "unmountSync"}
    BY <1>7 DEF RecClearHeader, RecClearCommit, MountFlush, UnmountFlush, Step, Goto, WriteBlock
  <2>2. Injective(image')
    BY <2>1 DEF Injective, BlankHeader, ReplayInv
  <2>3. QED
    BY <2>1, <2>2 DEF ReplayInv
<1>8. CASE \E dw \in DirectWrites : DirectWrite(dw[1], dw[2])
  <2>1. PICK dw \in DirectWrites : DirectWrite(dw[1], dw[2])
    BY <1>8
  <2>2. dw[1] \in Home
    BY JournalAssumption
  <2>3. image'[HeaderBlk] = image[HeaderBlk] /\ durable' = durable /\ pc' = "idle"
    BY <2>1, <2>2 DEF DirectWrite, Step, Goto, WriteBlock
  <2>4. QED
    BY <2>3 DEF ReplayInv, Injective
<1>9. CASE Stage \/ StageRefused \/ CommitNothing \/ NewProcess \/ \E w \in Workload : Begin(w)
  BY <1>9 DEF Stage, StageRefused, CommitNothing, NewProcess, Begin, AbortTo, ReplayInv
<1>10. CASE Kill \/ PowerFailure \/ IOError
  BY <1>10 DEF Kill, PowerFailure, IOError, Fault, AbortTo, LosePageCache, ReplayInv
<1>11. CASE \E b \in Block : KernelWriteback(b)
  <2>1. /\ durable'[HeaderBlk] \in {durable[HeaderBlk], image[HeaderBlk]}
        /\ UNCHANGED <<image, pc, next>>
    BY <1>11 DEF KernelWriteback, Writeback
  <2>2. Injective(durable')
    BY <2>1 DEF Injective, ReplayInv
  <2>3. QED
    BY <2>1, <2>2 DEF ReplayInv
<1>12. CASE UNCHANGED vars
  BY <1>12 DEF vars, ReplayInv, Injective, Applied, ValidJournal, Payload
<1>13. QED
  BY <1>1, <1>2, <1>3, <1>4, <1>5, <1>6, <1>7, <1>8, <1>9, <1>10, <1>11, <1>12
     DEF Next, Committing, Mounting

\* The invariant of the refinement holds at the start.
LEMMA StoreInvInit == Init => StoreInv
<1> SUFFICES ASSUME Init PROVE StoreInv
  OBVIOUS
<1>1. CommitInv /\ QuietInv
  BY TypeInit DEF CommitInv, Init, PhaseInv, QuietInv
<1>2. MediumInv
  BY DEF Init, MediumInv
<1>3. Formatted[HeaderBlk] = BlankHeader
  BY Layout DEF Formatted
<1>4. ReplayInv
  BY <1>3 DEF Init, ReplayInv, Injective, BlankHeader
<1>5. QED
  BY <1>1, <1>2, <1>4 DEF StoreInv

\* With power failures only, every step keeps it.
LEMMA StoreInvStep ==
    ASSUME Faults \subseteq {"power"} PROVE StoreInv /\ [Next]_vars => StoreInv'
<1>1. "io" \notin Faults
  OBVIOUS
<1>2. QED
  BY <1>1, CommitInvStep, QuietStep, MediumStep, ReplayStep DEF StoreInv, CommitInv
----------------------------------------------------------------------------
(* Page cache and medium do not disagree on the journal.                   *)

\* While a transaction is being recorded, a record that counts on the medium is its own.
LEMMA UnderWay ==
    ASSUME StoreInv, ChecksumTells, pc \in {"images", "syncImages", "commit"},
           ValidJournal(durable)
    PROVE  SameJournal(durable, image)
<1> USE DEF StoreInv, CommitInv
<1>1. durable[HeaderBlk] = HeaderOf(tx) /\ image[CommitBlk] = durable[CommitBlk]
  BY DEF MediumInv, ValidJournal
<1>2. image[HeaderBlk] = HeaderOf(tx)
  BY DEF PhaseInv, Recorded
<1>3. \A i \in DOMAIN tx.targets : durable[Slot(i)] = tx.buffers[i]
  BY <1>1 DEF ChecksumTells
<1>4. \A i \in DOMAIN tx.targets : image[Slot(i)] = durable[Slot(i)]
  BY <1>3 DEF MediumInv
<1>5. QED
  BY <1>1, <1>2, <1>4 DEF SameJournal, HeaderOf

\* Page cache and medium show records that say the same, as the mapping needs.
LEMMA Agreement ==
    ASSUME StoreInv, ChecksumTells PROVE Agreed
<1> USE DEF StoreInv, CommitInv
<1>1. CASE pc \in {"down", "recClearHeader"}
  BY <1>1 DEF MediumInv, Agreed, SameJournal
<1>2. CASE pc \in {"idle", "staging", "unmountSync", "mountFlush", "mountSync", "replay",
                   "syncReplay"}
  <2>1. \A b \in Block \ Home : image[b] = durable[b]
    BY <1>2 DEF MediumInv
  <2>2. ValidJournal(durable) => SameJournal(durable, image)
    BY <2>1, RecordLayout, Layout DEF SameJournal, TypeInv, TypeOK
  <2>3. QED
    BY <2>2, SameCounts DEF Agreed
<1>3. CASE pc \in {"recClearCommit", "recSyncClear"}
  BY <1>3 DEF MediumInv, QuietInv, Agreed, ValidJournal
<1>4. CASE pc \in {"images", "syncImages", "commit"}
  BY <1>4, UnderWay, SameCounts DEF Agreed
<1>5. CASE pc \in {"syncCommit", "apply", "syncApply", "clearHeader"}
  <2>1. Committed(image) /\ Recorded(durable)
    BY <1>5 DEF MediumInv, PhaseInv, Committed
  <2>2. ValidJournal(image)
    BY <1>5, <2>1, CommittedCounts DEF TypeInv, LoopOK, CommitSteps
  <2>3. SUFFICES ASSUME ValidJournal(durable) PROVE SameJournal(durable, image)
    BY <2>2 DEF Agreed
  <2>4. durable[CommitBlk].magic = TRUE /\ durable[CommitBlk].seq = tx.seq
    <3>1. durable[CommitBlk].magic \in BOOLEAN
      BY DEF TypeInv, TypeOK, DiskTypeOK
    <3>2. QED
      BY <2>1, <2>3, <3>1 DEF ValidJournal, Recorded, HeaderOf
  <2>5. durable[CommitBlk] = [magic |-> TRUE, seq |-> tx.seq]
    BY <2>4 DEF TypeInv, TypeOK, DiskTypeOK
  <2>6. QED
    BY <2>1, <2>5 DEF SameJournal, Committed, Recorded, Images, HeaderOf, CommitOf
<1>6. CASE pc \in {"clearCommit", "syncClear"}
  <2>1. /\ ~ ValidJournal(image) /\ Images(durable) /\ InPlace(durable)
        /\ durable[HeaderBlk] \in {HeaderOf(tx), BlankHeader}
    BY <1>6 DEF PhaseInv, QuietInv, ValidJournal
  <2>2. ValidJournal(durable) => durable[HeaderBlk].targets = tx.targets
    BY <2>1 DEF ValidJournal, HeaderOf, BlankHeader
  <2>3. QED
    BY <2>1, <2>2 DEF Agreed, Applied, Images, InPlace
<1>7. QED
  BY <1>1, <1>2, <1>3, <1>4, <1>5, <1>6
     DEF TypeInv, TypeOK, CommitSteps, MountSteps, UnmountSteps
----------------------------------------------------------------------------
(* Every step of the journal is a step of the store, or none.              *)

StoreStep == [Store!Next]_(Store!storeVars)

\* Nothing open: what is below the group is what a mount shows.
LEMMA NothingOpen ==
    ASSUME ~ ValidJournal(image)
    PROVE  /\ OpenGroup = {} /\ Below = Recovered(image)
           /\ Recovered(image) = [b \in Home |-> image[b]]
BY WithoutJournal DEF OpenGroup, Below

\* A step that changes neither what a mount shows nor the medium is none.
LEMMA ShowsTheSame ==
    ASSUME durable' = durable, Recovered(image') = Recovered(image),
           ValidJournal(image) => ValidJournal(durable),
           ValidJournal(image') => ValidJournal(durable)
    PROVE  StoreStep
<1>1. OpenGroup = {} /\ OpenGroup' = {}
  BY DEF OpenGroup
<1>2. Below = Recovered(image) /\ Below' = Recovered(image')
  BY WithoutJournal DEF Below
<1>3. QED
  BY <1>1, <1>2 DEF StoreStep, Store!storeVars

\* A step that leaves the device alone is none of the store's.
LEMMA NothingChanges == UNCHANGED deviceVars => StoreStep
BY DEF deviceVars, StoreStep, Store!storeVars, OpenGroup, Below

\* An fsync is the store's writeback of everything.
LEMMA SyncKeepsAll ==
    ASSUME TypeInv, SyncImage PROVE StoreStep
<1>1. durable' = image /\ image' = image
  BY DEF SyncImage
<1>2. OpenGroup \subseteq Home
  BY RecordLayout DEF OpenGroup, Targets, Range, TypeInv, TypeOK
<1>3. OpenGroup' = {}
  BY <1>1 DEF OpenGroup
<1>4. Below' = Recovered(image)
  BY <1>1, WithoutJournal DEF Below
<1>5. Recovered(durable)' = [b \in Home |-> Recovered(image)[b]]
  BY <1>1 DEF Recovered
<1>6. Store!KeepView(Home)
  BY <1>1, <1>2, <1>3, <1>4, <1>5 DEF Store!KeepView
<1>7. QED
  BY <1>6 DEF StoreStep, Store!Next

\* A power failure is the store's.
LEMMA LosingFalls ==
    ASSUME LosePageCache PROVE StoreStep
<1>1. image' = durable /\ durable' = durable
  BY DEF LosePageCache
<1>2. OpenGroup' = {} /\ Below' = Recovered(durable)
  BY <1>1, WithoutJournal DEF OpenGroup, Below
<1>3. Store!PowerFailure
  BY <1>1, <1>2 DEF Store!PowerFailure
<1>4. QED
  BY <1>3 DEF StoreStep, Store!Next

\* A block written in place while there is no journal.
LEMMA WritingPuts ==
    ASSUME TypeInv, ~ image[HeaderBlk].magic, NEW b \in Home, NEW data \in Data,
           WriteBlock(b, data)
    PROVE  StoreStep
<1>1. image' = [image EXCEPT ![b] = data] /\ durable' = durable /\ DOMAIN image = Block
  BY DEF WriteBlock, TypeInv, TypeOK, DiskTypeOK
<1>2. ~ ValidJournal(image) /\ ~ ValidJournal(image')
  BY <1>1, Layout DEF ValidJournal
<1>3. OpenGroup' = {} /\ Below' = Recovered(image')
      /\ Recovered(image') = [c \in Home |-> image'[c]]
  BY <1>2, WithoutJournal DEF OpenGroup, Below
<1>4. Recovered(image') = [Recovered(image) EXCEPT ![b] = data]
  BY <1>1, <1>2, <1>3, NothingOpen, Layout
<1>5. Store!Put(b, data)
  BY <1>1, <1>2, <1>3, <1>4, NothingOpen DEF Store!Put, Store!Settled, OpenGroup
<1>6. QED
  BY <1>5 DEF StoreStep, Store!Next

\* The write that makes the record count commits all its blocks at once.
LEMMA CountingCommits ==
    ASSUME TypeInv, TypeInv', durable' = durable, \A b \in Home : image'[b] = image[b],
           ~ ValidJournal(image), ~ ValidJournal(durable), ValidJournal(image')
    PROVE  StoreStep
<1>1. Targets(image') \in SUBSET Home
  BY RecordLayout DEF Targets, Range, TypeInv, TypeOK
<1>2. Recovered(image') \in [Home -> Data]
  BY RecoveredTypes DEF TypeInv, TypeOK
<1>3. \A b \in Home \ Targets(image') : Recovered(image')[b] = Recovered(image)[b]
  BY RecoveredAt
<1>4. Below = Recovered(image) /\ OpenGroup = {}
  BY NothingOpen
<1>5. Below' = Below
  BY DEF Below
<1>6. OpenGroup' = IF Cardinality(Targets(image')) > 1 THEN Targets(image') ELSE {}
  BY DEF OpenGroup
<1>7. \A S : Store!Cardinality(S) = Cardinality(S)
  BY DEF Cardinality, Store!Cardinality
<1>8. Store!Commit(Targets(image'))
  BY <1>2, <1>3, <1>4, <1>5, <1>6, <1>7 DEF Store!Commit, Store!Settled
<1>9. QED
  BY <1>1, <1>8 DEF StoreStep, Store!Next

\* A home block that reaches the medium alone, unless the journal there covers it.
LEMMA WritebackKeepsOne ==
    ASSUME TypeInv, Agreed, NEW b \in Home, Writeback(b)
    PROVE  StoreStep
<1>1. durable' = [durable EXCEPT ![b] = image[b]] /\ image' = image /\ DOMAIN durable = Block
  BY DEF Writeback, TypeInv, TypeOK, DiskTypeOK
<1>2. \A c \in Block : c # b => durable'[c] = durable[c]
  BY <1>1
<1>3. /\ \A i \in 1 .. MaxTxBlocks : durable'[Slot(i)] = durable[Slot(i)]
      /\ durable'[HeaderBlk] = durable[HeaderBlk] /\ durable'[CommitBlk] = durable[CommitBlk]
  BY <1>2, Layout
<1>4. \A i \in DOMAIN durable[HeaderBlk].targets :
         \/ durable'[Slot(i)] = durable[Slot(i)]
         \/ ~ ValidJournal(durable) /\ ~ ValidJournal(durable')
  <2>1. CASE Len(durable[HeaderBlk].targets) \in 1 .. MaxTxBlocks
    <3>1. DOMAIN durable[HeaderBlk].targets \subseteq 1 .. MaxTxBlocks
      <4>1. durable[HeaderBlk].targets \in Seq(Home) /\ MaxTxBlocks \in Nat
        BY JournalAssumption DEF TypeInv, TypeOK, DiskTypeOK, Header
      <4>2. QED
        BY <2>1, <4>1
    <3>2. QED
      BY <1>3, <3>1
  <2>2. CASE ~ (Len(durable[HeaderBlk].targets) \in 1 .. MaxTxBlocks)
    BY <1>3, <2>2 DEF ValidJournal
  <2>3. QED
    BY <2>1, <2>2
<1>5. ValidJournal(durable') <=> ValidJournal(durable)
  <2>1. SUFFICES ASSUME ValidJournal(durable) \/ ValidJournal(durable')
                 PROVE  ValidJournal(durable') <=> ValidJournal(durable)
    OBVIOUS
  <2>2. SameJournal(durable, durable')
    BY <1>3, <1>4, <2>1 DEF SameJournal
  <2>3. QED
    BY <2>2, SameCounts
<1>6. OpenGroup' = OpenGroup /\ Below' = Below
  BY <1>1, <1>5 DEF OpenGroup, Below
<1>7. CASE ValidJournal(durable) /\ b \in Targets(durable)
  <2>1. SameJournal(durable, durable')
    BY <1>3, <1>4, <1>7 DEF SameJournal
  <2>2. \A c \in Home : c # b => durable[c] = durable'[c]
    BY <1>2, Layout
  <2>3. Recovered(durable) = Recovered(durable')
    BY <1>7, <2>1, <2>2, RecoveredSame
  <2>4. QED
    BY <1>1, <1>6, <2>3 DEF StoreStep, Store!storeVars
<1>8. CASE ~ (ValidJournal(durable) /\ b \in Targets(durable))
  <2>1. Below[b] = image[b]
    <3>1. CASE ValidJournal(durable) /\ ValidJournal(image)
      <4>1. Targets(image) = Targets(durable)
        BY <3>1 DEF Agreed, SameJournal, Targets
      <4>2. QED
        BY <1>8, <3>1, <4>1, RecoveredAt DEF Below
    <3>2. CASE ~ (ValidJournal(durable) /\ ValidJournal(image))
      BY <3>2, RecoveredAt DEF Below
    <3>3. QED
      BY <3>1, <3>2
  <2>2. ASSUME NEW c \in Home, c # b PROVE Recovered(durable')[c] = Recovered(durable)[c]
    <3>1. durable'[c] = durable[c]
      BY <1>2, <2>2, Layout
    <3> DEFINE targets == durable[HeaderBlk].targets
               j == CHOOSE i \in DOMAIN targets : targets[i] = c
    <3>2. CASE ValidJournal(durable) /\ \E i \in DOMAIN targets : targets[i] = c
      <4>1. j \in DOMAIN targets
        BY <3>2
      <4>2. durable'[Slot(j)] = durable[Slot(j)]
        BY <1>4, <3>2, <4>1
      <4>3. Recovered(durable')[c] = durable'[Slot(j)] /\ Recovered(durable)[c] = durable[Slot(j)]
        BY <1>3, <1>5, <3>2 DEF Recovered
      <4>4. QED
        BY <4>2, <4>3
    <3>3. CASE ~ (ValidJournal(durable) /\ \E i \in DOMAIN targets : targets[i] = c)
      BY <1>3, <1>5, <3>1, <3>3 DEF Recovered
    <3>4. QED
      BY <3>2, <3>3
  <2>3. Recovered(durable')[b] = image[b]
    <3>1. durable'[b] = image[b] /\ Targets(durable') = Targets(durable)
      BY <1>1, <1>3, Layout DEF Targets
    <3>2. QED
      BY <1>5, <1>8, <3>1, RecoveredAt
  <2>4. /\ Recovered(durable') = [c \in Home |-> Recovered(durable')[c]]
        /\ Recovered(durable) = [c \in Home |-> Recovered(durable)[c]]
    BY DEF Recovered
  <2>5. Recovered(durable') = [Recovered(durable) EXCEPT ![b] = Below[b]]
    BY <2>1, <2>2, <2>3, <2>4
  <2>6. Store!KeepUnder(b)
    BY <1>1, <1>6, <2>5 DEF Store!KeepUnder
  <2>7. QED
    BY <2>6 DEF StoreStep, Store!Next
<1>9. QED
  BY <1>7, <1>8

\* A block of the journal that reaches the medium keeps the open group as a
\* whole, when the record there comes to count, or nothing.
LEMMA WritebackKeepsGroup ==
    ASSUME TypeInv, Agreed, Agreed', NEW b \in Block \ Home, Writeback(b)
    PROVE  StoreStep
<1>1. durable' = [durable EXCEPT ![b] = image[b]] /\ image' = image /\ DOMAIN durable = Block
  BY DEF Writeback, TypeInv, TypeOK, DiskTypeOK
<1>2. \A c \in Home : durable'[c] = durable[c]
  BY <1>1, Layout
<1>3. CASE ~ ValidJournal(image)
  <2>1. Recovered(durable) = [c \in Home |-> durable[c]]
    BY <1>3, InPlaceShows DEF Agreed
  <2>2. Recovered(durable') = [c \in Home |-> durable'[c]]
    <3>1. ValidJournal(durable') => Applied(durable')
      BY <1>1, <1>3 DEF Agreed
    <3>2. QED
      BY <3>1, InPlaceShows
  <2>3. Recovered(durable') = Recovered(durable)
    BY <1>2, <2>1, <2>2
  <2>4. OpenGroup' = OpenGroup /\ Below' = Below
    BY <1>1, <1>3, WithoutJournal DEF OpenGroup, Below
  <2>5. QED
    BY <1>1, <2>3, <2>4 DEF StoreStep, Store!storeVars
<1>4. CASE ValidJournal(image) /\ ValidJournal(durable)
  <2>1. SameJournal(durable, image)
    BY <1>4 DEF Agreed
  <2>2. SameJournal(durable, durable')
    <3>1. \A c : durable[c] = image[c] => durable[c] = durable'[c]
      BY <1>1
    <3>2. QED
      BY <2>1, <3>1 DEF SameJournal
  <2>3. ValidJournal(durable') /\ Recovered(durable) = Recovered(durable')
    BY <1>2, <1>4, <2>2, SameCounts, RecoveredSame
  <2>4. OpenGroup' = OpenGroup /\ Below' = Below
    BY <1>1, <1>4, <2>3 DEF OpenGroup, Below
  <2>5. QED
    BY <1>1, <2>3, <2>4 DEF StoreStep, Store!storeVars
<1>5. CASE ~ ValidJournal(durable) /\ ~ ValidJournal(durable')
  <2>1. Recovered(durable') = Recovered(durable)
    BY <1>2, <1>5, WithoutJournal
  <2>2. OpenGroup' = OpenGroup /\ Below' = Below
    BY <1>1, <1>5 DEF OpenGroup, Below
  <2>3. QED
    BY <1>1, <2>1, <2>2 DEF StoreStep, Store!storeVars
<1>6. CASE ValidJournal(image) /\ ~ ValidJournal(durable) /\ ValidJournal(durable')
  <2>1. SameJournal(durable', image)
    BY <1>1, <1>6 DEF Agreed
  <2>2. Targets(durable') = Targets(image) /\ Targets(image) \in SUBSET Home
    BY <1>6, <2>1, RecordLayout DEF SameJournal, Targets, Range, TypeInv, TypeOK
  <2>3. ASSUME NEW c \in Home
        PROVE  Recovered(durable')[c] = IF c \in Targets(image) THEN Recovered(image)[c]
                                                                ELSE Recovered(durable)[c]
    <3> DEFINE targets == image[HeaderBlk].targets
               j == CHOOSE i \in DOMAIN targets : targets[i] = c
    <3>1. durable'[HeaderBlk].targets = targets
      BY <2>1 DEF SameJournal
    <3>2. CASE \E i \in DOMAIN targets : targets[i] = c
      <4>1. j \in DOMAIN targets
        BY <3>2
      <4>2. durable'[Slot(j)] = image[Slot(j)]
        BY <2>1, <3>1, <4>1 DEF SameJournal
      <4>3. Recovered(durable')[c] = durable'[Slot(j)] /\ Recovered(image)[c] = image[Slot(j)]
        BY <1>6, <3>1, <3>2 DEF Recovered
      <4>4. c \in Targets(image)
        BY <3>2 DEF Targets, Range
      <4>5. QED
        BY <4>2, <4>3, <4>4
    <3>3. CASE ~ \E i \in DOMAIN targets : targets[i] = c
      <4>1. c \notin Targets(image)
        BY <3>3 DEF Targets, Range
      <4>2. QED
        BY <1>2, <1>6, <2>2, <4>1, RecoveredAt
    <3>4. QED
      BY <3>2, <3>3
  <2>4. Recovered(durable') = [c \in Home |-> Recovered(durable')[c]]
    BY DEF Recovered
  <2>5. Recovered(durable') = [c \in Home |-> IF c \in Targets(image)
                                              THEN Recovered(image)[c] ELSE Recovered(durable)[c]]
    BY <2>3, <2>4
  <2>6. OpenGroup \subseteq Targets(image) /\ OpenGroup' = {} /\ Below' = Recovered(image)
    BY <1>1, <1>6 DEF OpenGroup, Below
  <2>7. Store!KeepView(Targets(image))
    BY <1>1, <2>5, <2>6 DEF Store!KeepView
  <2>8. QED
    BY <2>2, <2>7 DEF StoreStep, Store!Next
<1>7. QED
  BY <1>3, <1>4, <1>5, <1>6

\* A write that leaves the record as it is, while only journal blocks change.
LEMMA RecordKept ==
    ASSUME durable' = durable, \A b \in Home : image'[b] = image[b],
           SameJournal(image, image')
    PROVE  StoreStep
<1>1. (ValidJournal(image') <=> ValidJournal(image)) /\ Recovered(image) = Recovered(image')
  BY SameCounts, RecoveredSame
<1>2. Targets(image') = Targets(image)
  BY DEF Targets, SameJournal
<1>3. OpenGroup' = OpenGroup /\ Below' = Below
  BY <1>1, <1>2 DEF OpenGroup, Below
<1>4. QED
  BY <1>1, <1>3 DEF StoreStep, Store!storeVars

\* A write to the journal while none counts: none counts still, or it commits.
LEMMA RecordGrows ==
    ASSUME TypeInv, TypeInv', durable' = durable, \A b \in Home : image'[b] = image[b],
           ~ ValidJournal(image), ~ ValidJournal(durable)
    PROVE  StoreStep
<1>1. CASE ValidJournal(image')
  BY <1>1, CountingCommits
<1>2. CASE ~ ValidJournal(image')
  <2>1. Recovered(image') = Recovered(image)
    BY <1>2, WithoutJournal
  <2>2. QED
    BY <1>2, <2>1, ShowsTheSame
<1>3. QED
  BY <1>1, <1>2

\* A write to the journal is the store's group write, or none.
LEMMA RecordingSteps ==
    ASSUME StoreInv, TypeInv', ChecksumTells, WriteHeader \/ WriteImage \/ WriteCommit
    PROVE  StoreStep
<1> USE TxLayout, Layout DEF StoreInv, CommitInv
<1>1. durable' = durable /\ \A b \in Home : image'[b] = image[b]
  <2>1. next \in DOMAIN tx.targets \/ ~ WriteImage
    BY DEF WriteImage, LoopOver, Goto, TypeInv, LoopOK, TypeOK
  <2>2. Slot(next) \in Block \ Home \/ ~ WriteImage
    <3>1. next \in 1 .. MaxTxBlocks \/ ~ WriteImage
      BY <2>1, JournalAssumption
    <3>2. QED
      BY <3>1
  <2>3. QED
    BY <2>2 DEF WriteHeader, WriteImage, WriteCommit, LoopOver, Step, Goto, WriteBlock
<1>2. CASE WriteHeader
  <2>1. ~ ValidJournal(image) /\ ~ ValidJournal(durable)
    BY <1>2 DEF WriteHeader, Goto, QuietInv, ValidJournal
  <2>2. QED
    BY <1>1, <2>1, RecordGrows
<1>3. CASE (WriteImage \/ WriteCommit) /\ ~ ValidJournal(image)
  <2>1. pc \in {"images", "syncImages", "commit"}
    BY <1>3 DEF WriteImage, WriteCommit, LoopOver, Step, Goto
  <2>2. ~ ValidJournal(durable)
    BY <1>3, <2>1, UnderWay, SameCounts
  <2>3. QED
    BY <1>1, <1>3, <2>2, RecordGrows
<1>4. CASE (WriteImage \/ WriteCommit) /\ ValidJournal(image)
  <2>1. /\ pc \in {"images", "syncImages", "commit"} /\ image[HeaderBlk] = HeaderOf(tx)
        /\ image[HeaderBlk].targets = tx.targets
    BY <1>4 DEF WriteImage, WriteCommit, LoopOver, Step, Goto, PhaseInv, Recorded, HeaderOf
  <2>2. \A i \in DOMAIN tx.targets : image[Slot(i)] = tx.buffers[i]
    BY <1>4, <2>1 DEF ChecksumTells
  <2>3. CASE WriteImage
    <3>1. next \in DOMAIN tx.targets /\ image' = [image EXCEPT ![Slot(next)] = tx.buffers[next]]
      BY <2>3 DEF WriteImage, LoopOver, Goto, WriteBlock, TypeInv, LoopOK, TypeOK
    <3>2. SameJournal(image, image')
      BY <2>1, <2>2, <3>1 DEF SameJournal
    <3>3. QED
      BY <1>1, <3>2, RecordKept
  <2>4. CASE WriteCommit
    <3>1. image[CommitBlk] = CommitOf(tx)
      <4>1. image[CommitBlk].seq = tx.seq /\ image[CommitBlk].magic
        BY <1>4, <2>1 DEF ValidJournal, HeaderOf
      <4>2. image[CommitBlk] \in [magic : BOOLEAN, seq : Nat]
        BY DEF TypeInv, TypeOK, DiskTypeOK
      <4>3. image[CommitBlk].magic = TRUE
        BY <4>1, <4>2
      <4>4. QED
        BY <4>1, <4>2, <4>3 DEF CommitOf
    <3>2. image' = [image EXCEPT ![CommitBlk] = CommitOf(tx)]
      BY <2>4 DEF WriteCommit, WriteBlock
    <3>3. SameJournal(image, image')
      BY <2>1, <3>1, <3>2 DEF SameJournal
    <3>4. QED
      BY <1>1, <3>3, RecordKept
  <2>5. QED
    BY <1>4, <2>3, <2>4
<1>5. QED
  BY <1>2, <1>3, <1>4

\* Copying an image of the record home shows nothing new.
LEMMA CopyingSteps ==
    ASSUME StoreInv, ApplyImage \/ Replay PROVE StoreStep
<1> USE TxLayout, Layout DEF StoreInv, CommitInv
<1> DEFINE targets == image[HeaderBlk].targets
<1>1. ValidJournal(image) /\ ValidJournal(durable)
  <2>1. CASE ApplyImage
    BY <2>1, CommittedCounts
       DEF ApplyImage, LoopOver, Goto, PhaseInv, TypeInv, LoopOK, CommitSteps
  <2>2. CASE Replay
    <3>1. ValidJournal(image) /\ \A b \in Block \ Home : image[b] = durable[b]
      BY <2>2 DEF Replay, LoopOver, Goto, ReplayInv, MediumInv
    <3>2. SameJournal(image, durable)
      BY <3>1, RecordLayout DEF SameJournal, TypeInv, TypeOK
    <3>3. QED
      BY <3>1, <3>2, SameCounts
  <2>3. QED
    BY <2>1, <2>2
<1>2. /\ next \in DOMAIN targets /\ durable' = durable
      /\ image' = [image EXCEPT ![targets[next]] = image[Slot(next)]]
  <2>1. CASE ApplyImage
    <3>1. /\ Committed(image) /\ next \in DOMAIN tx.targets /\ durable' = durable
          /\ image' = [image EXCEPT ![tx.targets[next]] = tx.buffers[next]]
      BY <2>1 DEF ApplyImage, LoopOver, Goto, WriteBlock, PhaseInv, TypeInv, LoopOK, TypeOK
    <3>2. image[HeaderBlk].targets = tx.targets /\ image[Slot(next)] = tx.buffers[next]
      BY <3>1 DEF Committed, Recorded, Images, HeaderOf
    <3>3. QED
      BY <3>1, <3>2
  <2>2. CASE Replay
    <3>1. targets \in Seq(Home)
      BY DEF TypeInv, TypeOK, DiskTypeOK, Header
    <3>2. QED
      BY <2>2, <3>1 DEF Replay, LoopOver, Goto, WriteBlock, TypeInv, LoopOK, TypeOK
  <2>3. QED
    BY <2>1, <2>2
<1>3. \A i \in DOMAIN targets : /\ targets[i] \in Home
                                /\ Slot(i) \in (Block \ Home) \ {HeaderBlk, CommitBlk}
  BY <1>1, RecordLayout DEF TypeInv, TypeOK
<1>4. SameJournal(image, image')
  BY <1>2, <1>3 DEF SameJournal
<1>5. \A b \in Home : image'[b] = image[b] \/ b \in Targets(image)
  BY <1>2 DEF Targets, Range
<1>6. Recovered(image') = Recovered(image)
  BY <1>1, <1>4, <1>5, RecoveredSame
<1>7. QED
  BY <1>1, <1>2, <1>6, ShowsTheSame

\* Clearing a record shows nothing new: what it recorded is in place.
LEMMA ClearingSteps ==
    ASSUME StoreInv, ClearHeader \/ ClearCommit \/ RecClearHeader \/ RecClearCommit
    PROVE  StoreStep
<1> USE TxLayout, Layout DEF StoreInv, CommitInv
<1>1. durable' = durable /\ \A b \in Home : image'[b] = image[b]
  BY DEF ClearHeader, ClearCommit, RecClearHeader, RecClearCommit, Step, WriteBlock
<1>2. ~ ValidJournal(image')
  <2>1. ~ image'[HeaderBlk].magic
    BY DEF ClearHeader, ClearCommit, RecClearHeader, RecClearCommit, Step, Goto, WriteBlock,
           BlankHeader, QuietInv
  <2>2. QED
    BY <2>1 DEF ValidJournal
<1>3. ValidJournal(image) => Applied(image) /\ ValidJournal(durable)
  <2>1. CASE ClearHeader
    <3>1. Committed(image) /\ Committed(durable) /\ InPlace(image) /\ tx.targets # <<>>
      BY <2>1 DEF ClearHeader, Step, Goto, PhaseInv, TypeInv, LoopOK, CommitSteps
    <3>2. image[HeaderBlk].targets = tx.targets /\ Images(image)
      BY <3>1 DEF Committed, Recorded, HeaderOf
    <3>3. Applied(image)
      BY <3>1, <3>2 DEF Applied, InPlace, Images
    <3>4. QED
      BY <3>1, <3>3, CommittedCounts
  <2>2. CASE RecClearHeader
    BY <2>2 DEF RecClearHeader, Step, Goto, ReplayInv, MediumInv
  <2>3. CASE ClearCommit \/ RecClearCommit
    BY <2>3 DEF ClearCommit, RecClearCommit, Step, Goto, QuietInv, ValidJournal
  <2>4. QED
    BY <2>1, <2>2, <2>3
<1>4. Recovered(image') = Recovered(image)
  <2>1. Recovered(image) = [b \in Home |-> image[b]]
    BY <1>3, InPlaceShows
  <2>2. Recovered(image') = [b \in Home |-> image'[b]]
    BY <1>2, WithoutJournal
  <2>3. QED
    BY <1>1, <2>1, <2>2
<1>5. QED
  BY <1>1, <1>2, <1>3, <1>4, ShowsTheSame

\* Writes outside a transaction, the superblock's among them, are single puts.
LEMMA PuttingSteps ==
    ASSUME StoreInv, MountFlush \/ UnmountFlush
                     \/ \E dw \in DirectWrites : DirectWrite(dw[1], dw[2])
    PROVE  StoreStep
<1>1. TypeInv /\ ~ image[HeaderBlk].magic
  BY DEF StoreInv, CommitInv, QuietInv, MountFlush, UnmountFlush, DirectWrite, Step, Goto
<1>2. CASE MountFlush \/ UnmountFlush
  <2>1. \A state \in {Clean, Dirty} : Marked(state) \in Data
    <3>1. image[SuperBlk] \in Data /\ {Clean, Dirty} \subseteq Byte
      BY <1>1, Layout, JournalAssumption DEF TypeInv, TypeOK, DiskTypeOK
    <3>2. QED
      BY <3>1 DEF Marked, Data
  <2>2. SuperBlk \in Home
    BY Layout
  <2>3. QED
    BY <1>1, <1>2, <2>1, <2>2, WritingPuts DEF MountFlush, UnmountFlush
<1>3. CASE \E dw \in DirectWrites : DirectWrite(dw[1], dw[2])
  <2>1. PICK dw \in DirectWrites : DirectWrite(dw[1], dw[2])
    BY <1>3
  <2>2. dw[1] \in Home /\ dw[2] \in Data
    BY JournalAssumption
  <2>3. QED
    BY <1>1, <2>1, <2>2, WritingPuts DEF DirectWrite
<1>4. QED
  BY <1>2, <1>3

\* With power failures only, every step of the journal is one of the store, or none.
LEMMA Simulation ==
    ASSUME Faults \subseteq {"power"}, StoreInv, StoreInv', ChecksumTells, ChecksumTells',
           [Next]_vars
    PROVE  StoreStep
<1>1. TypeInv /\ TypeInv' /\ Agreed
  BY Agreement DEF StoreInv, CommitInv
<1>2. Agreed'
  BY Agreement, PTL
<1>3. CASE WriteHeader \/ WriteImage \/ WriteCommit
  BY <1>1, <1>3, RecordingSteps
<1>4. CASE ApplyImage \/ Replay
  BY <1>4, CopyingSteps
<1>5. CASE ClearHeader \/ ClearCommit \/ RecClearHeader \/ RecClearCommit
  BY <1>5, ClearingSteps
<1>6. CASE \/ MountFlush \/ UnmountFlush
           \/ \E dw \in DirectWrites : DirectWrite(dw[1], dw[2])
  BY <1>6, PuttingSteps
<1>7. CASE \/ SyncImages \/ SyncCommit \/ SyncApply \/ SyncClear \/ SyncReplay
           \/ RecSyncClear \/ MountSync \/ UnmountSync
  BY <1>1, <1>7, SyncKeepsAll DEF SyncImages, SyncCommit, SyncApply, SyncClear, SyncReplay,
     RecSyncClear, MountSync, UnmountSync
<1>8. CASE PowerFailure
  BY <1>8, LosingFalls DEF PowerFailure
<1>9. CASE \E b \in Block : KernelWriteback(b)
  <2>1. PICK b \in Block : KernelWriteback(b)
    BY <1>9
  <2>2. CASE b \in Home
    BY <1>1, <2>1, <2>2, WritebackKeepsOne DEF KernelWriteback
  <2>3. CASE b \notin Home
    BY <1>1, <1>2, <2>1, <2>3, WritebackKeepsGroup DEF KernelWriteback
  <2>4. QED
    BY <2>2, <2>3
<1>10. CASE \/ Stage \/ StageRefused \/ CommitNothing \/ NewProcess \/ Mount
            \/ \E w \in Workload : Begin(w)
  BY <1>10, NothingChanges
     DEF Stage, StageRefused, CommitNothing, NewProcess, Mount, Begin, deviceVars
<1>11. CASE Kill \/ IOError
  BY <1>11 DEF Kill, IOError, Fault
<1>12. CASE UNCHANGED vars
  BY <1>12, NothingChanges DEF vars, deviceVars
<1>13. QED
  BY <1>3, <1>4, <1>5, <1>6, <1>7, <1>8, <1>9, <1>10, <1>11, <1>12
     DEF Next, Committing, Mounting

\* The journal starts as the store does.
LEMMA StartsEmpty == Init => Store!Init
<1> SUFFICES ASSUME Init PROVE Store!Init
  OBVIOUS
<1>1. image = Formatted /\ durable = Formatted /\ DiskTypeOK(image)
  BY TypeInit DEF Init, TypeInv, TypeOK
<1>2. ~ ValidJournal(image)
  BY <1>1, Layout DEF Formatted, BlankHeader, ValidJournal
<1>3. Recovered(image) \in [Home -> Data]
  BY <1>1, RecoveredTypes
<1>4. QED
  BY <1>1, <1>2, <1>3, NothingOpen DEF Store!Init

\* In every behaviour with power failures in which the byte sum is not mistaken,
\* the journal is the atomic store: commits are all-or-nothing for readers, for
\* a later mount and across power failures.
THEOREM JournalIsAtomic ==
    ASSUME Faults \subseteq {"power"}
    PROVE  Spec /\ []ChecksumTells => ImplementsStore
<1>1. StoreInv /\ [Next]_vars => StoreInv'
  BY StoreInvStep
<1>2. StoreInv /\ StoreInv' /\ ChecksumTells /\ ChecksumTells' /\ [Next]_vars
         => [Store!Next]_(Store!storeVars)
  BY Simulation DEF StoreStep
<1>3. QED
  BY <1>1, <1>2, StoreInvInit, StartsEmpty, PTL DEF Spec, ImplementsStore, Store!Spec
----------------------------------------------------------------------------
(* Without faults no commit record outlives its transaction, so the byte   *)
(* sum has nothing to mistake.                                             *)

FreshInv ==
    /\ pc \in {"down", "mountFlush", "mountSync", "idle", "staging", "images", "syncImages",
               "commit", "unmountSync"} =>
          ~ image[CommitBlk].magic /\ ~ durable[CommitBlk].magic
    /\ pc = "syncClear" => ~ image[CommitBlk].magic
    /\ pc = "down" => ~ image[HeaderBlk].magic
    /\ pc \notin {"replay", "syncReplay", "recClearHeader", "recClearCommit", "recSyncClear"}

\* Without faults no commit record outlives its transaction.
LEMMA FreshStep ==
    ASSUME Faults = {} PROVE StoreInv /\ FreshInv /\ [Next]_vars => FreshInv'
<1> SUFFICES ASSUME StoreInv, FreshInv, [Next]_vars PROVE FreshInv'
  OBVIOUS
<1> USE TxLayout, Layout DEF StoreInv, CommitInv, FreshInv
<1>1. CASE WriteHeader \/ WriteCommit \/ ClearHeader \/ ClearCommit
  BY <1>1 DEF WriteHeader, WriteCommit, ClearHeader, ClearCommit, Step, Goto, WriteBlock,
              BlankCommit
<1>2. CASE WriteImage \/ ApplyImage
  <2>1. next \in DOMAIN tx.targets
    BY <1>2 DEF WriteImage, ApplyImage, LoopOver, Goto, TypeInv, LoopOK, TypeOK
  <2>2. image'[CommitBlk] = image[CommitBlk] /\ durable' = durable
    BY <1>2, <2>1 DEF WriteImage, ApplyImage, LoopOver, WriteBlock
  <2>3. QED
    BY <1>2, <2>2 DEF WriteImage, ApplyImage, LoopOver, Goto
<1>3. CASE SyncImages \/ SyncCommit \/ SyncApply \/ SyncClear \/ MountSync \/ UnmountSync
  BY <1>3 DEF SyncImages, SyncCommit, SyncApply, SyncClear, MountSync, UnmountSync, AbortTo,
              Step, Goto, SyncImage, QuietInv
<1>4. CASE \/ Replay \/ SyncReplay \/ RecClearHeader \/ RecClearCommit \/ RecSyncClear
           \/ Kill \/ PowerFailure \/ IOError
  BY <1>4 DEF Replay, SyncReplay, RecClearHeader, RecClearCommit, RecSyncClear, LoopOver, Step,
              Goto, Kill, PowerFailure, IOError, Fault
<1>5. CASE MountFlush \/ UnmountFlush
  BY <1>5 DEF MountFlush, UnmountFlush, Step, Goto, WriteBlock
<1>6. CASE \E dw \in DirectWrites : DirectWrite(dw[1], dw[2])
  <2>1. PICK dw \in DirectWrites : DirectWrite(dw[1], dw[2])
    BY <1>6
  <2>2. dw[1] \in Home
    BY JournalAssumption
  <2>3. QED
    BY <2>1, <2>2 DEF DirectWrite, Step, Goto, WriteBlock
<1>7. CASE Mount \/ Stage \/ StageRefused \/ CommitNothing \/ NewProcess
           \/ \E w \in Workload : Begin(w)
  BY <1>7 DEF Mount, Stage, StageRefused, CommitNothing, NewProcess, Begin, AbortTo, Goto,
              deviceVars
<1>8. CASE \E b \in Block : KernelWriteback(b)
  <2>1. /\ durable'[CommitBlk] \in {durable[CommitBlk], image[CommitBlk]}
        /\ UNCHANGED <<image, pc>>
    BY <1>8 DEF KernelWriteback, Writeback
  <2>2. QED
    BY <2>1
<1>9. CASE UNCHANGED vars
  BY <1>9 DEF vars
<1>10. QED
  BY <1>1, <1>2, <1>3, <1>4, <1>5, <1>6, <1>7, <1>8, <1>9 DEF Next, Committing, Mounting

\* As long as nothing fails, the journal is the atomic store without a proviso:
\* the first power failure, whenever it comes, finds every commit whole or not
\* at all, whatever the kernel wrote back before it.
THEOREM JournalIsAtomicUntilItFails ==
    ASSUME Faults = {}
    PROVE  Spec => ImplementsStore
<1>1. Faults \subseteq {"power"}
  OBVIOUS
<1>2. StoreInv /\ [Next]_vars => StoreInv'
  BY <1>1, StoreInvStep
<1>3. Init => FreshInv
  BY Layout DEF Init, FreshInv, Formatted, BlankHeader, BlankCommit
<1>4. StoreInv /\ FreshInv /\ [Next]_vars => FreshInv'
  BY FreshStep
<1>5. FreshInv => ChecksumTells
  BY DEF FreshInv, ChecksumTells, ValidJournal
<1>6. Spec => []ChecksumTells
  BY <1>2, <1>3, <1>4, <1>5, StoreInvInit, PTL DEF Spec
<1>7. QED
  BY <1>1, <1>6, JournalIsAtomic
=============================================================================
