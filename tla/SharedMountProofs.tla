------------------------- MODULE SharedMountProofs -------------------------
(***************************************************************************)
(* Mounts that keep apart from the operations of other processes undo      *)
(* nothing, whatever dies: any number of processes, operations and mounts. *)
(***************************************************************************)
EXTENDS SharedMount, TLAPS

\* Where an operation is: its image of the block taken, a commit begun, its
\* change in the table.
Committing == {"header", "image", "commit", "apply", "clearHeader", "clearCommit"}
Taken == {"write", "header", "image", "commit", "apply"}
Written == {"clearHeader", "clearCommit", "return"}
Operating == {"read", "write", "header", "image", "commit", "apply",
              "clearHeader", "clearCommit", "return"}
\* Where a mount is that found a journal.
Replaying == {"recoverCommit", "verify", "load", "replay", "recoverClearHeader",
              "recoverClearCommit"}

Ops == Procs \X (1 .. MaxOps)
BlockImage == [ops : SUBSET Ops, atimes : SUBSET Ops]

TypeInv ==
    /\ rule \in Mounts
    /\ disk \in [table : BlockImage, header : [seq : Nat, sum : BlockImage],
                 image : BlockImage, commit : Nat]
    /\ pc \in [Procs -> {Unmounted, "mounted", "recover"} \cup Operating \cup Replaying]
    /\ kind \in [Procs -> {"none", "direct", "journal", "readlink"}]
    /\ lock \in [Procs -> {"none", "read", "write"}]
    /\ buffer \in [Procs -> BlockImage] /\ header \in [Procs -> [seq : Nat, sum : BlockImage]]
    /\ seq \in [Procs -> Nat \ {0}]
    /\ calls \in [Procs -> 0 .. MaxOps] /\ mounts \in [Procs -> 0 .. MaxMounts]
    /\ done \subseteq Ops

\* An operation in progress has the lock it asked for, and a writer's is the only one.
LockInv ==
    /\ \A p \in Procs :
          /\ pc[p] \in Operating =>
                /\ calls[p] > 0 /\ kind[p] # "none"
                /\ lock[p] = IF kind[p] = "readlink" THEN "read" ELSE "write"
          /\ pc[p] \in Committing => kind[p] = "journal"
          /\ pc[p] \notin Operating => lock[p] = "none"
    /\ \A p, q \in Procs : p # q /\ lock[p] = "write" => lock[q] = "none"

AccessInv == TypeInv /\ LockInv

\* The table has what has returned success, and what an operation is about to
\* write home is what the table has, with the operation's own change.
ImageInv(p) ==
    /\ pc[p] \in Taken =>
          buffer[p].ops = IF kind[p] = "readlink" THEN disk.table.ops
                                                  ELSE disk.table.ops \cup {Op(p)}
    /\ pc[p] \in Written /\ kind[p] # "readlink" => Op(p) \in disk.table.ops

TableInv == done \subseteq disk.table.ops /\ \A p \in Procs : ImageInv(p)

\* Nothing shows an operation that has not begun.
KnownInv ==
    \A p \in Procs : \A i \in 1 .. MaxOps : i > calls[p] =>
        /\ <<p, i>> \notin disk.table.ops /\ <<p, i>> \notin disk.image.ops
        /\ \A q \in Procs : <<p, i>> \notin buffer[q].ops

\* "first": whoever mounts finds an image nobody has written to.
FirstInv ==
    rule = "first" =>
        /\ \A p \in Procs : pc[p] \notin Replaying
        /\ (\E p \in Procs : pc[p] = "recover") => \A q \in Procs : calls[q] = 0
        /\ (\A q \in Procs : calls[q] = 0) => disk.header = Cleared

\* "alone": a journal whose image verifies, left behind by a process that died,
\* has everything that has returned success, until a mount has cleared it.
JournalInv ==
    disk.header # Cleared /\ disk.image = disk.header.sum => done \subseteq disk.image.ops

\* What the process that has the image to itself knows of the journal.
PhaseInv(p) ==
    /\ pc[p] \in {"mounted", "read", "write", "header", "clearCommit", "return",
                  "recoverClearCommit"} => disk.header = Cleared
    /\ pc[p] \in {"read", "header", "image"} => Op(p) \notin disk.image.ops
    /\ pc[p] = "image" => Op(p) \in disk.header.sum.ops
    /\ pc[p] \in {"recoverCommit", "verify"} => header[p] = disk.header /\ disk.header # Cleared
    /\ pc[p] \in {"load", "replay"} => disk.header # Cleared /\ disk.image = disk.header.sum
    /\ pc[p] = "replay" => buffer[p] = disk.image

AloneInv ==
    rule = "alone" =>
        /\ \A p, q \in Procs : pc[p] # Unmounted /\ pc[q] # Unmounted => p = q
        /\ JournalInv
        /\ \A p \in Procs : PhaseInv(p)

Inv == AccessInv /\ TableInv /\ KnownInv /\ FirstInv /\ AloneInv
----------------------------------------------------------------------------
\* Locks and types hold at the start.
LEMMA AccessInit == Init => AccessInv
<1> SUFFICES ASSUME Init PROVE AccessInv
  OBVIOUS
<1>1. Empty \in BlockImage /\ Cleared \in [seq : Nat, sum : BlockImage]
  BY DEF Empty, Cleared, BlockImage
<1>2. TypeInv
  BY <1>1, SharedMountAssumption DEF Init, TypeInv
<1>3. LockInv
  BY DEF Init, LockInv, Operating, Committing, Unmounted
<1>4. QED
  BY <1>2, <1>3 DEF AccessInv

\* What an operation makes of the block it reads.
LEMMA Images ==
    ASSUME AccessInv, NEW p \in Procs, pc[p] \in Operating
    PROVE  /\ Op(p) \in Ops /\ Image(p) \in BlockImage
           /\ Image(p).ops = IF kind[p] = "readlink" THEN disk.table.ops
                                                     ELSE disk.table.ops \cup {Op(p)}
<1>1. calls[p] \in 0 .. MaxOps /\ calls[p] > 0
  BY DEF AccessInv, TypeInv, LockInv
<1>2. MaxOps \in Nat
  BY SharedMountAssumption
<1>3. Op(p) \in Ops
  BY <1>1, <1>2 DEF Op, Ops
<1>4. disk.table \in BlockImage
  BY DEF AccessInv, TypeInv
<1>5. QED
  BY <1>3, <1>4 DEF Image, BlockImage

\* The types, and the locks that fcntl grants.
LEMMA AccessOperation ==
    ASSUME AccessInv, NEW p \in Procs, Operation(p), UNCHANGED rule
    PROVE  AccessInv'
<1> USE DEF AccessInv
<1>1. CASE \E k \in Kinds : Begin(p, k)
  <2>1. PICK k \in Kinds : Begin(p, k)
    BY <1>1
  <2>2. calls[p] + 1 \in 0 .. MaxOps /\ calls[p] + 1 > 0
    <3>1. calls[p] \in 0 .. MaxOps /\ MaxOps \in Nat /\ calls[p] < MaxOps
      BY <2>1, SharedMountAssumption DEF TypeInv, Begin
    <3>2. QED
      BY <3>1
  <2>3. k \in {"direct", "journal", "readlink"}
    BY SharedMountAssumption
  <2>4. TypeInv'
    BY <2>1, <2>2, <2>3 DEF TypeInv, Begin, Goto, Operating
  <2>5. LockInv'
    BY <2>1, <2>2, <2>3 DEF TypeInv, LockInv, Begin, Grantable, Goto, Operating, Committing
  <2>6. QED
    BY <2>4, <2>5
<1>2. CASE ReadBlock(p)
  <2>1. Image(p) \in BlockImage
    BY <1>2, Images DEF ReadBlock, Goto, Operating
  <2>2. seq' \in [Procs -> Nat \ {0}]
    <3>1. \A q \in Procs : seq[q] + 1 \in Nat \ {0}
      BY DEF TypeInv
    <3>2. QED
      BY <1>2, <3>1 DEF ReadBlock, TypeInv
  <2>3. TypeInv'
    BY <1>2, <2>1, <2>2 DEF TypeInv, ReadBlock, Goto, Operating, countVars
  <2>4. LockInv'
    BY <1>2 DEF TypeInv, LockInv, ReadBlock, Goto, Operating, Committing, countVars
  <2>5. QED
    BY <2>3, <2>4
<1>3. CASE Commit(p) \/ DirectWrite(p)
  <2>1. PICK from \in Operating, to \in Operating, d \in [table : BlockImage,
               header : [seq : Nat, sum : BlockImage], image : BlockImage, commit : Nat] :
          /\ Writing(p, from, to, d)
          /\ to \in Committing => from \in Committing
    <3>1. seq[p] - 1 \in Nat /\ 0 \in Nat
      BY DEF TypeInv
    <3>2. buffer[p] \in BlockImage
      BY DEF TypeInv
    <3>3. Cleared \in [seq : Nat, sum : BlockImage]
      BY DEF Cleared, Empty, BlockImage
    <3>4. QED
      BY <1>3, <3>1, <3>2, <3>3 DEF Commit, DirectWrite, TypeInv, Operating, Committing
  <2>2. TypeInv'
    BY <2>1 DEF TypeInv, Writing, Goto, countVars
  <2>3. LockInv'
    BY <2>1 DEF TypeInv, LockInv, Writing, Goto, countVars
  <2>4. QED
    BY <2>2, <2>3
<1>4. CASE Return(p)
  <2>1. Op(p) \in Ops
    BY <1>4, Images DEF Return, Goto, Operating
  <2>2. Empty \in BlockImage
    BY DEF Empty, BlockImage
  <2>3. TypeInv'
    BY <1>4, <2>1, <2>2 DEF TypeInv, Return, Goto
  <2>4. LockInv'
    BY <1>4 DEF TypeInv, LockInv, Return, Goto, Operating, Committing
  <2>5. QED
    BY <2>3, <2>4
<1>5. QED
  BY <1>1, <1>2, <1>3, <1>4 DEF Operation

\* Mounting, unmounting and dying keep them.
LEMMA AccessMounting ==
    ASSUME AccessInv, NEW p \in Procs, Mounting(p) \/ Unmount(p) \/ Die(p), UNCHANGED rule
    PROVE  AccessInv'
<1> USE DEF AccessInv
<1>1. Empty \in BlockImage /\ Cleared \in [seq : Nat, sum : BlockImage]
  BY DEF Empty, Cleared, BlockImage
<1>2. CASE Mount(p)
  <2>1. mounts[p] + 1 \in 0 .. MaxMounts
    <3>1. mounts[p] \in 0 .. MaxMounts /\ MaxMounts \in Nat /\ mounts[p] < MaxMounts
      BY <1>2, SharedMountAssumption DEF TypeInv, Mount
    <3>2. QED
      BY <3>1
  <2>2. TypeInv'
    BY <1>2, <2>1 DEF TypeInv, Mount, Goto
  <2>3. LockInv'
    BY <1>2 DEF TypeInv, LockInv, Mount, Goto, Operating, Committing, Unmounted
  <2>4. QED
    BY <2>2, <2>3
<1>3. CASE RecoverHeader(p) \/ RecoverCommit(p) \/ Verify(p) \/ Load(p) \/ Unmount(p)
  <2>1. TypeInv'
    BY <1>3 DEF TypeInv, RecoverHeader, RecoverCommit, Verify, Load, Unmount, Goto, Replaying,
                countVars
  <2>2. LockInv'
    BY <1>3 DEF TypeInv, LockInv, RecoverHeader, RecoverCommit, Verify, Load, Unmount, Goto,
                Operating, Committing, Unmounted, countVars
  <2>3. QED
    BY <2>1, <2>2
<1>4. CASE Replay(p)
  <2>1. TypeInv'
    <3>1. PICK to \in {"recoverClearHeader", "recoverClearCommit", "mounted"},
               d \in [table : BlockImage, header : [seq : Nat, sum : BlockImage],
                      image : BlockImage, commit : Nat] :
            pc' = [pc EXCEPT ![p] = to] /\ disk' = d
      <4>1. buffer[p] \in BlockImage /\ 0 \in Nat
        BY DEF TypeInv
      <4>2. QED
        BY <1>1, <1>4, <4>1 DEF TypeInv, Replay, Writing, Goto
    <3>2. QED
      BY <1>4, <3>1 DEF TypeInv, Replay, Writing, Replaying, countVars
  <2>2. LockInv'
    BY <1>4 DEF TypeInv, LockInv, Replay, Writing, Goto, Operating, Committing, countVars
  <2>3. QED
    BY <2>1, <2>2
<1>5. CASE Die(p)
  <2>1. TypeInv'
    BY <1>1, <1>5 DEF TypeInv, Die, countVars
  <2>2. LockInv'
    BY <1>5 DEF TypeInv, LockInv, Die, Operating, Committing, Unmounted, countVars
  <2>3. QED
    BY <2>1, <2>2
<1>6. QED
  BY <1>2, <1>3, <1>4, <1>5 DEF Mounting

\* Every step keeps them.
LEMMA AccessStep == AccessInv /\ [Next]_vars => AccessInv'
<1> SUFFICES ASSUME AccessInv, [Next]_vars PROVE AccessInv'
  OBVIOUS
<1>1. CASE Next
  BY <1>1, AccessOperation, AccessMounting DEF Next
<1>2. CASE UNCHANGED vars
  BY <1>2 DEF vars, AccessInv, TypeInv, LockInv
<1>3. QED
  BY <1>1, <1>2

\* The types, and a writer alone with its lock, for every number of processes
\* and whenever callers mount.
THEOREM LocksAndTypes == Spec => []TypeOK
<1>1. AccessInv => TypeOK
  BY DEF AccessInv, TypeInv, LockInv, TypeOK, BlockImage, Ops
<1>2. QED
  BY <1>1, AccessInit, AccessStep, PTL DEF Spec
----------------------------------------------------------------------------
\* Operations show up where they are written, and are written once they have begun.
LEMMA KnownStep == AccessInv /\ KnownInv /\ Next => KnownInv'
<1> SUFFICES ASSUME AccessInv, KnownInv, Next PROVE KnownInv'
  OBVIOUS
<1> USE DEF KnownInv
<1>0. PICK p \in Procs : Operation(p) \/ Mounting(p) \/ Unmount(p) \/ Die(p)
  BY DEF Next
<1>1. CASE \E k \in Kinds : Begin(p, k)
  <2>1. PICK k \in Kinds : Begin(p, k)
    BY <1>1
  <2>2. calls[p] \in Nat /\ calls' = [calls EXCEPT ![p] = calls[p] + 1] /\ disk' = disk /\ buffer' = buffer
    BY <2>1 DEF AccessInv, TypeInv, Begin
  <2>3. \A i \in 1 .. MaxOps : i > calls[p] + 1 => i > calls[p]
    BY <2>2
  <2>4. \A q \in Procs : \A i \in 1 .. MaxOps : i > calls'[q] => i > calls[q]
    BY <2>2, <2>3 DEF AccessInv, TypeInv
  <2>5. QED
    BY <2>2, <2>4
<1>2. CASE ReadBlock(p)
  <2>1. /\ buffer' = [buffer EXCEPT ![p] = Image(p)] /\ disk' = disk /\ calls' = calls
        /\ pc[p] \in Operating
    BY <1>2 DEF ReadBlock, Goto, Operating, countVars
  <2>2. Image(p).ops \subseteq disk.table.ops \cup {Op(p)}
    BY <2>1, Images
  <2>3. \A i \in 1 .. MaxOps : i > calls[p] => i # calls[p]
    BY DEF AccessInv, TypeInv
  <2>4. \A q \in Procs : \A i \in 1 .. MaxOps : i > calls[q] => <<q, i>> # Op(p)
    BY <2>3 DEF Op
  <2>5. \A q \in Procs : buffer'[q] = IF q = p THEN Image(p) ELSE buffer[q]
    BY <2>1 DEF AccessInv, TypeInv
  <2>6. SUFFICES ASSUME NEW q \in Procs, NEW i \in 1 .. MaxOps, i > calls[q], NEW r \in Procs
                 PROVE  <<q, i>> \notin buffer'[r].ops
    BY <2>1
  <2>7. <<q, i>> \notin Image(p).ops /\ <<q, i>> \notin buffer[r].ops
    BY <2>2, <2>4, <2>6
  <2>8. QED
    BY <2>5, <2>7
<1>3. CASE Commit(p) \/ DirectWrite(p) \/ Replay(p)
  <2>1. /\ disk'.table \in {disk.table, buffer[p]} /\ disk'.image \in {disk.image, buffer[p]}
        /\ buffer' = buffer /\ calls' = calls
    BY <1>3 DEF AccessInv, TypeInv, Commit, DirectWrite, Replay, Writing, countVars
  <2>2. QED
    BY <2>1
<1>4. CASE Return(p) \/ Die(p)
  <2>1. disk' = disk /\ calls' = calls /\ buffer' = [buffer EXCEPT ![p] = Empty]
    BY <1>4 DEF Return, Die, countVars
  <2>2. QED
    BY <2>1 DEF AccessInv, TypeInv, Empty
<1>5. CASE Load(p)
  <2>1. disk' = disk /\ calls' = calls /\ buffer' = [buffer EXCEPT ![p] = disk.image]
    BY <1>5 DEF Load, countVars
  <2>2. QED
    BY <2>1 DEF AccessInv, TypeInv
<1>6. CASE Mount(p) \/ RecoverHeader(p) \/ RecoverCommit(p) \/ Verify(p) \/ Unmount(p)
  BY <1>6 DEF Mount, RecoverHeader, RecoverCommit, Verify, Unmount, countVars
<1>7. QED
  BY <1>0, <1>1, <1>2, <1>3, <1>4, <1>5, <1>6 DEF Operation, Mounting

\* Under "first", operations begin when nobody is mounting any more, and nobody
\* mounts any more when they have begun.
LEMMA FirstStep == AccessInv /\ FirstInv /\ Next => FirstInv'
<1> SUFFICES ASSUME AccessInv, FirstInv, Next, rule = "first" PROVE FirstInv'
  BY DEF FirstInv, Next
<1> USE DEF FirstInv
<1>0. PICK p \in Procs : Operation(p) \/ Mounting(p) \/ Unmount(p) \/ Die(p)
  BY DEF Next
<1>1. CASE \E k \in Kinds : Begin(p, k)
  <2>1. PICK k \in Kinds : Begin(p, k)
    BY <1>1
  <2>2. \A q \in Procs : pc[q] # "recover" /\ pc'[q] \notin {"recover"} \cup Replaying
    BY <2>1 DEF AccessInv, TypeInv, Begin, Goto, Recovering, Replaying
  <2>3. calls'[p] # 0
    <3>1. calls[p] \in Nat
      BY DEF AccessInv, TypeInv
    <3>2. QED
      BY <2>1, <3>1 DEF Begin, AccessInv, TypeInv
  <2>4. QED
    BY <2>2, <2>3
<1>2. CASE pc[p] \in Operating /\ (ReadBlock(p) \/ Commit(p) \/ DirectWrite(p) \/ Return(p))
  <2>1. calls[p] # 0
    BY <1>2 DEF AccessInv, TypeInv, LockInv
  <2>2. PICK to \in {"mounted"} \cup Operating : pc' = [pc EXCEPT ![p] = to]
    BY <1>2 DEF ReadBlock, Commit, DirectWrite, Return, Writing, Goto, Operating
  <2>3. calls' = calls
    BY <1>2 DEF ReadBlock, Commit, DirectWrite, Return, Writing, countVars
  <2>4. to \notin Replaying /\ to # "recover"
    BY DEF Operating, Replaying
  <2>5. QED
    BY <2>1, <2>2, <2>3, <2>4 DEF AccessInv, TypeInv
<1>3. CASE Mount(p)
  BY <1>3 DEF AccessInv, TypeInv, Mount, Goto, Replaying
<1>4. CASE RecoverHeader(p)
  <2>1. pc[p] = "recover" /\ disk.header = Cleared
    BY <1>4 DEF RecoverHeader, Goto
  <2>2. pc' = [pc EXCEPT ![p] = "mounted"] /\ disk' = disk /\ calls' = calls
    BY <1>4, <2>1 DEF RecoverHeader, Goto, countVars
  <2>3. QED
    BY <2>2 DEF AccessInv, TypeInv, Replaying
<1>5. CASE Unmount(p) \/ Die(p)
  BY <1>5 DEF AccessInv, TypeInv, Unmount, Die, Goto, Unmounted, Replaying, countVars
<1>6. ~ (RecoverCommit(p) \/ Verify(p) \/ Load(p) \/ Replay(p))
  BY DEF RecoverCommit, Verify, Load, Replay, Writing, Goto, Replaying
<1>7. (ReadBlock(p) \/ Commit(p) \/ DirectWrite(p) \/ Return(p)) => pc[p] \in Operating
  BY DEF ReadBlock, Commit, DirectWrite, Return, Writing, Goto, Operating
<1>8. QED
  BY <1>0, <1>1, <1>2, <1>3, <1>4, <1>5, <1>6, <1>7 DEF Operation, Mounting

\* Under "alone", a process finds the journal as the last one left it.
LEMMA AloneStep ==
    ASSUME AccessInv, TableInv, KnownInv, AloneInv, rule = "alone", UNCHANGED rule,
           NEW p \in Procs, Operation(p) \/ Mounting(p) \/ Unmount(p) \/ Die(p)
    PROVE  AloneInv'
<1>1. \A q \in Procs \ {p} : pc[q] = Unmounted
  <2>1. CASE Mount(p)
    BY <2>1 DEF Mount
  <2>2. CASE ~ Mount(p)
    <3>1. pc[p] # Unmounted
      BY <2>2 DEF Operation, Begin, ReadBlock, Commit, DirectWrite, Return, Mounting, RecoverHeader,
                  RecoverCommit, Verify, Load, Replay, Writing, Unmount, Die, Goto, Unmounted
    <3>2. QED
      BY <3>1 DEF AloneInv
  <2>3. QED
    BY <2>1, <2>2
<1>2. \A q \in Procs \ {p} : pc'[q] = pc[q]
  BY DEF AccessInv, TypeInv, Operation, Begin, ReadBlock, Commit, DirectWrite, Return, Mounting,
         Mount, RecoverHeader, RecoverCommit, Verify, Load, Replay, Writing, Unmount, Die, Goto
<1>3. \A q \in Procs \ {p} : PhaseInv(q)'
  BY <1>1, <1>2 DEF PhaseInv, Unmounted
<1>4. SUFFICES PhaseInv(p)' /\ JournalInv'
  BY <1>1, <1>2, <1>3 DEF AloneInv
<1>5. PhaseInv(p) /\ JournalInv
  BY DEF AloneInv
<1>6. CASE \E k \in Kinds : Begin(p, k)
  <2>1. PICK k \in Kinds : Begin(p, k)
    BY <1>6
  <2>2. /\ pc[p] = "mounted" /\ pc'[p] = "read" /\ disk' = disk /\ done' = done
        /\ calls[p] < MaxOps /\ calls'[p] = calls[p] + 1
    BY <2>1 DEF AccessInv, TypeInv, Begin, Goto
  <2>3. calls[p] + 1 \in 1 .. MaxOps /\ calls[p] + 1 > calls[p]
    <3>1. calls[p] \in 0 .. MaxOps /\ MaxOps \in Nat
      BY SharedMountAssumption DEF AccessInv, TypeInv
    <3>2. QED
      BY <2>2, <3>1
  <2>4. <<p, calls[p] + 1>> \notin disk.image.ops
    BY <2>3 DEF KnownInv
  <2>5. QED
    BY <1>5, <2>2, <2>4 DEF PhaseInv, JournalInv, Op
<1>7. CASE ReadBlock(p)
  <2>1. /\ pc[p] = "read" /\ pc'[p] \in {"header", "write"} /\ disk' = disk /\ done' = done
        /\ calls' = calls
    BY <1>7 DEF AccessInv, TypeInv, ReadBlock, Goto, countVars
  <2>2. QED
    BY <1>5, <2>1 DEF PhaseInv, JournalInv, Op
<1>8. CASE Commit(p)
  <2>1. buffer' = buffer /\ done' = done /\ calls' = calls /\ kind[p] = "journal"
    BY <1>8 DEF AccessInv, LockInv, Commit, Writing, countVars, Goto, Committing
  <2>2. pc[p] \in Taken => Op(p) \in buffer[p].ops /\ done \subseteq buffer[p].ops
    BY <2>1 DEF TableInv, ImageInv
  <2>3. CASE Writing(p, "header", "image", [disk EXCEPT !.header = [seq |-> seq[p] - 1, sum |-> buffer[p]]])
    <3>1. /\ pc[p] = "header" /\ pc'[p] = "image" /\ disk'.header.sum = buffer[p]
          /\ disk'.image = disk.image
      BY <2>3 DEF AccessInv, TypeInv, Writing, Goto
    <3>2. Op(p) \in buffer[p].ops /\ Op(p) \notin disk.image.ops
      BY <1>5, <2>2, <3>1 DEF PhaseInv, Taken
    <3>3. QED
      BY <2>1, <3>1, <3>2 DEF PhaseInv, JournalInv, Op
  <2>4. CASE Writing(p, "image", "commit", [disk EXCEPT !.image = buffer[p]])
    <3>1. pc[p] = "image" /\ pc'[p] = "commit" /\ disk'.image = buffer[p]
      BY <2>4 DEF AccessInv, TypeInv, Writing, Goto
    <3>2. done \subseteq buffer[p].ops
      BY <2>2, <3>1 DEF Taken
    <3>3. QED
      BY <2>1, <3>1, <3>2 DEF PhaseInv, JournalInv
  <2>5. CASE \/ Writing(p, "commit", "apply", [disk EXCEPT !.commit = seq[p] - 1])
             \/ Writing(p, "apply", "clearHeader", [disk EXCEPT !.table = buffer[p]])
    <3>1. /\ pc'[p] \in {"apply", "clearHeader"}
          /\ disk'.image = disk.image /\ disk'.header = disk.header
      BY <2>5 DEF AccessInv, TypeInv, Writing, Goto
    <3>2. QED
      BY <1>5, <2>1, <3>1 DEF PhaseInv, JournalInv
  <2>6. CASE Writing(p, "clearHeader", "clearCommit", [disk EXCEPT !.header = Cleared])
    <3>1. pc'[p] = "clearCommit" /\ disk'.header = Cleared
      BY <2>6 DEF AccessInv, TypeInv, Writing, Goto
    <3>2. QED
      BY <3>1 DEF PhaseInv, JournalInv
  <2>7. CASE Writing(p, "clearCommit", "return", [disk EXCEPT !.commit = 0])
    <3>1. pc[p] = "clearCommit" /\ pc'[p] = "return" /\ disk'.header = disk.header
      BY <2>7 DEF AccessInv, TypeInv, Writing, Goto
    <3>2. QED
      BY <1>5, <3>1 DEF PhaseInv, JournalInv
  <2>8. QED
    BY <1>8, <2>3, <2>4, <2>5, <2>6, <2>7 DEF Commit
<1>9. CASE DirectWrite(p) \/ Return(p)
  <2>1. /\ pc[p] \in {"write", "return"} /\ pc'[p] \in {"return", "mounted"}
        /\ disk'.header = disk.header
    BY <1>9 DEF AccessInv, TypeInv, DirectWrite, Return, Writing, Goto
  <2>2. QED
    BY <1>5, <2>1 DEF PhaseInv, JournalInv
<1>10. CASE Mount(p) \/ RecoverHeader(p) \/ RecoverCommit(p) \/ Verify(p) \/ Load(p)
  <2>1. disk' = disk /\ done' = done
    BY <1>10 DEF Mount, RecoverHeader, RecoverCommit, Verify, Load, countVars
  <2>2. CASE Mount(p)
    BY <1>5, <2>1, <2>2 DEF AccessInv, TypeInv, Mount, Goto, PhaseInv, JournalInv
  <2>3. CASE RecoverHeader(p)
    <3>1. /\ header'[p] = disk.header
          /\ pc'[p] = IF disk.header = Cleared THEN "mounted" ELSE "recoverCommit"
      BY <2>3 DEF AccessInv, TypeInv, RecoverHeader, Goto
    <3>2. QED
      BY <1>5, <2>1, <3>1 DEF PhaseInv, JournalInv
  <2>4. CASE RecoverCommit(p)
    <3>1. pc[p] = "recoverCommit" /\ pc'[p] \in {"verify", "recoverClearHeader"} /\ header' = header
      BY <2>4 DEF AccessInv, TypeInv, RecoverCommit, Goto
    <3>2. QED
      BY <1>5, <2>1, <3>1 DEF PhaseInv, JournalInv
  <2>5. CASE Verify(p)
    <3>1. /\ pc[p] = "verify"
          /\ pc'[p] = IF disk.image = header[p].sum THEN "load" ELSE "recoverClearHeader"
      BY <2>5 DEF AccessInv, TypeInv, Verify, Goto
    <3>2. QED
      BY <1>5, <2>1, <3>1 DEF PhaseInv, JournalInv
  <2>6. CASE Load(p)
    <3>1. pc[p] = "load" /\ pc'[p] = "replay" /\ buffer'[p] = disk.image
      BY <2>6 DEF AccessInv, TypeInv, Load, Goto
    <3>2. QED
      BY <1>5, <2>1, <3>1 DEF PhaseInv, JournalInv
  <2>7. QED
    BY <1>10, <2>2, <2>3, <2>4, <2>5, <2>6
<1>11. CASE Replay(p)
  <2>1. done' = done
    BY <1>11 DEF Replay, Writing, countVars
  <2>2. CASE Writing(p, "replay", "recoverClearHeader", [disk EXCEPT !.table = buffer[p]])
    <3>1. /\ pc'[p] = "recoverClearHeader"
          /\ disk'.image = disk.image /\ disk'.header = disk.header
      BY <2>2 DEF AccessInv, TypeInv, Writing, Goto
    <3>2. QED
      BY <1>5, <2>1, <3>1 DEF PhaseInv, JournalInv
  <2>3. CASE Writing(p, "recoverClearHeader", "recoverClearCommit", [disk EXCEPT !.header = Cleared])
    <3>1. pc'[p] = "recoverClearCommit" /\ disk'.header = Cleared
      BY <2>3 DEF AccessInv, TypeInv, Writing, Goto
    <3>2. QED
      BY <3>1 DEF PhaseInv, JournalInv
  <2>4. CASE Writing(p, "recoverClearCommit", "mounted", [disk EXCEPT !.commit = 0])
    <3>1. pc[p] = "recoverClearCommit" /\ pc'[p] = "mounted" /\ disk'.header = disk.header
      BY <2>4 DEF AccessInv, TypeInv, Writing, Goto
    <3>2. QED
      BY <1>5, <3>1 DEF PhaseInv, JournalInv
  <2>5. QED
    BY <1>11, <2>2, <2>3, <2>4 DEF Replay
<1>12. CASE Unmount(p) \/ Die(p)
  <2>1. disk' = disk /\ done' = done /\ pc'[p] = Unmounted
    BY <1>12 DEF AccessInv, TypeInv, Unmount, Die, Goto, countVars
  <2>2. QED
    BY <1>5, <2>1 DEF PhaseInv, JournalInv, Unmounted
<1>13. QED
  BY <1>6, <1>7, <1>8, <1>9, <1>10, <1>11, <1>12 DEF Operation, Mounting

\* What changes the table adds an operation to it, or replays an image that has
\* all of those that have returned.
LEMMA TableStep ==
    ASSUME AccessInv, TableInv, FirstInv, AloneInv, rule \in {"first", "alone"}, UNCHANGED rule,
           NEW p \in Procs, Operation(p) \/ Mounting(p) \/ Unmount(p) \/ Die(p)
    PROVE  TableInv'
<1>1. ASSUME NEW q \in Procs \ {p}
      PROVE  pc'[q] = pc[q] /\ kind'[q] = kind[q] /\ buffer'[q] = buffer[q] /\ Op(q)' = Op(q)
  BY DEF AccessInv, TypeInv, Operation, Begin, ReadBlock, Commit, DirectWrite, Return, Mounting,
         Mount, RecoverHeader, RecoverCommit, Verify, Load, Replay, Writing, Unmount, Die, Goto,
         countVars, Op
<1>2. Taken \cup Written \subseteq Operating
  BY DEF Taken, Written, Operating
\* A step that keeps the table.
<1>3. ASSUME disk'.table.ops = disk.table.ops, done' \subseteq disk.table.ops, ImageInv(p)'
      PROVE  TableInv'
  <2>1. ASSUME NEW q \in Procs \ {p} PROVE ImageInv(q)'
    BY <1>1, <1>3 DEF TableInv, ImageInv
  <2>2. QED
    BY <1>3, <2>1 DEF TableInv
\* A step that puts an operation into it, by whoever has the lock for writing.
<1>4. ASSUME pc[p] \in Taken, kind[p] # "readlink", disk'.table = buffer[p], done' = done,
             pc'[p] \in Written, kind' = kind, calls' = calls
      PROVE  TableInv'
  <2>1. lock[p] = "write"
    BY <1>2, <1>4 DEF AccessInv, LockInv
  <2>2. ASSUME NEW q \in Procs \ {p} PROVE ImageInv(q)'
    <3>1. pc[q] \notin Taken \cup Written
      BY <1>2, <2>1 DEF AccessInv, LockInv
    <3>2. QED
      BY <1>1, <3>1 DEF ImageInv
  <2>3. Op(p)' = Op(p) /\ buffer[p].ops = disk.table.ops \cup {Op(p)}
    BY <1>4 DEF TableInv, ImageInv, Op
  <2>4. Taken \cap Written = {}
    BY DEF Taken, Written
  <2>5. ImageInv(p)'
    BY <1>4, <2>3, <2>4 DEF ImageInv
  <2>6. QED
    BY <1>4, <2>2, <2>3, <2>5 DEF TableInv
<1>5. done \subseteq disk.table.ops /\ ImageInv(p)
  BY DEF TableInv
<1>6. CASE \E k \in Kinds : Begin(p, k)
  <2>1. disk' = disk /\ done' = done /\ pc'[p] = "read"
    BY <1>6 DEF AccessInv, TypeInv, Begin, Goto
  <2>2. ImageInv(p)'
    BY <2>1 DEF ImageInv, Taken, Written
  <2>3. QED
    BY <1>3, <1>5, <2>1, <2>2
<1>7. CASE ReadBlock(p)
  <2>1. /\ pc[p] = "read" /\ pc'[p] \in {"header", "write"} /\ disk' = disk /\ done' = done
        /\ kind' = kind /\ calls' = calls /\ buffer'[p] = Image(p)
    BY <1>7 DEF AccessInv, TypeInv, ReadBlock, Goto, countVars
  <2>2. Image(p).ops = IF kind[p] = "readlink" THEN disk.table.ops
                                               ELSE disk.table.ops \cup {Op(p)}
    BY <2>1, Images DEF Operating
  <2>3. ImageInv(p)'
    BY <2>1, <2>2 DEF ImageInv, Op, Written
  <2>4. QED
    BY <1>3, <1>5, <2>1, <2>3
<1>8. CASE Writing(p, "apply", "clearHeader", [disk EXCEPT !.table = buffer[p]])
  <2>1. /\ pc[p] = "apply" /\ pc'[p] = "clearHeader" /\ disk'.table = buffer[p] /\ done' = done
        /\ kind' = kind /\ calls' = calls
    BY <1>8 DEF AccessInv, TypeInv, Writing, Goto, countVars
  <2>2. kind[p] # "readlink"
    BY <2>1 DEF AccessInv, LockInv, Committing
  <2>3. QED
    BY <1>4, <2>1, <2>2 DEF Taken, Written
<1>9. CASE Commit(p) /\ disk'.table = disk.table
  <2>1. /\ buffer' = buffer /\ done' = done /\ kind' = kind /\ calls' = calls
        /\ \/ pc[p] \in Taken /\ pc'[p] \in Taken
           \/ pc[p] = "apply"
           \/ pc[p] \in Written /\ pc'[p] \in Written
    BY <1>9 DEF AccessInv, TypeInv, Commit, Writing, Goto, Taken, Written, countVars
  <2>2. CASE pc[p] # "apply"
    <3>1. ImageInv(p)'
      BY <1>5, <1>9, <2>1, <2>2 DEF ImageInv, Op, Taken, Written
    <3>2. QED
      BY <1>3, <1>5, <1>9, <2>1, <3>1
  <2>3. CASE pc[p] = "apply"
    <3>1. Writing(p, "apply", "clearHeader", [disk EXCEPT !.table = buffer[p]])
      BY <1>9, <2>3 DEF Commit, Writing, Goto
    <3>2. QED
      BY <1>8, <3>1
  <2>4. QED
    BY <2>2, <2>3
<1>10. CASE DirectWrite(p)
  <2>1. /\ pc[p] = "write" /\ pc'[p] = "return" /\ disk'.table = buffer[p] /\ done' = done
        /\ kind' = kind /\ calls' = calls
    BY <1>10 DEF AccessInv, TypeInv, DirectWrite, Writing, Goto, countVars
  <2>2. CASE kind[p] # "readlink"
    BY <1>4, <2>1, <2>2 DEF Taken, Written
  <2>3. CASE kind[p] = "readlink"
    <3>1. disk'.table.ops = disk.table.ops
      BY <1>5, <2>1, <2>3 DEF ImageInv, Taken
    <3>2. ImageInv(p)'
      BY <2>1, <2>3 DEF ImageInv, Taken
    <3>3. QED
      BY <1>3, <1>5, <2>1, <3>1, <3>2
  <2>4. QED
    BY <2>2, <2>3
<1>11. CASE Return(p)
  <2>1. /\ pc[p] = "return" /\ pc'[p] = "mounted" /\ disk' = disk
        /\ done' = IF kind[p] = "readlink" THEN done ELSE done \cup {Op(p)}
    BY <1>11 DEF AccessInv, TypeInv, Return, Goto
  <2>2. done' \subseteq disk.table.ops
    BY <1>5, <2>1 DEF ImageInv, Written
  <2>3. ImageInv(p)'
    BY <2>1 DEF ImageInv, Taken, Written
  <2>4. QED
    BY <1>3, <2>1, <2>2, <2>3
<1>12. CASE \/ Mount(p) \/ RecoverHeader(p) \/ RecoverCommit(p) \/ Verify(p) \/ Load(p)
            \/ Unmount(p) \/ Die(p)
  <2>1. /\ disk' = disk /\ done' = done
        /\ pc'[p] \in {Unmounted, "mounted", "recover"} \cup Replaying
    BY <1>12 DEF AccessInv, TypeInv, Mount, RecoverHeader, RecoverCommit, Verify, Load, Unmount, Die,
                 Goto, Replaying, countVars
  <2>2. ImageInv(p)'
    BY <2>1 DEF ImageInv, Taken, Written, Replaying, Unmounted
  <2>3. QED
    BY <1>3, <1>5, <2>1, <2>2
<1>13. CASE Replay(p)
  <2>1. /\ done' = done /\ pc[p] \in Replaying
        /\ pc'[p] \in {"recoverClearHeader", "recoverClearCommit", "mounted"}
    BY <1>13 DEF AccessInv, TypeInv, Replay, Writing, Goto, Replaying, countVars
  <2>2. ImageInv(p)'
    BY <2>1 DEF ImageInv, Taken, Written
  <2>3. rule = "alone"
    BY <2>1 DEF FirstInv
  <2>4. CASE Writing(p, "replay", "recoverClearHeader", [disk EXCEPT !.table = buffer[p]])
    <3>1. pc[p] = "replay" /\ disk'.table = buffer[p]
      BY <2>4 DEF AccessInv, TypeInv, Writing, Goto
    <3>2. buffer[p] = disk.image /\ done \subseteq disk.image.ops
      BY <2>3, <3>1 DEF AloneInv, PhaseInv, JournalInv
    <3>3. ASSUME NEW q \in Procs \ {p} PROVE ImageInv(q)'
      <4>1. pc[q] = Unmounted
        BY <2>3, <3>1 DEF AloneInv, Unmounted
      <4>2. QED
        BY <1>1, <4>1 DEF ImageInv, Taken, Written, Unmounted
    <3>4. QED
      BY <2>1, <2>2, <3>1, <3>2, <3>3 DEF TableInv
  <2>5. CASE disk'.table = disk.table
    BY <1>3, <1>5, <2>1, <2>2, <2>5
  <2>6. QED
    BY <1>13, <2>4, <2>5 DEF AccessInv, TypeInv, Replay, Writing
<1>14. Commit(p) => \/ disk'.table = disk.table
                    \/ Writing(p, "apply", "clearHeader", [disk EXCEPT !.table = buffer[p]])
  BY DEF AccessInv, TypeInv, Commit, Writing
<1>15. QED
  BY <1>6, <1>7, <1>8, <1>9, <1>10, <1>11, <1>12, <1>13, <1>14 DEF Operation, Mounting
----------------------------------------------------------------------------
\* For callers that mount first or alone, the invariant holds at the start.
LEMMA InvInit ==
    ASSUME Mounts \subseteq {"first", "alone"}
    PROVE  Init => Inv
<1> SUFFICES ASSUME Init PROVE Inv
  OBVIOUS
<1>1. AccessInv
  BY AccessInit
<1>2. TableInv /\ KnownInv
  BY DEF Init, TableInv, ImageInv, KnownInv, Empty, Taken, Written, Unmounted
<1>3. FirstInv /\ AloneInv
  BY DEF Init, FirstInv, AloneInv, PhaseInv, JournalInv, Replaying, Unmounted
<1>4. QED
  BY <1>1, <1>2, <1>3 DEF Inv

\* For them, every step keeps it.
LEMMA InvStep ==
    ASSUME Mounts \subseteq {"first", "alone"}
    PROVE  Inv /\ [Next]_vars => Inv'
<1> SUFFICES ASSUME Inv, [Next]_vars PROVE Inv'
  OBVIOUS
<1>1. CASE Next
  <2>1. PICK p \in Procs : Operation(p) \/ Mounting(p) \/ Unmount(p) \/ Die(p)
    BY <1>1 DEF Next
  <2>2. UNCHANGED rule /\ rule \in {"first", "alone"}
    BY <1>1 DEF Next, Inv, AccessInv, TypeInv
  <2>3. AccessInv' /\ KnownInv' /\ FirstInv'
    BY <1>1, AccessStep, KnownStep, FirstStep DEF Inv
  <2>4. TableInv'
    BY <2>1, <2>2, TableStep DEF Inv
  <2>5. AloneInv'
    <3>1. CASE rule = "alone"
      BY <2>1, <2>2, <3>1, AloneStep DEF Inv
    <3>2. CASE rule # "alone"
      BY <2>2, <3>2 DEF AloneInv
    <3>3. QED
      BY <3>1, <3>2
  <2>6. QED
    BY <2>3, <2>4, <2>5 DEF Inv
<1>2. CASE UNCHANGED vars
  BY <1>2 DEF vars, Inv, AccessInv, TypeInv, LockInv, TableInv, ImageInv, KnownInv, FirstInv,
              AloneInv, PhaseInv, JournalInv, Op
<1>3. QED
  BY <1>1, <1>2

\* Nothing that has returned success is ever undone, by an operation, an access
\* time or a replay, when callers mount before any of them operates or when
\* nobody else has the image mounted: whatever the number of processes, whoever
\* dies, wherever. The rules the runs refute show that neither can be given up.
THEOREM MountsApartUndoNothing ==
    ASSUME Mounts \subseteq {"first", "alone"}
    PROVE  Spec => []NothingIsUndone
<1>1. Inv => NothingIsUndone
  BY DEF Inv, TableInv, NothingIsUndone
<1>2. QED
  BY <1>1, InvInit, InvStep, PTL DEF Spec
=============================================================================
