---------------------------- MODULE SharedMount ----------------------------
(***************************************************************************)
(* One block of the inode table under several processes: journal commits   *)
(* and direct writes under the write lock, the access time of ufs_readlink *)
(* under the read lock, and the recovery of ufs_mount, which takes no lock *)
(* (src/src/journal.c, src/src/userfs.c, src/src/userfs_storage.c,         *)
(* src/src/namespace.c).                                                   *)
(*                                                                         *)
(* A step is one read or one write of a block; processes share the page    *)
(* cache, and die at any of them.  What the block holds is abstracted to   *)
(* the operations whose changes it has, and a checksum to the image it is  *)
(* the sum of.  Threads of a process are kept apart by its mutex           *)
(* (SharedImage), so a process is one thread here.                         *)
(***************************************************************************)
EXTENDS Naturals, FiniteSets

CONSTANTS
    Procs,
    Kinds,          \* the operations callers make, of {"direct", "journal", "readlink"}
    Mounts,         \* the rules callers may follow: to mount "first", before any
                    \* operation; "alone", when no other process has the image
                    \* mounted; "quiet", while no operation runs; at "any" time
    MaxOps,         \* bound: operations of one process
    MaxMounts,      \* bound: mounts of one process
    MayDie          \* whether processes die

ASSUME SharedMountAssumption ==
    /\ Kinds \subseteq {"direct", "journal", "readlink"}
    /\ Mounts \subseteq {"first", "alone", "quiet", "any"}
    /\ {MaxOps, MaxMounts} \subseteq Nat /\ MayDie \in BOOLEAN

VARIABLES
    rule,       \* the one they follow
    disk,       \* the inode-table block, and the journal: header, image, commit record
    pc,         \* what each process is about to do
    kind,       \* its operation
    lock,       \* its lock on the image: "none", "read", "write"
    buffer,     \* the image of the block it holds
    header,     \* the journal header it read at mount
    seq,        \* its g_journal_seq
    calls,      \* bound and names: the operations it has begun
    mounts,     \* bound: its mounts
    done        \* history: the operations that have returned success

vars == <<rule, disk, pc, kind, lock, buffer, header, seq, calls, mounts, done>>

\* The block: the operations it shows, and those whose access times it shows.
Empty == [ops |-> {}, atimes |-> {}]
Cleared == [seq |-> 0, sum |-> Empty]

Unmounted == "unmounted"

Init ==
    /\ rule \in Mounts
    /\ disk = [table |-> Empty, header |-> Cleared, image |-> Empty, commit |-> 0]
    /\ pc = [p \in Procs |-> Unmounted] /\ kind = [p \in Procs |-> "none"]
    /\ lock = [p \in Procs |-> "none"]
    /\ buffer = [p \in Procs |-> Empty] /\ header = [p \in Procs |-> Cleared]
    /\ seq = [p \in Procs |-> 1]
    /\ calls = [p \in Procs |-> 0] /\ mounts = [p \in Procs |-> 0] /\ done = {}

Goto(p, from, to) == pc[p] = from /\ pc' = [pc EXCEPT ![p] = to]
Op(p) == <<p, calls[p]>>

countVars == <<calls, mounts, done>>
----------------------------------------------------------------------------
(* Operations. *)

\* Mutant: who only reads the link asks for no lock.
UnlockedGrantable(p, k) ==
    k # "readlink" => \A q \in Procs \ {p} : lock[q] = "none"

\* fcntl: writers wait for everyone, readers for writers.
Grantable(p, k) ==
    \A q \in Procs \ {p} : lock[q] # "write" /\ (k # "readlink" => lock[q] = "none")

Recovering(p) ==
    pc[p] \in {"recover", "recoverCommit", "verify", "load", "replay", "recoverClearHeader",
              "recoverClearCommit"}

Begin(p, k) ==
    /\ calls[p] < MaxOps /\ Grantable(p, k)
    /\ rule = "any" \/ \A q \in Procs : ~ Recovering(q)
    /\ Goto(p, "mounted", "read")
    /\ kind' = [kind EXCEPT ![p] = k]
    /\ lock' = [lock EXCEPT ![p] = IF k = "readlink" THEN "read" ELSE "write"]
    /\ calls' = [calls EXCEPT ![p] = @ + 1]
    /\ UNCHANGED <<disk, buffer, header, seq, mounts, done>>

\* The block with the operation's change in one of its inodes.
Image(p) ==
    IF kind[p] = "readlink" THEN [disk.table EXCEPT !.atimes = @ \cup {Op(p)}]
                            ELSE [disk.table EXCEPT !.ops = @ \cup {Op(p)}]

\* The read of write_inode and of ufs_tx_stage_inode; a transaction takes the
\* next sequence number.
ReadBlock(p) ==
    /\ Goto(p, "read", IF kind[p] = "journal" THEN "header" ELSE "write")
    /\ buffer' = [buffer EXCEPT ![p] = Image(p)]
    /\ seq' = [seq EXCEPT ![p] = IF kind[p] = "journal" THEN @ + 1 ELSE @]
    /\ UNCHANGED <<disk, kind, lock, header, countVars>>

\* One write of a block.
Writing(p, from, to, newDisk) ==
    /\ Goto(p, from, to)
    /\ disk' = newDisk
    /\ UNCHANGED <<kind, lock, buffer, header, seq, countVars>>

\* ufs_tx_commit
Commit(p) ==
    \/ Writing(p, "header", "image", [disk EXCEPT !.header = [seq |-> seq[p] - 1, sum |-> buffer[p]]])
    \/ Writing(p, "image", "commit", [disk EXCEPT !.image = buffer[p]])
    \/ Writing(p, "commit", "apply", [disk EXCEPT !.commit = seq[p] - 1])
    \/ Writing(p, "apply", "clearHeader", [disk EXCEPT !.table = buffer[p]])
    \/ Writing(p, "clearHeader", "clearCommit", [disk EXCEPT !.header = Cleared])
    \/ Writing(p, "clearCommit", "return", [disk EXCEPT !.commit = 0])

DirectWrite(p) == Writing(p, "write", "return", [disk EXCEPT !.table = buffer[p]])

Return(p) ==
    /\ Goto(p, "return", "mounted")
    /\ lock' = [lock EXCEPT ![p] = "none"]
    /\ kind' = [kind EXCEPT ![p] = "none"]
    /\ buffer' = [buffer EXCEPT ![p] = Empty]
    /\ done' = IF kind[p] = "readlink" THEN done ELSE done \cup {Op(p)}
    /\ UNCHANGED <<disk, header, seq, calls, mounts>>
----------------------------------------------------------------------------
(* Mounting: ufs_journal_recover. *)

Mount(p) ==
    /\ mounts[p] < MaxMounts
    /\ rule = "first" => \A q \in Procs : calls[q] = 0
    /\ rule = "alone" => \A q \in Procs : pc[q] = Unmounted
    /\ rule = "quiet" => \A q \in Procs : pc[q] \in {Unmounted, "mounted"}
    /\ Goto(p, Unmounted, "recover")
    /\ mounts' = [mounts EXCEPT ![p] = @ + 1]
    /\ UNCHANGED <<disk, kind, lock, buffer, header, seq, calls, done>>

RecoverHeader(p) ==
    /\ Goto(p, "recover", IF disk.header = Cleared THEN "mounted" ELSE "recoverCommit")
    /\ header' = [header EXCEPT ![p] = disk.header]
    /\ UNCHANGED <<disk, kind, lock, buffer, seq, countVars>>

RecoverCommit(p) ==
    /\ Goto(p, "recoverCommit",
            IF disk.commit = header[p].seq THEN "verify" ELSE "recoverClearHeader")
    /\ UNCHANGED <<disk, kind, lock, buffer, header, seq, countVars>>

Verify(p) ==
    /\ Goto(p, "verify", IF disk.image = header[p].sum THEN "load" ELSE "recoverClearHeader")
    /\ UNCHANGED <<disk, kind, lock, buffer, header, seq, countVars>>

\* The image is read again before it is written home.
Load(p) ==
    /\ Goto(p, "load", "replay")
    /\ buffer' = [buffer EXCEPT ![p] = disk.image]
    /\ UNCHANGED <<disk, kind, lock, header, seq, countVars>>

Replay(p) ==
    \/ Writing(p, "replay", "recoverClearHeader", [disk EXCEPT !.table = buffer[p]])
    \/ Writing(p, "recoverClearHeader", "recoverClearCommit", [disk EXCEPT !.header = Cleared])
    \/ Writing(p, "recoverClearCommit", "mounted", [disk EXCEPT !.commit = 0])

\* ufs_unmount; the process and its sequence numbers live on.
Unmount(p) ==
    /\ Goto(p, "mounted", Unmounted)
    /\ UNCHANGED <<disk, kind, lock, buffer, header, seq, countVars>>

\* The kernel releases the locks of a process that dies; its sequence numbers
\* start again.
Die(p) ==
    /\ MayDie /\ pc[p] # Unmounted
    /\ pc' = [pc EXCEPT ![p] = Unmounted] /\ kind' = [kind EXCEPT ![p] = "none"]
    /\ lock' = [lock EXCEPT ![p] = "none"]
    /\ buffer' = [buffer EXCEPT ![p] = Empty] /\ header' = [header EXCEPT ![p] = Cleared]
    /\ seq' = [seq EXCEPT ![p] = 1]
    /\ UNCHANGED <<disk, countVars>>

Operation(p) ==
    \/ \E k \in Kinds : Begin(p, k)
    \/ ReadBlock(p) \/ Commit(p) \/ DirectWrite(p) \/ Return(p)

Mounting(p) ==
    Mount(p) \/ RecoverHeader(p) \/ RecoverCommit(p) \/ Verify(p) \/ Load(p) \/ Replay(p)

Next ==
    /\ \E p \in Procs : Operation(p) \/ Mounting(p) \/ Unmount(p) \/ Die(p)
    /\ UNCHANGED rule

Spec == Init /\ [][Next]_vars
----------------------------------------------------------------------------
\* The locks are such as fcntl grants: a writer is alone.
TypeOK ==
    /\ rule \in Mounts
    /\ disk.table.ops \subseteq Procs \X (1 .. MaxOps)
    /\ lock \in [Procs -> {"none", "read", "write"}]
    /\ \A p, q \in Procs : p # q /\ lock[p] = "write" => lock[q] = "none"
    /\ calls \in [Procs -> 0 .. MaxOps] /\ mounts \in [Procs -> 0 .. MaxMounts]

\* DESIGN section 12.12: "Successful operations remain visible": no later write
\* of the block, be it another operation's, an access time's or a replay's,
\* undoes an operation that has returned success.
NothingIsUndone == done \subseteq disk.table.ops

=============================================================================
