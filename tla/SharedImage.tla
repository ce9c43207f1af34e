---------------------------- MODULE SharedImage ----------------------------
(***************************************************************************)
(* One image used by several threads of several processes: the operation   *)
(* mutex of a process and the whole-image fcntl lock (src/src/ufs_sync.c), *)
(* mount and unmount, which take neither (src/src/userfs.c), and the two   *)
(* things every allocation changes: the bitmap, read and written back, and *)
(* the counter in the superblock each process caches while it is mounted   *)
(* (src/src/userfs_storage.c).                                             *)
(***************************************************************************)
EXTENDS Integers, FiniteSets, FiniteSetsExt

CONSTANTS
    Threads,
    ProcessOf,          \* the process of each thread
    Blocks,             \* the data region: a set of block numbers
    Kinds,              \* the operations callers make, of {"read", "alloc", "free"}
    CounterValues,      \* 2^32: the values of the free-block counter
    MayRemount,         \* whether processes unmount while others run
    MaxMounts           \* bound: mounts of one behaviour

Procs == {ProcessOf[t] : t \in Threads}
ThreadsOf(p) == {t \in Threads : ProcessOf[t] = p}
Nobody == "nobody"
NoBlock == 0

ASSUME SharedAssumption ==
    /\ DOMAIN ProcessOf = Threads /\ Nobody \notin Threads
    /\ Blocks \subseteq Nat \ {NoBlock} /\ IsFiniteSet(Blocks)
    /\ Kinds \subseteq {"read", "alloc", "free"}
    /\ CounterValues \in Nat /\ CounterValues > Cardinality(Blocks)
    /\ MayRemount \in BOOLEAN /\ MaxMounts \in Nat

VARIABLES
    bitmap,         \* the data blocks marked on the image
    super,          \* the superblock of the image: free counter and state
    owned,          \* the blocks some file of the image points at
    mounted,        \* each process's g_ufs.mounted
    cache,          \* each process's g_ufs.sb
    mutex,          \* each process's operation_lock: a thread or Nobody
    imageLock,      \* each process's lock on the image: "none", "read", "write"
    pc,             \* what each thread is about to do
    kind,           \* its operation
    seen,           \* the bitmap it read
    block,          \* the block it takes or gives
    mounts          \* mounts so far

vars == <<bitmap, super, owned, mounted, cache, mutex, imageLock, pc, kind, seen, block,
          mounts>>

Formatted == [free |-> Cardinality(Blocks), state |-> "clean"]

Init ==
    /\ bitmap = {} /\ super = Formatted /\ owned = {}
    /\ mounted = [p \in Procs |-> FALSE] /\ cache = [p \in Procs |-> Formatted]
    /\ mutex = [p \in Procs |-> Nobody] /\ imageLock = [p \in Procs |-> "none"]
    /\ pc = [t \in Threads |-> "idle"] /\ kind = [t \in Threads |-> "read"]
    /\ seen = [t \in Threads |-> {}] /\ block = [t \in Threads |-> NoBlock] /\ mounts = 0

Goto(t, from, to) == pc[t] = from /\ pc' = [pc EXCEPT ![t] = to]

imageVars == <<bitmap, super, owned>>
contextVars == <<mounted, cache, mounts>>
lockVars == <<mutex, imageLock>>
threadVars == <<kind, seen, block>>
----------------------------------------------------------------------------
(* lock_operation and ufs_operation_unlock.  No operation calls another     *)
(* public one, so the depth of a thread's lock is never more than one.      *)

\* Callers mount and unmount when no operation of their process is going on.
Quiet(p) == \A u \in ThreadsOf(p) : pc[u] = "idle"
MountingNow(p) == \E u \in ThreadsOf(p) : pc[u] \in {"mountMark", "unmountClose"}

Call(t, k) ==
    /\ ~ MountingNow(ProcessOf[t])
    /\ Goto(t, "idle", "lockMutex")
    /\ kind' = [kind EXCEPT ![t] = k]
    /\ UNCHANGED <<imageVars, contextVars, lockVars, seen, block>>

LockMutex(t) ==
    /\ mutex[ProcessOf[t]] = Nobody
    /\ Goto(t, "lockMutex", "lockImage")
    /\ mutex' = [mutex EXCEPT ![ProcessOf[t]] = t]
    /\ UNCHANGED <<imageVars, contextVars, threadVars, imageLock>>

\* Mutant: allocation shares the image.
LaxConflicts(k, lock) == lock = "write" /\ k = "read"

\* The lock of another process that an operation of this kind has to wait for.
Conflicts(k, lock) == lock = "write" \/ (lock = "read" /\ k # "read")

\* Mutant: nobody waits for anybody.
AlwaysGrantable(t) == TRUE

\* fcntl(F_SETLKW) waits for the other processes, never for this one.
Grantable(t) ==
    \A q \in Procs \ {ProcessOf[t]} : ~ Conflicts(kind[t], imageLock[q])

LockImage(t) ==
    LET p == ProcessOf[t] IN
    /\ mounted[p] /\ Grantable(t)
    /\ Goto(t, "lockImage", kind[t])
    /\ imageLock' = [imageLock EXCEPT ![p] = IF kind[t] = "read" THEN "read" ELSE "write"]
    /\ UNCHANGED <<imageVars, contextVars, threadVars, mutex>>

\* Mutant: an error path without the unlock.
LeakyNoDevice(t) ==
    /\ ~ mounted[ProcessOf[t]]
    /\ Goto(t, "lockImage", "idle")
    /\ UNCHANGED <<imageVars, contextVars, threadVars, lockVars>>

\* ENODEV gives the mutex back.
LockNoDevice(t) ==
    /\ ~ mounted[ProcessOf[t]]
    /\ Goto(t, "lockImage", "idle")
    /\ mutex' = [mutex EXCEPT ![ProcessOf[t]] = Nobody]
    /\ kind' = [kind EXCEPT ![t] = "read"]
    /\ UNCHANGED <<imageVars, contextVars, imageLock, seen, block>>

\* Mutant: the image stays locked.
ForgetfulUnlockImage(t) ==
    /\ Goto(t, "unlockImage", "unlockMutex")
    /\ UNCHANGED <<imageVars, contextVars, threadVars, lockVars>>

UnlockImage(t) ==
    /\ Goto(t, "unlockImage", "unlockMutex")
    /\ imageLock' = [imageLock EXCEPT ![ProcessOf[t]] = "none"]
    /\ UNCHANGED <<imageVars, contextVars, threadVars, mutex>>

UnlockMutex(t) ==
    /\ Goto(t, "unlockMutex", "idle")
    /\ mutex' = [mutex EXCEPT ![ProcessOf[t]] = Nobody]
    /\ kind' = [kind EXCEPT ![t] = "read"]
    /\ seen' = [seen EXCEPT ![t] = {}] /\ block' = [block EXCEPT ![t] = NoBlock]
    /\ UNCHANGED <<imageVars, contextVars, imageLock>>
----------------------------------------------------------------------------
(* Operations. *)

Read(t) ==
    /\ Goto(t, "read", "unlockImage")
    /\ UNCHANGED <<imageVars, contextVars, threadVars, lockVars>>

\* The bitmap is read; without a free block to take, or a block to give, the
\* operation is over.
ReadBitmap(t, k) ==
    /\ kind[t] = k
    /\ Goto(t, k, IF (k = "alloc" /\ Blocks \subseteq bitmap) \/ (k = "free" /\ owned = {})
                  THEN "unlockImage" ELSE "mark")
    /\ seen' = [seen EXCEPT ![t] = bitmap]
    /\ UNCHANGED <<imageVars, contextVars, lockVars, kind, block>>

\* The whole bitmap is written back, first-fit bit set or a file's bit cleared.
MarkTaken(t) ==
    /\ kind[t] = "alloc"
    /\ Goto(t, "mark", "count")
    /\ block' = [block EXCEPT ![t] = Min(Blocks \ seen[t])]
    /\ bitmap' = seen[t] \cup {block'[t]}
    /\ UNCHANGED <<super, owned, contextVars, lockVars, kind, seen>>

MarkFree(t, b) ==
    /\ kind[t] = "free" /\ b \in owned
    /\ Goto(t, "mark", "count")
    /\ block' = [block EXCEPT ![t] = b]
    /\ bitmap' = seen[t] \ {b}
    /\ UNCHANGED <<super, owned, contextVars, lockVars, kind, seen>>

\* The cached counter is changed, the cached superblock replaces the image's.
Count(t) ==
    LET p == ProcessOf[t]
        delta == IF kind[t] = "alloc" THEN CounterValues - 1 ELSE 1
    IN  /\ Goto(t, "count", "point")
        /\ cache' = [cache EXCEPT ![p].free = (@ + delta) % CounterValues]
        /\ super' = cache'[p]
        /\ UNCHANGED <<bitmap, owned, mounted, mounts, lockVars, threadVars>>

\* The caller points the file at the block it was given, or drops the pointer
\* to the block it gave back.
Point(t) ==
    /\ Goto(t, "point", "unlockImage")
    /\ owned' = IF kind[t] = "alloc" THEN owned \cup {block[t]} ELSE owned \ {block[t]}
    /\ UNCHANGED <<bitmap, super, contextVars, lockVars, threadVars>>
----------------------------------------------------------------------------
(* Mount and unmount, without the locks.                                   *)

\* validate_superblock.
Valid(s) == s.free <= Cardinality(Blocks)

MountRead(t) ==
    /\ ~ mounted[ProcessOf[t]] /\ Quiet(ProcessOf[t]) /\ Valid(super) /\ mounts < MaxMounts
    /\ Goto(t, "idle", "mountMark")
    /\ cache' = [cache EXCEPT ![ProcessOf[t]] = [super EXCEPT !.state = "dirty"]]
    /\ mounts' = mounts + 1
    /\ UNCHANGED <<imageVars, mounted, lockVars, threadVars>>

MountMark(t) ==
    /\ Goto(t, "mountMark", "idle")
    /\ mounted' = [mounted EXCEPT ![ProcessOf[t]] = TRUE]
    /\ super' = cache[ProcessOf[t]]
    /\ UNCHANGED <<bitmap, owned, cache, mounts, lockVars, threadVars>>

UnmountMark(t) ==
    LET p == ProcessOf[t] IN
    /\ MayRemount /\ mounted[p] /\ Quiet(ProcessOf[t])
    /\ Goto(t, "idle", "unmountClose")
    /\ cache' = [cache EXCEPT ![p].state = "clean"]
    /\ super' = cache'[p]
    /\ UNCHANGED <<bitmap, owned, mounted, mounts, lockVars, threadVars>>

\* Closing any descriptor of the image drops the process's locks on it.
UnmountClose(t) ==
    LET p == ProcessOf[t] IN
    /\ Goto(t, "unmountClose", "idle")
    /\ mounted' = [mounted EXCEPT ![p] = FALSE]
    /\ imageLock' = [imageLock EXCEPT ![p] = "none"]
    /\ UNCHANGED <<imageVars, cache, mounts, mutex, threadVars>>
----------------------------------------------------------------------------
\* What a thread does once it has been called.
Operate(t) ==
    \/ LockMutex(t) \/ LockImage(t) \/ LockNoDevice(t)
    \/ Read(t) \/ ReadBitmap(t, "alloc") \/ ReadBitmap(t, "free")
    \/ MarkTaken(t) \/ (\E b \in owned : MarkFree(t, b)) \/ Count(t) \/ Point(t)
    \/ UnlockImage(t) \/ UnlockMutex(t)
    \/ MountMark(t) \/ UnmountClose(t)

Next ==
    \E t \in Threads :
        \/ \E k \in Kinds : Call(t, k)
        \/ Operate(t) \/ MountRead(t) \/ UnmountMark(t)

Spec == Init /\ [][Next]_vars

\* A thread that can go on all the time goes on.  Neither the mutex nor fcntl
\* promises its waiters an order.
FairSpec == Spec /\ \A t \in Threads : WF_vars(Operate(t))
----------------------------------------------------------------------------
TypeOK ==
    /\ bitmap \subseteq Blocks /\ owned \subseteq Blocks
    /\ super \in [free : 0 .. CounterValues - 1, state : {"clean", "dirty"}]
    /\ cache \in [Procs -> [free : 0 .. CounterValues - 1, state : {"clean", "dirty"}]]
    /\ mutex \in [Procs -> Threads \cup {Nobody}]
    /\ imageLock \in [Procs -> {"none", "read", "write"}]
    /\ \A t \in Threads : seen[t] \subseteq Blocks

\* A thread between its read of the bitmap and its last write of the operation.
Changing(t) == pc[t] \in {"mark", "count", "point"}

\* A block is handed out to one file: what is pointed at is not in use, and the
\* write of a whole bitmap undoes no other operation's change.
NoDoubleAllocation ==
    [][\A t \in Threads :
          /\ (pc[t] = "point" /\ kind[t] = "alloc" /\ pc'[t] = "unlockImage") =>
                block[t] \notin owned
          /\ (pc[t] = "mark" /\ pc'[t] = "count") => seen[t] = bitmap]_vars

\* Whenever no operation is changing them, every block a file points at is
\* marked: no allocation to come can hand it out.
OwnedIsMarked == (\A t \in Threads : ~ Changing(t)) => owned \subseteq bitmap

\* A process that has the image to itself keeps the counter of the superblock
\* exact, over all its threads and all its mounts.
CounterIsExact ==
    (\A t \in Threads : ~ Changing(t)) =>
        super.free = Cardinality(Blocks \ bitmap)

\* DESIGN section 12.12: what was done is there after remounting, so the image
\* can be mounted at all.
StaysMountable == Valid(super)

\* DESIGN section 4.1: "The filesystem is marked dirty while mounted".
DirtyWhileMounted ==
    \A p \in Procs : mounted[p] /\ Quiet(p) => super.state = "dirty"

\* A mutex that threads wait for is passed on, whatever way the call that held
\* it ended.
MutexIsPassedOn ==
    \A p \in Procs : (\E t \in ThreadsOf(p) : pc[t] = "lockMutex")
                         ~> (\E t \in ThreadsOf(p) : pc[t] = "lockImage")

\* Calls that wait for the image do not wait for each other: one of them, or
\* one they wait for, completes.
OperationsComplete ==
    (\E t \in Threads : pc[t] = "lockImage" /\ mounted[ProcessOf[t]])
        ~> (\E t \in Threads : pc[t] = "unlockMutex")
=============================================================================
