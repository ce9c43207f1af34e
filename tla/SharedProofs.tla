---------------------------- MODULE SharedProofs ----------------------------
(***************************************************************************)
(* What the two locks guarantee to any number of threads of any number of  *)
(* processes, over any data region, with mounts and unmounts in between.   *)
(***************************************************************************)
EXTENDS SharedImage, FiniteSetTheorems, WellFoundedInduction, TLAPS

\* A thread holds its process's mutex, and its process holds the image lock for
\* it, while it is here.
Inside == {"read", "alloc", "free", "mark", "count", "point", "unlockImage"}
Held == {"lockImage", "unlockMutex"} \cup Inside
Remounting == {"mountMark", "unmountClose"}

TypeInv ==
    /\ bitmap \subseteq Blocks /\ owned \subseteq Blocks
    /\ pc \in [Threads -> {"idle", "lockMutex"} \cup Remounting \cup Held]
    /\ kind \in [Threads -> {"read", "alloc", "free"}]
    /\ seen \in [Threads -> SUBSET Blocks]
    /\ block \in [Threads -> Blocks \cup {NoBlock}]
    /\ mutex \in [Procs -> Threads \cup {Nobody}]
    /\ imageLock \in [Procs -> {"none", "read", "write"}]
    /\ mounted \in [Procs -> BOOLEAN]

\* The steps of an operation are those of its kind.
KindInv ==
    \A t \in Threads :
        /\ pc[t] \in {"read", "alloc", "free"} => pc[t] = kind[t]
        /\ Changing(t) => kind[t] # "read"

\* Whoever is past the mutex has it; whoever mounts or unmounts is alone in its
\* process.
MutexInv ==
    \A t \in Threads :
        /\ pc[t] \in Held => mutex[ProcessOf[t]] = t
        /\ pc[t] \in Remounting =>
              \A u \in Threads \ {t} : ProcessOf[u] = ProcessOf[t] => pc[u] = "idle"

\* The image is locked for whoever is inside, and a writer's lock is the only one.
LockInv ==
    /\ \A t \in Threads : pc[t] \in Inside =>
          imageLock[ProcessOf[t]] = IF kind[t] = "read" THEN "read" ELSE "write"
    /\ \A p, q \in Procs : (p # q /\ imageLock[p] = "write") => imageLock[q] = "none"

AccessInv == TypeInv /\ KindInv /\ MutexInv /\ LockInv

\* What the bitmap is, to a thread in the middle of a change and without one.
DataInv ==
    /\ (\A t \in Threads : ~ Changing(t)) => owned \subseteq bitmap
    /\ \A t \in Threads :
          /\ pc[t] = "mark" =>
                /\ seen[t] = bitmap /\ owned \subseteq bitmap
                /\ kind[t] = "alloc" => ~ (Blocks \subseteq bitmap)
          /\ pc[t] \in {"count", "point"} =>
                /\ owned \ {block[t]} \subseteq bitmap
                /\ kind[t] = "alloc" => block[t] \in bitmap \ owned

Inv == AccessInv /\ DataInv
----------------------------------------------------------------------------
\* A set of numbers that is not empty has its least element.
LEMMA MinIsLeast ==
    ASSUME NEW S, S \subseteq Nat, S # {}
    PROVE  Min(S) \in S
<1>1. PICK x \in S : \A y \in S : ~ (<<y, x>> \in OpToRel(<, Nat))
  BY NatLessThanWellFounded, WFMin
<1>2. \A y \in S : ~ (y < x)
  BY <1>1, Zenon DEF OpToRel
<1>3. \A y \in S : x <= y
  BY <1>2
<1>4. QED
  BY <1>3 DEF Min

\* Every thread is in a process.
LEMMA Processes == \A t \in Threads : ProcessOf[t] \in Procs
BY DEF Procs

\* While one thread changes the bitmap, no other thread is inside.
LEMMA Alone ==
    ASSUME AccessInv, NEW t \in Threads, Changing(t) \/ pc[t] \in {"alloc", "free"}
    PROVE  \A u \in Threads \ {t} : pc[u] \notin Inside
<1>1. pc[t] \in Held /\ pc[t] \in Inside /\ kind[t] # "read"
  BY DEF AccessInv, KindInv, Changing, Held, Inside
<1>2. imageLock[ProcessOf[t]] = "write"
  BY <1>1 DEF AccessInv, LockInv
<1>3. SUFFICES ASSUME NEW u \in Threads \ {t}, pc[u] \in Inside PROVE FALSE
  OBVIOUS
<1>4. CASE ProcessOf[u] = ProcessOf[t]
  BY <1>1, <1>3, <1>4 DEF AccessInv, MutexInv, Held
<1>5. CASE ProcessOf[u] # ProcessOf[t]
  BY <1>2, <1>3, <1>5, Processes DEF AccessInv, LockInv
<1>6. QED
  BY <1>4, <1>5

\* The block that first fit takes is in the data region and nobody's.
LEMMA FirstFitIsFree ==
    ASSUME Inv, NEW t \in Threads, pc[t] = "mark", kind[t] = "alloc"
    PROVE  Min(Blocks \ seen[t]) \in Blocks \ bitmap
<1>1. seen[t] = bitmap /\ Blocks \ bitmap # {}
  BY DEF Inv, DataInv
<1>2. Blocks \ bitmap \subseteq Nat
  BY SharedAssumption
<1>3. Min(Blocks \ bitmap) \in Blocks \ bitmap
  BY <1>1, <1>2, MinIsLeast
<1>4. QED
  BY <1>1, <1>3
----------------------------------------------------------------------------
\* Locks hold at the start.
LEMMA AccessInit == Init => AccessInv
<1> SUFFICES ASSUME Init PROVE AccessInv
  OBVIOUS
<1>1. TypeInv
  BY DEF Init, TypeInv
<1>2. KindInv /\ MutexInv /\ LockInv
  BY Processes DEF Init, KindInv, MutexInv, LockInv, Changing, Held, Inside, Remounting
<1>3. QED
  BY <1>1, <1>2 DEF AccessInv

\* Taking the locks.
LEMMA AccessTaken ==
    ASSUME AccessInv, NEW t \in Threads,
           LockMutex(t) \/ LockImage(t) \/ LockNoDevice(t) \/ \E k \in Kinds : Call(t, k)
    PROVE  AccessInv'
<1> USE Processes, SharedAssumption
<1>1. CASE \E k \in Kinds : Call(t, k)
  <2>1. PICK k \in Kinds : Call(t, k)
    BY <1>1
  <2>2. \A u \in Threads : ProcessOf[u] = ProcessOf[t] => pc[u] \notin Remounting
    BY <2>1 DEF Call, MountingNow, ThreadsOf, Remounting
  <2>3. QED
    BY <2>1, <2>2 DEF Call, Goto, AccessInv, TypeInv, KindInv, MutexInv, LockInv, Changing,
                      Held, Inside, Remounting, imageVars, contextVars, lockVars
<1>2. CASE LockMutex(t)
  BY <1>2 DEF LockMutex, Goto, AccessInv, TypeInv, KindInv, MutexInv, LockInv, Changing,
              Held, Inside, Remounting, imageVars, contextVars, threadVars
<1>3. CASE LockImage(t)
  <2> DEFINE p == ProcessOf[t]
  <2>1. TypeInv'
    BY <1>3 DEF LockImage, Goto, AccessInv, TypeInv, Held, Inside, Remounting, imageVars,
                contextVars, threadVars
  <2>2. KindInv' /\ MutexInv'
    BY <1>3 DEF LockImage, Goto, AccessInv, TypeInv, KindInv, MutexInv, Changing,
                Held, Inside, Remounting, imageVars, contextVars, threadVars
  <2>3. \A u \in Threads \ {t} : ProcessOf[u] = p => pc[u] \notin Inside
    BY <1>3 DEF LockImage, Goto, AccessInv, MutexInv, Held
  <2>4. \A q \in Procs \ {p} : /\ imageLock[q] # "write"
                               /\ kind[t] # "read" => imageLock[q] = "none"
    BY <1>3 DEF LockImage, Grantable, Conflicts, AccessInv, TypeInv
  <2>5. LockInv'
    BY <1>3, <2>3, <2>4 DEF LockImage, Goto, AccessInv, TypeInv, LockInv, Inside, threadVars
  <2>6. QED
    BY <2>1, <2>2, <2>5 DEF AccessInv
<1>4. CASE LockNoDevice(t)
  BY <1>4 DEF LockNoDevice, Goto, AccessInv, TypeInv, KindInv, MutexInv, LockInv, Changing,
              Held, Inside, Remounting, imageVars, contextVars
<1>5. QED
  BY <1>1, <1>2, <1>3, <1>4

\* Giving them back, and mounting and unmounting.
LEMMA AccessGiven ==
    ASSUME AccessInv, NEW t \in Threads,
           \/ UnlockImage(t) \/ UnlockMutex(t)
           \/ MountRead(t) \/ MountMark(t) \/ UnmountMark(t) \/ UnmountClose(t)
    PROVE  AccessInv'
<1> USE Processes, SharedAssumption
<1>1. CASE UnlockImage(t)
  <2>1. \A u \in Threads \ {t} : ProcessOf[u] = ProcessOf[t] => pc[u] \notin Inside
    BY <1>1 DEF UnlockImage, Goto, AccessInv, MutexInv, Held, Inside
  <2>2. QED
    BY <1>1, <2>1 DEF UnlockImage, Goto, AccessInv, TypeInv, KindInv, MutexInv, LockInv,
                Changing, Held, Inside, Remounting, imageVars, contextVars, threadVars
<1>2. CASE UnlockMutex(t)
  BY <1>2 DEF UnlockMutex, Goto, AccessInv, TypeInv, KindInv, MutexInv, LockInv, Changing,
              Held, Inside, Remounting, imageVars, contextVars
<1>3. CASE MountRead(t) \/ UnmountMark(t)
  <2>1. \A u \in Threads : ProcessOf[u] = ProcessOf[t] => pc[u] = "idle"
    BY <1>3 DEF MountRead, UnmountMark, Quiet, ThreadsOf
  <2>2. QED
    BY <1>3, <2>1 DEF MountRead, UnmountMark, Goto, AccessInv, TypeInv, KindInv, MutexInv,
                LockInv, Changing, Held, Inside, Remounting, imageVars, lockVars, threadVars
<1>4. CASE MountMark(t)
  BY <1>4 DEF MountMark, Goto, AccessInv, TypeInv, KindInv, MutexInv, LockInv, Changing,
              Held, Inside, Remounting, lockVars, threadVars
<1>5. CASE UnmountClose(t)
  <2>1. \A u \in Threads \ {t} : ProcessOf[u] = ProcessOf[t] => pc[u] = "idle"
    BY <1>5 DEF UnmountClose, Goto, AccessInv, MutexInv, Remounting
  <2>2. QED
    BY <1>5, <2>1 DEF UnmountClose, Goto, AccessInv, TypeInv, KindInv, MutexInv, LockInv,
                Changing, Held, Inside, Remounting, imageVars, threadVars
<1>6. QED
  BY <1>1, <1>2, <1>3, <1>4, <1>5

\* The operations themselves leave the locks alone.
LEMMA AccessOperations ==
    ASSUME Inv, NEW t \in Threads,
           \/ Read(t) \/ ReadBitmap(t, "alloc") \/ ReadBitmap(t, "free")
           \/ MarkTaken(t) \/ (\E b \in owned : MarkFree(t, b)) \/ Count(t) \/ Point(t)
    PROVE  AccessInv'
<1> USE Processes, SharedAssumption
<1>1. CASE Read(t) \/ ReadBitmap(t, "alloc") \/ ReadBitmap(t, "free") \/ Count(t)
  BY <1>1 DEF Read, ReadBitmap, Count, Goto, Inv, AccessInv, TypeInv, KindInv, MutexInv,
              LockInv, Changing, Held, Inside, Remounting, imageVars, contextVars, lockVars,
              threadVars
<1>2. CASE MarkTaken(t)
  <2>1. Min(Blocks \ seen[t]) \in Blocks
    BY <1>2, FirstFitIsFree DEF MarkTaken, Goto
  <2>2. QED
    BY <1>2, <2>1 DEF MarkTaken, Goto, Inv, AccessInv, TypeInv, KindInv, MutexInv, LockInv,
                Changing, Held, Inside, Remounting, contextVars, lockVars
<1>3. CASE \E b \in owned : MarkFree(t, b)
  BY <1>3 DEF MarkFree, Goto, Inv, AccessInv, TypeInv, KindInv, MutexInv, LockInv, Changing,
              Held, Inside, Remounting, contextVars, lockVars
<1>4. CASE Point(t)
  <2>1. kind[t] = "alloc" => block[t] \in Blocks
    BY <1>4 DEF Point, Goto, Inv, DataInv, AccessInv, TypeInv
  <2>2. owned' \subseteq Blocks
    BY <1>4, <2>1 DEF Point, Inv, AccessInv, TypeInv
  <2>3. TypeInv'
    BY <1>4, <2>2 DEF Point, Goto, Inv, AccessInv, TypeInv, Held, Inside, contextVars,
                      lockVars, threadVars
  <2>4. KindInv' /\ MutexInv' /\ LockInv'
    BY <1>4 DEF Point, Goto, Inv, AccessInv, TypeInv, KindInv, MutexInv, LockInv, Changing,
                Held, Inside, Remounting, contextVars, lockVars, threadVars
  <2>5. QED
    BY <2>3, <2>4 DEF AccessInv
<1>5. QED
  BY <1>1, <1>2, <1>3, <1>4
----------------------------------------------------------------------------
\* What threads see of the bitmap is right at the start.
LEMMA DataInit == Init => DataInv
BY DEF Init, DataInv, Changing

\* A step that leaves the bitmap and the files alone, of a thread that is not
\* changing them, leaves the data invariant alone.
LEMMA DataUndisturbed ==
    ASSUME DataInv, NEW t \in Threads, ~ Changing(t), ~ Changing(t)',
           bitmap' = bitmap, owned' = owned,
           \A u \in Threads \ {t} : /\ pc'[u] = pc[u] /\ kind'[u] = kind[u]
                                    /\ seen'[u] = seen[u] /\ block'[u] = block[u]
    PROVE  DataInv'
BY DEF DataInv, Changing

\* Locks, mounts and reads are such steps.
LEMMA DataOutside ==
    ASSUME Inv, NEW t \in Threads,
           \/ \E k \in Kinds : Call(t, k)
           \/ LockMutex(t) \/ LockImage(t) \/ LockNoDevice(t)
           \/ Read(t) \/ UnlockImage(t) \/ UnlockMutex(t)
           \/ MountRead(t) \/ MountMark(t) \/ UnmountMark(t) \/ UnmountClose(t)
    PROVE  DataInv'
<1>1. CASE \E k \in Kinds : Call(t, k)
  BY <1>1, DataUndisturbed DEF Call, Goto, Inv, AccessInv, TypeInv, Changing, imageVars
<1>2. CASE LockMutex(t) \/ LockImage(t) \/ LockNoDevice(t)
  BY <1>2, DataUndisturbed DEF LockMutex, LockImage, LockNoDevice, Goto, Inv, AccessInv,
                               TypeInv, Changing, imageVars, threadVars
<1>3. CASE Read(t) \/ UnlockImage(t) \/ UnlockMutex(t)
  BY <1>3, DataUndisturbed DEF Read, UnlockImage, UnlockMutex, Goto, Inv, AccessInv,
                               TypeInv, Changing, imageVars, threadVars
<1>4. CASE MountRead(t) \/ MountMark(t) \/ UnmountMark(t) \/ UnmountClose(t)
  BY <1>4, DataUndisturbed DEF MountRead, MountMark, UnmountMark, UnmountClose, Goto, Inv,
                               AccessInv, TypeInv, Changing, imageVars, threadVars
<1>5. QED
  BY <1>1, <1>2, <1>3, <1>4

\* The read of the bitmap and the changes of it and of the files.
LEMMA DataChanges ==
    ASSUME Inv, NEW t \in Threads,
           \/ ReadBitmap(t, "alloc") \/ ReadBitmap(t, "free")
           \/ MarkTaken(t) \/ (\E b \in owned : MarkFree(t, b)) \/ Count(t) \/ Point(t)
    PROVE  DataInv'
<1>1. \A u \in Threads \ {t} : pc[u] \notin Inside
  BY Alone DEF Inv, ReadBitmap, MarkTaken, MarkFree, Count, Point, Goto, Changing
<1>2. \A u \in Threads \ {t} : pc'[u] = pc[u] /\ ~ Changing(u) /\ ~ Changing(u)'
  BY <1>1 DEF ReadBitmap, MarkTaken, MarkFree, Count, Point, Goto, Changing, Inside,
              Inv, AccessInv, TypeInv
<1>3. CASE ReadBitmap(t, "alloc") \/ ReadBitmap(t, "free")
  <2>1. owned \subseteq bitmap
    BY <1>2, <1>3 DEF ReadBitmap, Goto, Inv, DataInv, Changing
  <2>2. QED
    BY <1>2, <1>3, <2>1 DEF ReadBitmap, Goto, Inv, AccessInv, TypeInv, DataInv, Changing,
                            imageVars
<1>4. CASE MarkTaken(t)
  <2>1. seen[t] = bitmap /\ owned \subseteq bitmap
    BY <1>4 DEF MarkTaken, Goto, Inv, DataInv
  <2>2. block'[t] \in Blocks \ bitmap
    BY <1>4, FirstFitIsFree DEF MarkTaken, Goto, Inv, AccessInv, TypeInv
  <2>3. QED
    BY <1>2, <1>4, <2>1, <2>2 DEF MarkTaken, Goto, Inv, AccessInv, TypeInv, DataInv, Changing
<1>5. CASE \E b \in owned : MarkFree(t, b)
  <2>1. PICK b \in owned : MarkFree(t, b)
    BY <1>5
  <2>2. seen[t] = bitmap /\ owned \subseteq bitmap /\ block'[t] = b
    BY <2>1 DEF MarkFree, Goto, Inv, AccessInv, TypeInv, DataInv
  <2>3. QED
    BY <1>2, <2>1, <2>2 DEF MarkFree, Goto, Inv, AccessInv, TypeInv, DataInv, Changing
<1>6. CASE Count(t)
  BY <1>2, <1>6 DEF Count, Goto, Inv, AccessInv, TypeInv, DataInv, Changing, threadVars
<1>7. CASE Point(t)
  <2>1. /\ owned \ {block[t]} \subseteq bitmap
        /\ kind[t] = "alloc" => block[t] \in bitmap
    BY <1>7 DEF Point, Goto, Inv, DataInv
  <2>2. owned' \subseteq bitmap'
    BY <1>7, <2>1 DEF Point
  <2>3. \A u \in Threads : ~ Changing(u)'
    BY <1>2, <1>7 DEF Point, Goto, Inv, AccessInv, TypeInv, Changing
  <2>4. QED
    BY <2>2, <2>3 DEF DataInv, Changing
<1>8. QED
  BY <1>3, <1>4, <1>5, <1>6, <1>7
----------------------------------------------------------------------------
\* The invariant holds at the start.
LEMMA InvInit == Init => Inv
BY AccessInit, DataInit DEF Inv

\* Every step keeps the invariant.
LEMMA InvStep == Inv /\ [Next]_vars => Inv'
<1> SUFFICES ASSUME Inv, [Next]_vars PROVE Inv'
  OBVIOUS
<1>1. CASE Next
  <2>1. PICK t \in Threads : \/ \E k \in Kinds : Call(t, k)
                             \/ Operate(t) \/ MountRead(t) \/ UnmountMark(t)
    BY <1>1 DEF Next
  <2>2. AccessInv'
    BY <2>1, AccessTaken, AccessGiven, AccessOperations DEF Inv, Operate
  <2>3. DataInv'
    BY <2>1, DataOutside, DataChanges DEF Operate
  <2>4. QED
    BY <2>2, <2>3 DEF Inv
<1>2. CASE UNCHANGED vars
  BY <1>2 DEF vars, Inv, AccessInv, TypeInv, KindInv, MutexInv, LockInv, DataInv, Changing
<1>3. QED
  BY <1>1, <1>2

\* The locks keep the image to one writer: for any threads and processes, with
\* mounts and unmounts that take no lock, the accesses that lock_operation
\* orders (src/src/ufs_sync.c) stay ordered, and nobody's bitmap gets stale.
THEOREM InvHolds == Spec => []Inv
<1>1. Init => Inv
  BY InvInit
<1>2. Inv /\ [Next]_vars => Inv'
  BY InvStep
<1>3. QED
  BY <1>1, <1>2, PTL DEF Spec

\* Whenever no operation is changing them, every block a file points at is
\* marked in the bitmap, for any threads, processes and data region.
THEOREM OwnedStaysMarked == Spec => []OwnedIsMarked
<1>1. Inv => OwnedIsMarked
  BY DEF Inv, DataInv, OwnedIsMarked
<1>2. QED
  BY <1>1, InvHolds, PTL

\* No allocation hands out a block some file points at, and no write of the
\* bitmap undoes another operation's change, for any threads and processes.
THEOREM NoBlockTwice == Spec => NoDoubleAllocation
<1> DEFINE Safe ==
      \A t \in Threads :
          /\ (pc[t] = "point" /\ kind[t] = "alloc" /\ pc'[t] = "unlockImage") =>
                block[t] \notin owned
          /\ (pc[t] = "mark" /\ pc'[t] = "count") => seen[t] = bitmap
<1>1. Inv => [Safe]_vars
  BY DEF Inv, DataInv
<1>2. QED
  BY <1>1, InvHolds, PTL DEF NoDoubleAllocation
----------------------------------------------------------------------------
(* The superblock. *)

Super == [free : 0 .. CounterValues - 1, state : {"clean", "dirty"}]
SuperInv == super \in Super /\ cache \in [Procs -> Super]

\* The free counter can count the data region.
LEMMA Sizes ==
    /\ Cardinality(Blocks) \in Nat /\ CounterValues \in Nat
    /\ CounterValues > Cardinality(Blocks) /\ IsFiniteSet(Blocks)
BY SharedAssumption, FS_CardinalityType

\* Which steps touch the superblock, and how.
LEMMA SuperUntouched ==
    ASSUME NEW t \in Threads,
           \/ \E k \in Kinds : Call(t, k)
           \/ LockMutex(t) \/ LockImage(t) \/ LockNoDevice(t) \/ Read(t)
           \/ ReadBitmap(t, "alloc") \/ ReadBitmap(t, "free")
           \/ MarkTaken(t) \/ (\E b \in owned : MarkFree(t, b)) \/ Point(t)
           \/ UnlockImage(t) \/ UnlockMutex(t) \/ UnmountClose(t)
    PROVE  super' = super /\ cache' = cache
BY DEF Call, LockMutex, LockImage, LockNoDevice, Read, ReadBitmap, MarkTaken, MarkFree,
       Point, UnlockImage, UnlockMutex, UnmountClose, imageVars, contextVars

\* What each write of the superblock makes of the image and of the caches.
LEMMA SuperWritten ==
    ASSUME SuperInv, NEW t \in Threads,
           MountRead(t) \/ MountMark(t) \/ UnmountMark(t) \/ Count(t)
    PROVE  /\ SuperInv'
           /\ \A q \in Procs \ {ProcessOf[t]} : cache'[q] = cache[q]
           /\ MountRead(t) => /\ super' = super /\ cache'[ProcessOf[t]].free = super.free
                              /\ cache'[ProcessOf[t]].state = "dirty"
           /\ MountMark(t) => super' = cache[ProcessOf[t]] /\ cache' = cache
           /\ UnmountMark(t) => /\ super' = cache'[ProcessOf[t]]
                                /\ cache'[ProcessOf[t]].free = cache[ProcessOf[t]].free
           /\ Count(t) => /\ super' = cache'[ProcessOf[t]]
                          /\ cache'[ProcessOf[t]].state = cache[ProcessOf[t]].state
                          /\ cache'[ProcessOf[t]].free =
                                (cache[ProcessOf[t]].free +
                                    (IF kind[t] = "alloc" THEN CounterValues - 1 ELSE 1))
                                  % CounterValues
<1> DEFINE p == ProcessOf[t]
<1>1. p \in Procs /\ super \in Super /\ cache \in [Procs -> Super] /\ cache[p] \in Super
  BY Processes DEF SuperInv
<1>2. ASSUME MountRead(t)
      PROVE  /\ SuperInv' /\ super' = super
             /\ \A q \in Procs \ {p} : cache'[q] = cache[q]
             /\ cache'[p].free = super.free /\ cache'[p].state = "dirty"
  <2>1. /\ cache' = [cache EXCEPT ![p] = [super EXCEPT !.state = "dirty"]] /\ super' = super
    BY <1>2 DEF MountRead, imageVars
  <2>2. [super EXCEPT !.state = "dirty"] \in Super
    BY <1>1 DEF Super
  <2>3. /\ [super EXCEPT !.state = "dirty"].free = super.free
        /\ [super EXCEPT !.state = "dirty"].state = "dirty"
    BY <1>1 DEF Super
  <2>4. QED
    BY <1>1, <2>1, <2>2, <2>3 DEF SuperInv
<1>3. ASSUME MountMark(t)
      PROVE  SuperInv' /\ super' = cache[p] /\ cache' = cache
  BY <1>1, <1>3 DEF MountMark, SuperInv
<1>4. ASSUME UnmountMark(t)
      PROVE  /\ SuperInv' /\ super' = cache'[p] /\ cache'[p].free = cache[p].free
             /\ \A q \in Procs \ {p} : cache'[q] = cache[q]
  <2>1. cache' = [cache EXCEPT ![p] = [cache[p] EXCEPT !.state = "clean"]] /\ super' = cache'[p]
    BY <1>4 DEF UnmountMark
  <2>2. [cache[p] EXCEPT !.state = "clean"] \in Super
    BY <1>1 DEF Super
  <2>3. [cache[p] EXCEPT !.state = "clean"].free = cache[p].free
    BY <1>1 DEF Super
  <2>4. QED
    BY <1>1, <2>1, <2>2, <2>3 DEF SuperInv
<1>5. ASSUME Count(t)
      PROVE  /\ SuperInv' /\ super' = cache'[p] /\ cache'[p].state = cache[p].state
             /\ \A q \in Procs \ {p} : cache'[q] = cache[q]
             /\ cache'[p].free = (cache[p].free +
                   (IF kind[t] = "alloc" THEN CounterValues - 1 ELSE 1)) % CounterValues
  <2> DEFINE sum == cache[p].free + (IF kind[t] = "alloc" THEN CounterValues - 1 ELSE 1)
             free == sum % CounterValues
  <2>1. /\ cache' = [cache EXCEPT ![p] = [cache[p] EXCEPT !.free = free]] /\ super' = cache'[p]
    BY <1>5 DEF Count
  <2>2. sum \in Nat
    <3>1. cache[p].free \in 0 .. CounterValues - 1
      BY <1>1 DEF Super
    <3>2. QED
      BY <3>1, Sizes
  <2>3. free \in 0 .. CounterValues - 1
    BY <2>2, Sizes
  <2> HIDE DEF free
  <2>4. [cache[p] EXCEPT !.free = free] \in Super
    BY <1>1, <2>3 DEF Super
  <2>5. /\ [cache[p] EXCEPT !.free = free].free = free
        /\ [cache[p] EXCEPT !.free = free].state = cache[p].state
    BY <1>1 DEF Super
  <2>6. QED
    BY <1>1, <2>1, <2>4, <2>5 DEF SuperInv, free
<1>6. QED
  BY <1>2, <1>3, <1>4, <1>5

\* The superblock and its copies have their types at the start.
LEMMA SuperInit == Init => SuperInv
<1>1. Formatted \in Super
  BY Sizes DEF Formatted, Super
<1>2. QED
  BY <1>1 DEF Init, SuperInv

\* Every step keeps their types.
LEMMA SuperStep == SuperInv /\ [Next]_vars => SuperInv'
<1> SUFFICES ASSUME SuperInv, [Next]_vars PROVE SuperInv'
  OBVIOUS
<1>1. CASE Next
  <2>1. PICK t \in Threads : \/ \E k \in Kinds : Call(t, k)
                             \/ Operate(t) \/ MountRead(t) \/ UnmountMark(t)
    BY <1>1 DEF Next
  <2>2. SuperInv' \/ (super' = super /\ cache' = cache)
    BY <2>1, SuperUntouched, SuperWritten DEF Operate
  <2>3. QED
    BY <2>2 DEF SuperInv
<1>2. CASE UNCHANGED vars
  BY <1>2 DEF vars, SuperInv
<1>3. QED
  BY <1>1, <1>2

\* Types, for any threads and processes: the counter wraps, but stays a counter.
THEOREM SharedTypes == Spec => []TypeOK
<1>1. Inv /\ SuperInv => TypeOK
  BY DEF Inv, AccessInv, TypeInv, SuperInv, Super, TypeOK
<1>2. QED
  BY <1>1, InvHolds, SuperInit, SuperStep, PTL DEF Spec
----------------------------------------------------------------------------
(* One process that has the image to itself. *)

Alike == \A t, u \in Threads : ProcessOf[t] = ProcessOf[u]
FreeCount == Cardinality(Blocks \ bitmap)

\* The counter is behind the bitmap while an operation is about to count, and
\* the cache is never behind the image.
CountInv ==
    /\ \A q \in Procs : cache[q].free = super.free
    /\ super.free <= Cardinality(Blocks)
    /\ (\A t \in Threads : pc[t] # "count") => super.free = FreeCount
    /\ \A t \in Threads : pc[t] = "count" =>
          IF kind[t] = "alloc" THEN super.free = FreeCount + 1 ELSE super.free + 1 = FreeCount

\* A mounted image is dirty in the cache and on the image, until it is unmounted.
DirtyInv ==
    /\ \A t \in Threads : pc[t] = "mountMark" => cache[ProcessOf[t]].state = "dirty"
    /\ \A p \in Procs :
          mounted[p] /\ (\A t \in Threads : pc[t] # "unmountClose") =>
              cache[p].state = "dirty" /\ super.state = "dirty"

\* The number of clear bits is at most that of all blocks.
LEMMA FreeCountIsSize == FreeCount \in Nat /\ FreeCount <= Cardinality(Blocks)
<1>1. Blocks \ bitmap \subseteq Blocks
  OBVIOUS
<1>2. QED
  BY <1>1, Sizes, FS_Subset, FS_CardinalityType DEF FreeCount

\* One block more or less in use.
LEMMA OneBlock ==
    ASSUME NEW s \in SUBSET Blocks, NEW b \in Blocks \ s
    PROVE  /\ Cardinality(Blocks \ s) \in Nat /\ Cardinality(Blocks \ (s \cup {b})) \in Nat
           /\ Cardinality(Blocks \ s) = Cardinality(Blocks \ (s \cup {b})) + 1
<1>1. Blocks \ (s \cup {b}) = (Blocks \ s) \ {b} /\ b \in Blocks \ s
  OBVIOUS
<1>2. IsFiniteSet(Blocks \ s) /\ IsFiniteSet(Blocks \ (s \cup {b}))
  BY Sizes, FS_Subset
<1>3. Cardinality((Blocks \ s) \ {b}) = Cardinality(Blocks \ s) - 1
  BY <1>1, <1>2, FS_RemoveElement
<1>4. Cardinality(Blocks \ s) \in Nat /\ Cardinality(Blocks \ (s \cup {b})) \in Nat
  BY <1>2, FS_CardinalityType
<1>5. QED
  BY <1>1, <1>3, <1>4

\* A step that counts nothing and takes no block.
LEMMA CountUndisturbed ==
    ASSUME Inv, CountInv, NEW t \in Threads, pc[t] # "count", pc'[t] # "count",
           bitmap' = bitmap, super'.free = super.free,
           \A q \in Procs : cache'[q].free = super.free,
           \A u \in Threads \ {t} : pc'[u] = pc[u] /\ kind'[u] = kind[u]
    PROVE  CountInv'
BY DEF CountInv, FreeCount

\* Away from the bitmap, steps leave the counter as exact as it was.
LEMMA CountOutside ==
    ASSUME Alike, Inv, SuperInv, CountInv, NEW t \in Threads,
           \/ \E k \in Kinds : Call(t, k)
           \/ LockMutex(t) \/ LockImage(t) \/ LockNoDevice(t) \/ Read(t)
           \/ ReadBitmap(t, "alloc") \/ ReadBitmap(t, "free") \/ Point(t)
           \/ UnlockImage(t) \/ UnlockMutex(t)
           \/ MountRead(t) \/ MountMark(t) \/ UnmountMark(t) \/ UnmountClose(t)
    PROVE  CountInv'
<1>1. bitmap' = bitmap /\ pc[t] # "count" /\ pc'[t] # "count"
  BY DEF Call, LockMutex, LockImage, LockNoDevice, Read, ReadBitmap, Point, UnlockImage,
         UnlockMutex, MountRead, MountMark, UnmountMark, UnmountClose, Goto, imageVars,
         Inv, AccessInv, TypeInv
<1>2. \A u \in Threads \ {t} : pc'[u] = pc[u] /\ kind'[u] = kind[u]
  BY DEF Call, LockMutex, LockImage, LockNoDevice, Read, ReadBitmap, Point, UnlockImage,
         UnlockMutex, MountRead, MountMark, UnmountMark, UnmountClose, Goto, threadVars,
         Inv, AccessInv, TypeInv
<1>3. super'.free = super.free /\ \A q \in Procs : cache'[q].free = super.free
  <2>1. \A q \in Procs : q = ProcessOf[t] /\ cache[q].free = super.free
    BY DEF Alike, Procs, CountInv
  <2>2. CASE MountRead(t) \/ MountMark(t) \/ UnmountMark(t)
    BY <2>1, <2>2, Processes, SuperWritten
  <2>3. CASE ~ (MountRead(t) \/ MountMark(t) \/ UnmountMark(t))
    BY <2>1, <2>3, SuperUntouched
  <2>4. QED
    BY <2>2, <2>3
<1>4. QED
  BY <1>1, <1>2, <1>3, CountUndisturbed

\* Setting or clearing a bit puts the counter one off, until it is counted.
LEMMA CountMarks ==
    ASSUME Inv, CountInv, NEW t \in Threads,
           MarkTaken(t) \/ \E b \in owned : MarkFree(t, b)
    PROVE  CountInv'
<1>1. pc[t] = "mark" /\ pc'[t] = "count" /\ kind' = kind
  BY DEF MarkTaken, MarkFree, Goto, Inv, AccessInv, TypeInv
<1>2. \A u \in Threads \ {t} : pc'[u] = pc[u] /\ pc[u] # "count"
  <2>1. \A u \in Threads \ {t} : pc[u] \notin Inside
    BY <1>1, Alone DEF Inv, Changing
  <2>2. QED
    BY <2>1 DEF MarkTaken, MarkFree, Goto, Inv, AccessInv, TypeInv, Inside
<1>3. super' = super /\ cache' = cache
  BY SuperUntouched
<1>4. super.free = FreeCount /\ seen[t] = bitmap /\ bitmap \subseteq Blocks /\ owned \subseteq bitmap
  BY <1>1, <1>2 DEF CountInv, Inv, DataInv, AccessInv, TypeInv
<1>5. FreeCount \in Nat
  BY FreeCountIsSize
<1>6. CASE MarkTaken(t)
  <2> DEFINE b == Min(Blocks \ seen[t])
  <2>1. kind[t] = "alloc" /\ b \in Blocks \ bitmap
    BY <1>1, <1>6, FirstFitIsFree DEF MarkTaken
  <2>2. bitmap' = bitmap \cup {b}
    <3>1. block'[t] = b
      BY <1>6 DEF MarkTaken, Inv, AccessInv, TypeInv
    <3>2. QED
      BY <1>4, <1>6, <3>1 DEF MarkTaken
  <2> HIDE DEF b
  <2>3. FreeCount = FreeCount' + 1
    BY <1>4, <2>1, <2>2, OneBlock DEF FreeCount
  <2>4. super'.free = FreeCount' + 1
    BY <1>3, <1>4, <2>3
  <2>5. QED
    BY <1>1, <1>2, <1>3, <2>1, <2>4 DEF CountInv
<1>7. CASE \E b \in owned : MarkFree(t, b)
  <2>1. PICK b \in owned : MarkFree(t, b)
    BY <1>7
  <2>2. /\ kind[t] = "free" /\ bitmap' = bitmap \ {b} /\ b \in Blocks \ bitmap'
        /\ bitmap = bitmap' \cup {b} /\ bitmap' \subseteq Blocks
    BY <1>4, <2>1 DEF MarkFree
  <2>3. FreeCount' = FreeCount + 1
    BY <2>2, OneBlock DEF FreeCount
  <2>4. super'.free + 1 = FreeCount'
    BY <1>3, <1>4, <2>3
  <2>5. QED
    BY <1>1, <1>2, <1>3, <2>2, <2>4 DEF CountInv
<1>8. QED
  BY <1>6, <1>7

\* Counting: modulo 2^32, one less is the counter's values less one more.
LEMMA CountCounts ==
    ASSUME Alike, Inv, SuperInv, CountInv, NEW t \in Threads, Count(t)
    PROVE  CountInv'
<1> DEFINE p == ProcessOf[t]
<1>1. pc[t] = "count" /\ pc'[t] = "point" /\ bitmap' = bitmap /\ kind' = kind
  BY DEF Count, Goto, threadVars, Inv, AccessInv, TypeInv
<1>2. \A u \in Threads : pc'[u] # "count"
  <2>1. \A u \in Threads \ {t} : pc[u] \notin Inside
    BY <1>1, Alone DEF Inv, Changing
  <2>2. \A u \in Threads \ {t} : pc'[u] = pc[u]
    BY DEF Count, Goto, Inv, AccessInv, TypeInv
  <2>3. QED
    BY <1>1, <2>1, <2>2 DEF Inside
<1>3. kind[t] \in {"alloc", "free"}
  BY <1>1 DEF Inv, AccessInv, TypeInv, KindInv, Changing
<1>4. /\ super' = cache'[p] /\ cache[p].free = super.free /\ p \in Procs
      /\ cache'[p].free = (super.free + (IF kind[t] = "alloc" THEN CounterValues - 1 ELSE 1))
                            % CounterValues
  BY SuperWritten, Processes DEF CountInv
<1>5. /\ FreeCount \in Nat /\ FreeCount < CounterValues /\ CounterValues \in Nat
      /\ FreeCount' = FreeCount /\ FreeCount <= Cardinality(Blocks)
  BY <1>1, FreeCountIsSize, Sizes DEF FreeCount
<1>6. super.free \in Nat
  BY Sizes DEF SuperInv, Super
<1>7. super'.free = FreeCount
  <2>1. CASE kind[t] = "alloc"
    <3>1. super.free + (CounterValues - 1) = FreeCount + CounterValues
      BY <1>1, <1>5, <2>1 DEF CountInv
    <3>2. (FreeCount + CounterValues) % CounterValues = FreeCount
      BY <1>5
    <3>3. QED
      BY <1>4, <2>1, <3>1, <3>2
  <2>2. CASE kind[t] = "free"
    <3>1. super.free + 1 = FreeCount
      BY <1>1, <2>2 DEF CountInv
    <3>2. FreeCount % CounterValues = FreeCount
      BY <1>5
    <3>3. QED
      BY <1>4, <2>2, <3>1, <3>2
  <2>3. QED
    BY <1>3, <2>1, <2>2
<1>8. \A q \in Procs : q = p
  BY DEF Alike, Procs
<1>9. QED
  BY <1>2, <1>4, <1>5, <1>7, <1>8 DEF CountInv

\* The counter is exact at the start.
LEMMA CountInit == Init => CountInv
<1> SUFFICES ASSUME Init PROVE CountInv
  OBVIOUS
<1>1. Blocks \ bitmap = Blocks
  BY DEF Init
<1>2. /\ super.free = Cardinality(Blocks) /\ FreeCount = Cardinality(Blocks)
      /\ \A q \in Procs : cache[q].free = super.free
      /\ \A t \in Threads : pc[t] # "count"
  BY <1>1 DEF Init, Formatted, FreeCount
<1>3. QED
  BY <1>2, Sizes DEF CountInv

\* With one process, every step keeps the counter exact but for the one being counted.
LEMMA CountStep ==
    ASSUME Alike
    PROVE  Inv /\ SuperInv /\ CountInv /\ [Next]_vars => CountInv'
<1> SUFFICES ASSUME Inv, SuperInv, CountInv, [Next]_vars PROVE CountInv'
  OBVIOUS
<1>1. CASE Next
  <2>1. PICK t \in Threads : \/ \E k \in Kinds : Call(t, k)
                             \/ Operate(t) \/ MountRead(t) \/ UnmountMark(t)
    BY <1>1 DEF Next
  <2>2. QED
    BY <2>1, CountOutside, CountMarks, CountCounts DEF Operate
<1>2. CASE UNCHANGED vars
  BY <1>2 DEF vars, CountInv, FreeCount
<1>3. QED
  BY <1>1, <1>2

\* Between operations the counter on the image is the number of unmarked blocks,
\* over all threads, mounts and unmounts of the one process that uses it.
THEOREM CounterStaysExact ==
    ASSUME \A t, u \in Threads : ProcessOf[t] = ProcessOf[u]
    PROVE  Spec => []CounterIsExact
<1>1. Alike
  BY DEF Alike
<1>2. CountInv => CounterIsExact
  BY DEF CountInv, CounterIsExact, Changing, FreeCount
<1>3. Inv /\ SuperInv /\ CountInv /\ [Next]_vars => CountInv'
  BY <1>1, CountStep
<1>4. QED
  BY <1>2, <1>3, CountInit, InvHolds, SuperInit, SuperStep, PTL DEF Spec

\* So the image can always be mounted again, in the middle of an operation too;
\* with two processes shared_counter shows how it is lost.
THEOREM OneProcessMounts ==
    ASSUME \A t, u \in Threads : ProcessOf[t] = ProcessOf[u]
    PROVE  Spec => []StaysMountable
<1>1. Alike
  BY DEF Alike
<1>2. CountInv => StaysMountable
  BY DEF CountInv, StaysMountable, Valid
<1>3. Inv /\ SuperInv /\ CountInv /\ [Next]_vars => CountInv'
  BY <1>1, CountStep
<1>4. QED
  BY <1>2, <1>3, CountInit, InvHolds, SuperInit, SuperStep, PTL DEF Spec
----------------------------------------------------------------------------
\* Nobody is mounted at the start, so nothing has to be dirty.
LEMMA DirtyInit == Init => DirtyInv
BY Processes DEF Init, DirtyInv

\* Steps that leave the superblock alone.
LEMMA DirtyOutside ==
    ASSUME Inv, DirtyInv, NEW t \in Threads,
           \/ \E k \in Kinds : Call(t, k)
           \/ LockMutex(t) \/ LockImage(t) \/ LockNoDevice(t) \/ Read(t)
           \/ ReadBitmap(t, "alloc") \/ ReadBitmap(t, "free")
           \/ MarkTaken(t) \/ (\E b \in owned : MarkFree(t, b)) \/ Point(t)
           \/ UnlockImage(t) \/ UnlockMutex(t)
    PROVE  DirtyInv'
<1>1. super' = super /\ cache' = cache
  BY SuperUntouched
<1>2. mounted' = mounted
  BY DEF Call, LockMutex, LockImage, LockNoDevice, Read, ReadBitmap, MarkTaken, MarkFree,
         Point, UnlockImage, UnlockMutex, contextVars
<1>3. /\ pc[t] \notin Remounting /\ pc'[t] \notin Remounting
      /\ \A u \in Threads \ {t} : pc'[u] = pc[u]
  BY DEF Call, LockMutex, LockImage, LockNoDevice, Read, ReadBitmap, MarkTaken, MarkFree,
         Point, UnlockImage, UnlockMutex, Goto, Inv, AccessInv, TypeInv, KindInv, Remounting
<1>4. QED
  BY <1>1, <1>2, <1>3 DEF DirtyInv, Remounting

\* Steps that write it, or end a mount.
LEMMA DirtyWrites ==
    ASSUME Alike, Inv, SuperInv, DirtyInv, NEW t \in Threads,
           MountRead(t) \/ MountMark(t) \/ UnmountMark(t) \/ UnmountClose(t) \/ Count(t)
    PROVE  DirtyInv'
<1> DEFINE p == ProcessOf[t]
<1>1. p \in Procs /\ \A q \in Procs : q = p
  BY Processes DEF Alike, Procs
<1>2. \A u \in Threads : ProcessOf[u] = p
  BY DEF Alike
<1>3. \A u \in Threads \ {t} : pc'[u] = pc[u]
  BY DEF MountRead, MountMark, UnmountMark, UnmountClose, Count, Goto, Inv, AccessInv, TypeInv
<1> HIDE DEF p
<1>4. CASE MountRead(t)
  <2>1. /\ ~ mounted[p] /\ mounted' = mounted
        /\ \A u \in Threads : pc[u] = "idle" /\ ProcessOf[u] = p
    BY <1>2, <1>4 DEF MountRead, Quiet, ThreadsOf, p
  <2>2. cache'[p].state = "dirty"
    BY <1>4, SuperWritten DEF p
  <2>3. QED
    BY <1>1, <2>1, <2>2 DEF DirtyInv
<1>5. CASE MountMark(t)
  <2>1. /\ pc[t] = "mountMark" /\ pc'[t] = "idle"
        /\ \A u \in Threads \ {t} : pc'[u] = "idle"
    BY <1>2, <1>3, <1>5 DEF MountMark, Goto, Inv, AccessInv, TypeInv, MutexInv, Remounting
  <2>2. super' = cache[p] /\ cache' = cache /\ cache[p].state = "dirty"
    BY <1>2, <1>5, <2>1, SuperWritten DEF DirtyInv, p
  <2>3. QED
    BY <1>1, <2>1, <2>2 DEF DirtyInv
<1>6. CASE UnmountMark(t)
  <2>1. pc'[t] = "unmountClose" /\ \A u \in Threads \ {t} : pc'[u] = "idle"
    BY <1>2, <1>3, <1>6 DEF UnmountMark, Goto, Quiet, ThreadsOf, Inv, AccessInv, TypeInv, p
  <2>2. QED
    BY <2>1 DEF DirtyInv
<1>7. CASE UnmountClose(t)
  <2>1. mounted' = [mounted EXCEPT ![p] = FALSE] /\ mounted \in [Procs -> BOOLEAN]
    BY <1>7 DEF UnmountClose, Inv, AccessInv, TypeInv, p
  <2>2. ~ mounted'[p]
    BY <1>1, <2>1
  <2>3. /\ pc[t] = "unmountClose" /\ pc'[t] = "idle"
        /\ \A u \in Threads \ {t} : pc'[u] = "idle"
    BY <1>2, <1>3, <1>7 DEF UnmountClose, Goto, Inv, AccessInv, TypeInv, MutexInv, Remounting
  <2>4. QED
    BY <1>1, <2>2, <2>3 DEF DirtyInv
<1>8. CASE Count(t)
  <2>1. pc[t] = "count" /\ pc'[t] = "point" /\ mounted' = mounted
    BY <1>8 DEF Count, Goto, Inv, AccessInv, TypeInv
  <2>2. \A u \in Threads : pc[u] \notin Remounting /\ pc'[u] \notin Remounting
    <3>1. \A u \in Threads : pc[u] \notin Remounting
      BY <1>2, <2>1 DEF Inv, AccessInv, MutexInv, Remounting
    <3>2. QED
      BY <1>3, <2>1, <3>1 DEF Remounting
  <2>3. mounted[p] => cache[p].state = "dirty" /\ super.state = "dirty"
    BY <1>1, <2>2 DEF DirtyInv, Remounting
  <2>4. super' = cache'[p] /\ cache'[p].state = cache[p].state
    BY <1>8, SuperWritten DEF p
  <2>5. QED
    BY <1>1, <2>1, <2>2, <2>3, <2>4 DEF DirtyInv, Remounting
<1>9. QED
  BY <1>4, <1>5, <1>6, <1>7, <1>8

\* With one process, every step keeps both copies dirty while it is mounted.
LEMMA DirtyStep ==
    ASSUME Alike
    PROVE  Inv /\ SuperInv /\ DirtyInv /\ [Next]_vars => DirtyInv'
<1> SUFFICES ASSUME Inv, SuperInv, DirtyInv, [Next]_vars PROVE DirtyInv'
  OBVIOUS
<1>1. CASE Next
  <2>1. PICK t \in Threads : \/ \E k \in Kinds : Call(t, k)
                             \/ Operate(t) \/ MountRead(t) \/ UnmountMark(t)
    BY <1>1 DEF Next
  <2>2. QED
    BY <2>1, DirtyOutside, DirtyWrites DEF Operate
<1>2. CASE UNCHANGED vars
  BY <1>2 DEF vars, DirtyInv
<1>3. QED
  BY <1>1, <1>2

\* The image of a mounted process says so whenever the process is between
\* operations: no operation writes back a superblock that was clean.  With two
\* processes shared_clean shows how one of them hides the other's mount.
THEOREM OneProcessIsDirty ==
    ASSUME \A t, u \in Threads : ProcessOf[t] = ProcessOf[u]
    PROVE  Spec => []DirtyWhileMounted
<1>1. Alike
  BY DEF Alike
<1>2. DirtyInv => DirtyWhileMounted
  <2> SUFFICES ASSUME DirtyInv, NEW p \in Procs, mounted[p], Quiet(p)
               PROVE  super.state = "dirty"
    BY DEF DirtyWhileMounted
  <2>1. \A u \in Threads : pc[u] = "idle"
    BY <1>1 DEF Alike, Procs, Quiet, ThreadsOf
  <2>2. QED
    BY <2>1 DEF DirtyInv
<1>3. Inv /\ SuperInv /\ DirtyInv /\ [Next]_vars => DirtyInv'
  BY <1>1, DirtyStep
<1>4. QED
  BY <1>2, <1>3, DirtyInit, InvHolds, SuperInit, SuperStep, PTL DEF Spec
=============================================================================
