--------------------------- MODULE MetadataProofs ---------------------------
(***************************************************************************)
(* What holds of modes, owners and timestamps in every tree, for all       *)
(* callers and every clock.                                                *)
(***************************************************************************)
EXTENDS Metadata, TLAPS

\* A tree: the root is a directory, and so is everything above a node.
LEMMA TreeOK ==
    /\ Root \in Dir /\ Dir \subseteq Node /\ Above[Root] = {}
    /\ \A n \in Node \ {Root} : Parent[n] \in Dir /\ Parent[n] \in Above[n]
    /\ \A n \in Node : Above[n] \subseteq Dir
BY MetadataAssumption

Time == MinTime .. MaxTime

\* The clock shows times.
LEMMA Clocks == ASSUME NEW t \in 0 .. MaxClock PROVE t \in Time /\ 0 \in Time
BY MetadataAssumption DEF Time
----------------------------------------------------------------------------
(* Arithmetic of modes. *)

\* A permission class without some bits is a class.
LEMMA KeptBits ==
    ASSUME NEW x, NEW y
    PROVE  ClassWithout(x, y) \in 0 .. 7
<1>1. Kept(x, y, 4) \in {0, 4} /\ Kept(x, y, 2) \in {0, 2} /\ Kept(x, y, 1) \in {0, 1}
  BY DEF Kept
<1>2. \A a \in {0, 4}, b \in {0, 2}, c \in {0, 1} : a + b + c \in 0 .. 7
  OBVIOUS
<1>3. QED
  BY <1>1, <1>2 DEF ClassWithout

\* A mode without the bits of the umask is a mode.
LEMMA ModeWithout ==
    ASSUME NEW x, NEW y PROVE Without(x, y) \in 0 .. 511
<1> DEFINE class(w) == ClassWithout((x \div w) % 8, (y \div w) % 8)
<1>1. class(64) \in 0 .. 7 /\ class(8) \in 0 .. 7 /\ class(1) \in 0 .. 7
  BY KeptBits
<1>2. \A a, b, c \in 0 .. 7 : a * 64 + b * 8 + c \in 0 .. 511
  OBVIOUS
<1>3. Without(x, y) = class(64) * 64 + class(8) * 8 + class(1)
  BY DEF Without
<1> HIDE DEF class
<1>4. QED
  BY <1>1, <1>2, <1>3

\* The three octal digits of a mode, each obtained in two ways.
LEMMA ClassesOfMode ==
    ASSUME NEW mode \in 0 .. 511
    PROVE  /\ mode \div 64 \in 0 .. 7 /\ (mode \div 64) % 8 = mode \div 64
           /\ (mode % 64) \div 8 \in 0 .. 7 /\ (mode \div 8) % 8 = (mode % 64) \div 8
           /\ mode % 8 \in 0 .. 7
OBVIOUS

\* A bit test agrees with the table of octal digits.
LEMMA DigitBits ==
    ASSUME NEW d \in 0 .. 7, NEW right \in Rights
    PROVE  BitOf(d, Bit(right)) = 1 <=> right \in Digit(d)
<1>1. d \in {0, 1, 2, 3, 4, 5, 6, 7}
  OBVIOUS
<1>2. CASE right = "r"
  <2>1. BitOf(d, 4) = 1 <=> d \in {4, 5, 6, 7}
    BY DEF BitOf
  <2>2. "r" \in Digit(d) <=> d \in {4, 5, 6, 7}
    BY <1>1 DEF Digit, Rights
  <2>3. QED
    BY <1>2, <2>1, <2>2 DEF Bit
<1>3. CASE right = "w"
  <2>1. BitOf(d, 2) = 1 <=> d \in {2, 3, 6, 7}
    BY DEF BitOf
  <2>2. "w" \in Digit(d) <=> d \in {2, 3, 6, 7}
    BY <1>1 DEF Digit, Rights
  <2>3. QED
    BY <1>3, <2>1, <2>2 DEF Bit
<1>4. CASE right = "x"
  <2>1. BitOf(d, 1) = 1 <=> d \in {1, 3, 5, 7}
    BY DEF BitOf
  <2>2. "x" \in Digit(d) <=> d \in {1, 3, 5, 7}
    BY <1>1 DEF Digit, Rights
  <2>3. QED
    BY <1>4, <2>1, <2>2 DEF Bit
<1>5. QED
  BY <1>2, <1>3, <1>4 DEF Rights
----------------------------------------------------------------------------
(* Type correctness. *)

\* What creation writes is an inode.
LEMMA FreshIsInode ==
    ASSUME NEW mode \in 0 .. 511, NEW c \in Caller, NEW t \in Time
    PROVE  Fresh(mode, c, t) \in Inode
BY DEF Fresh, Inode, Time

\* So is what removal leaves.
LEMMA AbsentIsInode == Absent \in Inode
<1>1. 0 \in Time /\ 0 \in 0 .. 511
  BY MetadataAssumption DEF Time
<1>2. QED
  BY <1>1 DEF Absent, Inode, Time

\* Types hold at the start.
LEMMA TypesInit == Init => TypeOK
<1> SUFFICES ASSUME Init PROVE TypeOK
  OBVIOUS
<1>1. 0 \in Time /\ 0 \in 0 .. MaxClock /\ 493 \in 0 .. 511 /\ 18 \in 0 .. 511
  BY MetadataAssumption DEF Time
<1>2. Fresh(493, Formatter, 0) \in Inode
  BY <1>1, FreshIsInode, MetadataAssumption
<1>3. QED
  BY <1>1, <1>2, AbsentIsInode DEF Init, TypeOK

\* Whom an inode may belong to.
AllUids == {0} \cup Uids \cup {c.uid : c \in Caller}
AllGids == {0} \cup Gids \cup {c.gid : c \in Caller}

\* An inode is a record of a mode, owners and times.
LEMMA InodeIs ==
    Inode = [mode : 0 .. 511, uid : AllUids, gid : AllGids, there : BOOLEAN,
             atime : Time, mtime : Time, ctime : Time]
BY DEF Inode, Time, AllUids, AllGids

\* An inode with a mode, owners or times set is an inode.
LEMMA SetFields ==
    ASSUME NEW i \in Inode
    PROVE  /\ \A mode \in 0 .. 511 : [i EXCEPT !.mode = mode] \in Inode
           /\ \A uid \in AllUids, gid \in AllGids : [i EXCEPT !.uid = uid, !.gid = gid] \in Inode
           /\ \A u, v \in Time : [i EXCEPT !.atime = u, !.mtime = v] \in Inode
           /\ \A t \in Time : [i EXCEPT !.ctime = t] \in Inode
           /\ \A t \in Time : [i EXCEPT !.mtime = t, !.ctime = t] \in Inode
           /\ \A t \in Time : [i EXCEPT !.atime = t] \in Inode
<1>1. \A j \in Inode, mode \in 0 .. 511 : [j EXCEPT !.mode = mode] \in Inode
  BY InodeIs
<1>2. \A j \in Inode, uid \in AllUids : [j EXCEPT !.uid = uid] \in Inode
  BY InodeIs
<1>3. \A j \in Inode, gid \in AllGids : [j EXCEPT !.gid = gid] \in Inode
  BY InodeIs
<1>4. \A j \in Inode, t \in Time : [j EXCEPT !.atime = t] \in Inode
  BY InodeIs
<1>5. \A j \in Inode, t \in Time : [j EXCEPT !.mtime = t] \in Inode
  BY InodeIs
<1>6. \A j \in Inode, t \in Time : [j EXCEPT !.ctime = t] \in Inode
  BY InodeIs
<1>7. \A uid \in AllUids, gid \in AllGids : [i EXCEPT !.uid = uid, !.gid = gid] \in Inode
  BY <1>2, <1>3
<1>8. \A u, v \in Time : [i EXCEPT !.atime = u, !.mtime = v] \in Inode
  BY <1>4, <1>5
<1>9. \A t \in Time : [i EXCEPT !.mtime = t, !.ctime = t] \in Inode
  BY <1>5, <1>6
<1>10. QED
  BY <1>1, <1>4, <1>6, <1>7, <1>8, <1>9

\* What a call changes of an inode is an inode again.
LEMMA ChangedInodes ==
    ASSUME NEW t \in Time
    PROVE  /\ \A i \in Inode, mode \in 0 .. 511 : [[i EXCEPT !.mode = mode] EXCEPT !.ctime = t] \in Inode
           /\ \A i \in Inode, uid \in AllUids, gid \in AllGids :
                 [[i EXCEPT !.uid = uid, !.gid = gid] EXCEPT !.ctime = t] \in Inode
           /\ \A i \in Inode, u, v \in Time :
                 [[i EXCEPT !.atime = u, !.mtime = v] EXCEPT !.ctime = t] \in Inode
<1>1. \A i \in Inode, mode \in 0 .. 511 : [[i EXCEPT !.mode = mode] EXCEPT !.ctime = t] \in Inode
  BY SetFields
<1>2. \A i \in Inode, uid \in AllUids, gid \in AllGids :
         [[i EXCEPT !.uid = uid, !.gid = gid] EXCEPT !.ctime = t] \in Inode
  BY SetFields
<1>3. \A i \in Inode, u, v \in Time :
         [[i EXCEPT !.atime = u, !.mtime = v] EXCEPT !.ctime = t] \in Inode
  BY SetFields
<1>4. QED
  BY <1>1, <1>2, <1>3

\* So is an inode whose contents change now.
LEMMA Touching ==
    ASSUME clock \in Time, NEW i \in Inode PROVE TouchedBoth(i) \in Inode
<1>1. [i EXCEPT !.mtime = clock, !.ctime = clock] \in Inode
  BY SetFields
<1>2. QED
  BY <1>1 DEF TouchedBoth

\* And an inode whose new times were written or not.
LEMMA AfterTouching ==
    ASSUME NEW i \in Inode, NEW j \in AfterTouch(i)
    PROVE  j = i \/ j = TouchedBoth(i)
BY DEF AfterTouch

\* Every call keeps the types.
LEMMA TypesOfCalls ==
    ASSUME TypeOK, NEW c \in Caller, By(c) PROVE TypeOK'
<1>1. clock \in 0 .. MaxClock /\ clock \in Time /\ node \in [Node -> Inode]
  BY MetadataAssumption DEF TypeOK, Time
<1>2. UNCHANGED clock => clock' \in 0 .. MaxClock
  BY <1>1
<1>3. CASE \E n \in Node : \E mode \in Modes : Chmod(c, n, mode)
  <2>1. PICK n \in Node, mode \in Modes : Chmod(c, n, mode)
    BY <1>3
  <2>2. mode \in 0 .. 511
    BY MetadataAssumption
  <2>3. [[node[n] EXCEPT !.mode = mode] EXCEPT !.ctime = clock] \in Inode
    <3>1. node[n] \in Inode
      BY <1>1
    <3>2. QED
      BY <1>1, <2>2, <3>1, ChangedInodes
  <2>4. QED
    BY <1>1, <2>1, <2>3 DEF Chmod, Change, TypeOK
<1>4. CASE \E n \in Node : \E uid \in Uids \cup {node[n].uid}, gid \in Gids \cup {node[n].gid} :
              Chown(c, n, uid, gid)
  <2>1. PICK n \in Node : \E uid \in Uids \cup {node[n].uid}, gid \in Gids \cup {node[n].gid} :
              Chown(c, n, uid, gid)
    BY <1>4
  <2>2. PICK uid \in Uids \cup {node[n].uid}, gid \in Gids \cup {node[n].gid} : Chown(c, n, uid, gid)
    BY <2>1
  <2>3. [[node[n] EXCEPT !.uid = uid, !.gid = gid] EXCEPT !.ctime = clock] \in Inode
    <3>1. node[n] \in Inode
      BY <1>1
    <3>2. node[n].uid \in AllUids /\ node[n].gid \in AllGids
      BY <3>1, InodeIs
    <3>3. uid \in AllUids /\ gid \in AllGids
      BY <3>2 DEF AllUids, AllGids
    <3>4. QED
      BY <1>1, <3>1, <3>3, ChangedInodes
  <2>4. QED
    BY <1>1, <2>2, <2>3 DEF Chown, Change, TypeOK
<1>5. CASE \E n \in Node : \E atime, mtime \in Times \cup {clock} : Utimens(c, n, atime, mtime)
  <2>1. PICK n \in Node, atime \in Times \cup {clock}, mtime \in Times \cup {clock} :
              Utimens(c, n, atime, mtime)
    BY <1>5
  <2>2. atime \in Time /\ mtime \in Time
    BY <1>1, MetadataAssumption DEF Time
  <2>3. [[node[n] EXCEPT !.atime = atime, !.mtime = mtime] EXCEPT !.ctime = clock] \in Inode
    BY <1>1, <2>2, ChangedInodes
  <2>4. QED
    BY <1>1, <2>1, <2>3 DEF Utimens, Change, TypeOK
<1>6. CASE \E n \in Node : Create(c, n)
  <2>1. PICK n \in Node : Create(c, n)
    BY <1>6
  <2>2. Parent[n] \in Node /\ n # Root
    BY <2>1, TreeOK DEF Create, MayChangeNames
  <2>3. InitialMode(n, c) \in 0 .. 511
    BY ModeWithout DEF InitialMode
  <2>4. Fresh(InitialMode(n, c), c, clock) \in Inode
    BY <1>1, <2>3, FreshIsInode
  <2>5. PICK above \in AfterTouch(node[Parent[n]]) :
           node' = [node EXCEPT ![n] = Fresh(InitialMode(n, c), c, clock), ![Parent[n]] = above]
    BY <2>1 DEF Create
  <2>6. above \in Inode
    BY <1>1, <2>2, <2>5, Touching, AfterTouching
  <2>7. node' \in [Node -> Inode]
    BY <1>1, <2>2, <2>4, <2>5, <2>6
  <2>8. filled' \subseteq Node \ Dir
    BY <2>1 DEF Create, TypeOK
  <2>9. QED
    BY <1>1, <2>1, <2>7, <2>8 DEF Create, TypeOK
<1>7. CASE \E n \in Node : Remove(c, n)
  <2>1. PICK n \in Node : Remove(c, n)
    BY <1>7
  <2>2. Parent[n] \in Node /\ n # Root
    BY <2>1, TreeOK DEF Remove, MayChangeNames
  <2>3. PICK above \in AfterTouch(node[Parent[n]]) :
           node' = [node EXCEPT ![n] = Absent, ![Parent[n]] = above]
    BY <2>1 DEF Remove
  <2>4. above \in Inode
    BY <1>1, <2>2, <2>3, Touching, AfterTouching
  <2>5. node' \in [Node -> Inode]
    BY <1>1, <2>2, <2>3, <2>4, AbsentIsInode
  <2>6. handles' \in [Caller -> SUBSET ((Node \ Dir) \X {"r", "w"})]
    BY <2>1 DEF Remove, TypeOK
  <2>7. filled' \subseteq Node \ Dir
    BY <2>1 DEF Remove, TypeOK
  <2>8. QED
    BY <1>1, <2>1, <2>5, <2>6, <2>7 DEF Remove, TypeOK
<1>8. CASE \E n \in Node : \E rights \in Requests : Open(c, n, rights)
  <2>1. PICK n \in Node, rights \in Requests : Open(c, n, rights)
    BY <1>8
  <2>2. {<<n, right>> : right \in rights} \subseteq (Node \ Dir) \X {"r", "w"}
    BY <2>1, MetadataAssumption DEF Open
  <2>3. QED
    BY <1>1, <2>1, <2>2 DEF Open, TypeOK
<1>9. CASE \E n \in Node : Read(c, n) \/ Write(c, n) \/ Truncate(c, n)
  <2>1. PICK n \in Node : Read(c, n) \/ Write(c, n) \/ Truncate(c, n)
    BY <1>9
  <2>2. [node[n] EXCEPT !.atime = clock] \in Inode /\ TouchedBoth(node[n]) \in Inode
    <3>1. node[n] \in Inode
      BY DEF TypeOK
    <3>2. [node[n] EXCEPT !.atime = clock] \in Inode
      BY <1>1, <3>1, SetFields
    <3>3. QED
      BY <1>1, <3>1, <3>2, Touching
  <2>3. node' \in [Node -> Inode]
    BY <1>1, <2>1, <2>2 DEF Read, Write, Truncate, Changed, ShortWrite
  <2>4. seen' \in [Node -> {"yes", "no", "part", "unknown"}]
    BY <2>1 DEF Read, Write, Truncate, Changed, ShortWrite, TypeOK
  <2>5. filled' \subseteq Node \ Dir
    BY <2>1 DEF Read, Write, Truncate, TypeOK
  <2>6. QED
    BY <1>1, <2>1, <2>3, <2>4, <2>5 DEF Read, Write, Truncate, TypeOK
<1>10. CASE (\E mask \in Masks : SetUmask(c, mask)) \/ Close(c)
  BY <1>1, <1>10, MetadataAssumption DEF SetUmask, Close, TypeOK
<1>11. QED
  BY <1>3, <1>4, <1>5, <1>6, <1>7, <1>8, <1>9, <1>10 DEF By

\* Every step keeps the types.
LEMMA TypesStep == TypeOK /\ [Next]_vars => TypeOK'
<1> SUFFICES ASSUME TypeOK, [Next]_vars PROVE TypeOK'
  OBVIOUS
<1>1. CASE \E c \in Caller : By(c)
  BY <1>1, TypesOfCalls
<1>2. CASE Tick
  <2>1. clock' \in 0 .. MaxClock
    BY <1>2 DEF Tick
  <2>2. seen' \in [Node -> {"yes", "no", "part", "unknown"}]
    BY <1>2 DEF Tick, TypeOK
  <2>3. QED
    BY <1>2, <2>1, <2>2 DEF Tick, TypeOK
<1>3. CASE UNCHANGED vars
  BY <1>3 DEF vars, TypeOK
<1>4. QED
  BY <1>1, <1>2, <1>3 DEF Next

\* Modes stay nine bits, and times in the range of their type.
THEOREM MetadataTypes == Spec => []TypeOK
BY TypesInit, TypesStep, PTL DEF Spec

\* A right is granted by exactly one class of the mode, whatever the other two
\* classes say.
THEOREM OneClassCounts == Spec => []ClassesAreExclusive
<1>1. TypeOK => ClassesAreExclusive
  <2> SUFFICES ASSUME TypeOK, NEW n \in Node, NEW c \in Caller, NEW rights \in SUBSET Rights
               PROVE  LET digits == [owner |-> Digit(node[n].mode \div 64),
                                     group |-> Digit((node[n].mode % 64) \div 8),
                                     other |-> Digit(node[n].mode % 8)]
                          class == IF c.uid = node[n].uid THEN "owner"
                                   ELSE IF node[n].gid \in c.groups THEN "group" ELSE "other"
                      IN  Allows(n, c, rights) <=> c.uid = 0 \/ rights \subseteq digits[class]
    BY DEF ClassesAreExclusive
  <2> DEFINE mode == node[n].mode
             class == IF c.uid = node[n].uid THEN "owner"
                      ELSE IF node[n].gid \in c.groups THEN "group" ELSE "other"
             digits == [owner |-> Digit(mode \div 64), group |-> Digit((mode % 64) \div 8),
                        other |-> Digit(mode % 8)]
  <2>1. mode \in 0 .. 511
    BY DEF TypeOK, Inode
  <2>2. PermissionBits(n, c) \in 0 .. 7 /\ digits[class] = Digit(PermissionBits(n, c))
    <3>1. /\ mode \div 64 \in 0 .. 7 /\ (mode \div 64) % 8 = mode \div 64
          /\ (mode % 64) \div 8 \in 0 .. 7 /\ (mode \div 8) % 8 = (mode % 64) \div 8
          /\ mode % 8 \in 0 .. 7
      BY <2>1, ClassesOfMode
    <3>2. CASE c.uid = node[n].uid
      BY <3>1, <3>2 DEF PermissionBits
    <3>3. CASE c.uid # node[n].uid /\ node[n].gid \in c.groups
      BY <3>1, <3>3 DEF PermissionBits
    <3>4. CASE c.uid # node[n].uid /\ node[n].gid \notin c.groups
      BY <3>1, <3>4 DEF PermissionBits
    <3>5. QED
      BY <3>2, <3>3, <3>4
  <2>3. \A right \in rights : BitOf(PermissionBits(n, c), Bit(right)) = 1
                               <=> right \in digits[class]
    BY <2>2, DigitBits
  <2>4. QED
    BY <2>3 DEF Allows
<1>2. QED
  BY <1>1, MetadataTypes, PTL
----------------------------------------------------------------------------
(* Timestamps. *)

\* What one step can do to an inode.
Dated(m) == \/ node'[m] = node[m]
            \/ node'[m] = Absent
            \/ node'[m].ctime = clock
            \/ node'[m] = [node[m] EXCEPT !.atime = clock]

\* Every step dates what it changes.
LEMMA StepsDate == TypeOK /\ [Next]_vars => \A m \in Node : Dated(m)
<1> SUFFICES ASSUME TypeOK, [Next]_vars, NEW m \in Node PROVE Dated(m)
  OBVIOUS
<1>1. node \in [Node -> Inode]
  BY DEF TypeOK
<1>2. node' = node => Dated(m)
  BY DEF Dated
<1>3. CASE \E c \in Caller : By(c)
  <2>1. PICK c \in Caller : By(c)
    BY <1>3
  <2>2. CASE \E n \in Node, inode \in Inode : Change(n, inode)
    <3>1. PICK n \in Node, inode \in Inode : Change(n, inode)
      BY <2>2
    <3>2. [inode EXCEPT !.ctime = clock].ctime = clock
      BY DEF Inode
    <3>3. QED
      BY <1>1, <3>1, <3>2 DEF Change, Dated
  <2>3. ASSUME NEW n \in Node, NEW mode \in Modes, Chmod(c, n, mode)
        PROVE  \E inode \in Inode : Change(n, inode)
    <3>1. mode \in 0 .. 511
      BY MetadataAssumption
    <3>2. [node[n] EXCEPT !.mode = mode] \in Inode
      BY <1>1, <3>1 DEF Inode
    <3>3. QED
      BY <2>3, <3>2 DEF Chmod
  <2>4. ASSUME NEW n \in Node, NEW uid, NEW gid, Chown(c, n, uid, gid)
        PROVE  Dated(m)
    <3>1. [[node[n] EXCEPT !.uid = uid, !.gid = gid] EXCEPT !.ctime = clock].ctime = clock
      BY <1>1 DEF Inode
    <3>2. QED
      BY <1>1, <2>4, <3>1 DEF Chown, Change, Dated
  <2>5. ASSUME NEW n \in Node, NEW u \in Times \cup {clock}, NEW v \in Times \cup {clock},
               Utimens(c, n, u, v)
        PROVE  \E inode \in Inode : Change(n, inode)
    <3>1. u \in Time /\ v \in Time
      BY MetadataAssumption DEF Time, TypeOK
    <3>2. \A i \in Inode : [i EXCEPT !.atime = u, !.mtime = v] \in Inode
      BY <3>1, SetFields
    <3>3. QED
      BY <1>1, <2>5, <3>2 DEF Utimens
  <2>6. \A i \in Inode : TouchedBoth(i).ctime = clock
    BY DEF TouchedBoth, Inode
  <2>7. ASSUME NEW n \in Node, Create(c, n) PROVE Dated(m)
    <3>1. Parent[n] \in Node /\ n # Root
      BY <2>7, TreeOK DEF Create, MayChangeNames
    <3>2. Fresh(InitialMode(n, c), c, clock).ctime = clock
      BY DEF Fresh
    <3>3. n # Parent[n]
      BY <2>7 DEF Create, MayChangeNames, Reaches
    <3>4. PICK above \in AfterTouch(node[Parent[n]]) :
             node' = [node EXCEPT ![n] = Fresh(InitialMode(n, c), c, clock), ![Parent[n]] = above]
      BY <2>7 DEF Create
    <3>5. above = node[Parent[n]] \/ above.ctime = clock
      BY <1>1, <2>6, <3>1, <3>4, AfterTouching
    <3>6. QED
      BY <1>1, <3>1, <3>2, <3>3, <3>4, <3>5 DEF Dated
  <2>8. ASSUME NEW n \in Node, Remove(c, n) PROVE Dated(m)
    <3>1. Parent[n] \in Node /\ n # Root /\ Parent[n] \in Above[n]
      BY <2>8, TreeOK DEF Remove, MayChangeNames
    <3>2. n # Parent[n]
      BY <2>8, <3>1 DEF Remove
    <3>3. PICK above \in AfterTouch(node[Parent[n]]) :
             node' = [node EXCEPT ![n] = Absent, ![Parent[n]] = above]
      BY <2>8 DEF Remove
    <3>4. above = node[Parent[n]] \/ above.ctime = clock
      BY <1>1, <2>6, <3>1, <3>3, AfterTouching
    <3>5. QED
      BY <1>1, <3>1, <3>2, <3>3, <3>4 DEF Dated
  <2>9. ASSUME NEW n \in Node, Read(c, n) \/ Write(c, n) \/ Truncate(c, n) PROVE Dated(m)
    BY <1>1, <2>6, <2>9 DEF Read, Write, Truncate, Changed, ShortWrite, Dated
  <2>10. ASSUME NEW n \in Node, NEW rights \in Requests, Open(c, n, rights) PROVE node' = node
    BY <2>10 DEF Open
  <2>11. (\E mask \in Masks : SetUmask(c, mask)) \/ Close(c) => node' = node
    BY DEF SetUmask, Close
  <2>12. QED
    BY <1>2, <2>1, <2>2, <2>3, <2>4, <2>5, <2>7, <2>8, <2>9, <2>10, <2>11 DEF By
<1>4. CASE Tick \/ UNCHANGED vars
  BY <1>2, <1>4 DEF Tick, vars
<1>5. QED
  BY <1>3, <1>4 DEF Next

\* Whatever a caller changes of an inode, but for the access time of a read,
\* carries the time of the change: ufs_utimens cannot set the change time.
THEOREM NoForgedChange == Spec => ChangesAreDated
<1>1. TypeOK /\ [Next]_vars =>
         [\A n \in Node :
            ([node'[n] EXCEPT !.atime = node[n].atime] # node[n] /\ node'[n].there)
                => node'[n].ctime = clock]_vars
  <2> SUFFICES ASSUME TypeOK, [Next]_vars, NEW n \in Node, node'[n].there,
                      [node'[n] EXCEPT !.atime = node[n].atime] # node[n]
               PROVE  node'[n].ctime = clock
    OBVIOUS
  <2>1. Dated(n)
    BY StepsDate
  <2>2. node[n] \in Inode
    BY DEF TypeOK
  <2>3. node'[n] # node[n]
    BY <2>2 DEF Inode
  <2>4. node'[n] # [node[n] EXCEPT !.atime = clock]
    BY <2>2 DEF Inode
  <2>5. node'[n] # Absent
    BY DEF Absent
  <2>6. QED
    BY <2>1, <2>3, <2>4, <2>5 DEF Dated
<1>2. QED
  BY <1>1, MetadataTypes, PTL DEF Spec, ChangesAreDated

\* The change time is never before the epoch, whatever times callers ask for.
ChangedSince == \A n \in Node : node[n].ctime >= 0

\* The age of an access time that ufs_should_update_atime takes is in the range
\* of its type: an access time that could make it overflow is older than the
\* change time and the age is not taken.
THEOREM AgesInRange == Spec => []AgesAreInRange
<1>1. Init => ChangedSince
  BY DEF Init, ChangedSince, Fresh, Absent
<1>2. TypeOK /\ ChangedSince /\ [Next]_vars => ChangedSince'
  <2> SUFFICES ASSUME TypeOK, ChangedSince, [Next]_vars, NEW n \in Node PROVE node'[n].ctime >= 0
    BY DEF ChangedSince
  <2>1. Dated(n)
    BY StepsDate
  <2>2. node[n] \in Inode /\ clock \in 0 .. MaxClock
    BY DEF TypeOK
  <2>3. [node[n] EXCEPT !.atime = clock].ctime = node[n].ctime
    BY <2>2 DEF Inode
  <2>4. Absent.ctime = 0 /\ clock >= 0
    BY <2>2, MetadataAssumption DEF Absent
  <2>5. node'[n].ctime \in {node[n].ctime, 0, clock}
    BY <2>1, <2>3, <2>4 DEF Dated
  <2>6. node[n].ctime >= 0
    BY DEF ChangedSince
  <2>7. QED
    BY <2>4, <2>5, <2>6
<1>3. TypeOK /\ ChangedSince => AgesAreInRange
  <2> SUFFICES ASSUME TypeOK, ChangedSince, NEW n \in Node, AgeCounts(n)
               PROVE  Age(n) \in MinTime .. MaxTime
    BY DEF AgesAreInRange
  <2>1. /\ node[n].atime \in Int /\ node[n].ctime \in Int /\ node[n].atime <= MaxTime
        /\ clock \in Int /\ 0 <= clock /\ clock <= MaxTime
    BY MetadataAssumption DEF TypeOK, Inode
  <2>2. 0 <= node[n].ctime /\ ~ (node[n].atime < node[n].ctime)
    BY DEF ChangedSince, AgeCounts
  <2>3. QED
    BY <2>1, <2>2, MetadataAssumption DEF Age
<1>4. QED
  BY <1>1, <1>2, <1>3, MetadataTypes, PTL DEF Spec
\* Reading and writing keep the order of the times that ReadingShows tells.
LEMMA TimesKeepOrder ==
    ASSUME TypeOK, ReadingShows, NEW c \in Caller, By(c), NEW m \in Node \ Dir, node'[m].there
    PROVE  /\ seen'[m] = "yes" => node'[m].atime >= node'[m].mtime
           /\ seen'[m] = "no" => node'[m].atime <= node'[m].mtime
<1> DEFINE Order == /\ seen'[m] = "yes" => node'[m].atime >= node'[m].mtime
                    /\ seen'[m] = "no" => node'[m].atime <= node'[m].mtime
<1>1. /\ node \in [Node -> Inode] /\ seen \in [Node -> {"yes", "no", "part", "unknown"}]
      /\ node[m] \in Inode /\ m \in Node
  BY DEF TypeOK
<1>2. /\ node[m].atime \in Int /\ node[m].mtime \in Int /\ node[m].ctime \in Int
      /\ clock \in Int
  BY <1>1, MetadataAssumption DEF Inode, TypeOK
<1>3. ASSUME seen'[m] = seen[m], node'[m].atime = node[m].atime, node'[m].mtime = node[m].mtime,
             node[m].there
      PROVE  Order
  BY <1>3 DEF ReadingShows
<1>4. node'[m] = node[m] /\ seen'[m] = seen[m] => Order
  BY <1>3
<1>5. ASSUME NEW n \in Node, NEW mode \in Modes, Chmod(c, n, mode) PROVE Order
  <2> DEFINE new == [[node[n] EXCEPT !.mode = mode] EXCEPT !.ctime = clock]
  <2>1. new.atime = node[n].atime /\ new.mtime = node[n].mtime
    BY <1>1 DEF Inode
  <2>2. node' = [node EXCEPT ![n] = new] /\ seen' = seen /\ node[n].there
    BY <1>5 DEF Chmod, Change, Reaches
  <2> HIDE DEF new
  <2>3. QED
    BY <1>1, <1>3, <1>4, <2>1, <2>2
<1>6. ASSUME NEW n \in Node, NEW uid, NEW gid, Chown(c, n, uid, gid) PROVE Order
  <2> DEFINE new == [[node[n] EXCEPT !.uid = uid, !.gid = gid] EXCEPT !.ctime = clock]
  <2>1. new.atime = node[n].atime /\ new.mtime = node[n].mtime
    BY <1>1 DEF Inode
  <2>2. node' = [node EXCEPT ![n] = new] /\ seen' = seen /\ node[n].there
    BY <1>6 DEF Chown, Change, Reaches
  <2> HIDE DEF new
  <2>3. QED
    BY <1>1, <1>3, <1>4, <2>1, <2>2
<1>7. ASSUME NEW n \in Node, NEW u, NEW v, Utimens(c, n, u, v) PROVE Order
  <2>1. CASE m = n
    BY <1>1, <1>7, <2>1 DEF Utimens
  <2>2. CASE m # n
    BY <1>1, <1>4, <1>7, <2>2 DEF Utimens, Change
  <2>3. QED
    BY <2>1, <2>2
<1>8. ASSUME NEW n \in Node, Create(c, n) PROVE Order
  <2>1. Parent[n] \in Dir /\ n # Root
    BY <1>8, TreeOK DEF Create, MayChangeNames
  <2>2. CASE m = n
    <3>1. node'[m] = Fresh(InitialMode(n, c), c, clock)
      BY <1>1, <1>8, <2>1, <2>2 DEF Create, AfterTouch
    <3>2. node'[m].atime = clock /\ node'[m].mtime = clock /\ seen'[m] = "no"
      BY <1>1, <1>8, <2>2, <3>1 DEF Create, Fresh
    <3>3. QED
      BY <1>2, <3>2
  <2>3. CASE m # n
    BY <1>1, <1>4, <1>8, <2>1, <2>3 DEF Create
  <2>4. QED
    BY <2>2, <2>3
<1>9. ASSUME NEW n \in Node, Remove(c, n) PROVE Order
  <2>1. Parent[n] \in Dir /\ n # Root
    BY <1>9, TreeOK DEF Remove, MayChangeNames
  <2>2. m # n
    BY <1>1, <1>9, <2>1 DEF Remove, Absent
  <2>3. QED
    BY <1>1, <1>4, <1>9, <2>1, <2>2 DEF Remove
<1>10. ASSUME NEW n \in Node, Read(c, n) PROVE Order
  <2>1. CASE m # n
    BY <1>1, <1>4, <1>10, <2>1 DEF Read
  <2>2. CASE m = n /\ seen'[m] = "unknown"
    BY <2>2
  <2>3. CASE m = n /\ seen'[m] # "unknown"
    <3>1. /\ node' = IF ShouldUpdate(n) THEN [node EXCEPT ![n].atime = clock] ELSE node
          /\ seen'[m] = IF node[m].mtime <= clock THEN "yes" ELSE "unknown"
      BY <1>1, <1>10, <2>3 DEF Read
    <3>2. CASE ShouldUpdate(n)
      <4>1. node'[m].atime = clock /\ node'[m].mtime = node[m].mtime
        BY <1>1, <2>3, <3>1, <3>2 DEF Inode
      <4>2. QED
        BY <1>2, <3>1, <4>1
    <3>3. CASE ~ ShouldUpdate(n)
      <4>1. node' = node /\ ~ (node[m].atime < node[m].mtime)
        BY <2>3, <3>1, <3>3 DEF ShouldUpdate, AgeCounts
      <4>2. QED
        BY <1>2, <3>1, <4>1
    <3>4. QED
      BY <3>2, <3>3
  <2>4. QED
    BY <2>1, <2>2, <2>3
<1>11. ASSUME NEW n \in Node, Write(c, n) \/ Truncate(c, n) PROVE Order
  <2>1. CASE m # n
    BY <1>1, <1>4, <1>11, <2>1 DEF Write, Truncate, Changed, ShortWrite
  <2>2. CASE m = n /\ seen'[m] \notin {"yes", "no"}
    BY <2>2
  <2>3. CASE m = n /\ seen'[m] \in {"yes", "no"}
    <3>1. /\ node' = [node EXCEPT ![n] = TouchedBoth(node[n])]
          /\ seen'[m] = IF node[m].atime <= clock THEN "no" ELSE "unknown"
      BY <1>1, <1>11, <2>3 DEF Write, Truncate, Changed, ShortWrite
    <3>2. node'[m].mtime = clock /\ node'[m].atime = node[m].atime
      BY <1>1, <2>3, <3>1 DEF TouchedBoth, Inode
    <3>3. QED
      BY <1>2, <3>1, <3>2
  <2>4. QED
    BY <2>1, <2>2, <2>3
<1>12. ASSUME NEW n \in Node, NEW rights \in Requests, Open(c, n, rights) PROVE Order
  BY <1>4, <1>12 DEF Open
<1>13. (\E mask \in Masks : SetUmask(c, mask)) \/ Close(c) => Order
  BY <1>4 DEF SetUmask, Close
<1>14. QED
  BY <1>5, <1>6, <1>7, <1>8, <1>9, <1>10, <1>11, <1>12, <1>13 DEF By

\* The access and modification times of a file tell whether it was read since it
\* was last written, unless somebody set them or the clock, or the last read or
\* write did not get to its end.
THEOREM RelatimeWorks == Spec => []ReadingShows
<1>1. Init => ReadingShows
  BY MetadataAssumption DEF Init, ReadingShows, Absent
<1>2. TypeOK /\ ReadingShows /\ [Next]_vars => ReadingShows'
  <2> SUFFICES ASSUME TypeOK, ReadingShows, [Next]_vars, NEW m \in Node \ Dir, node'[m].there
               PROVE  /\ seen'[m] = "yes" => node'[m].atime >= node'[m].mtime
                      /\ seen'[m] = "no" => node'[m].atime <= node'[m].mtime
    BY DEF ReadingShows
  <2>1. CASE \E c \in Caller : By(c)
    BY <2>1, TimesKeepOrder
  <2>2. CASE Tick
    <3>1. seen'[m] \in {seen[m], "unknown"} /\ node' = node
      BY <2>2 DEF Tick
    <3>2. QED
      BY <3>1 DEF ReadingShows
  <2>3. CASE UNCHANGED vars
    BY <2>3 DEF vars, ReadingShows
  <2>4. QED
    BY <2>1, <2>2, <2>3 DEF Next
<1>3. QED
  BY <1>1, <1>2, MetadataTypes, PTL DEF Spec
----------------------------------------------------------------------------
(* Rights.                                                                 *)

\* What permissions are computed from.
Guard(i) == <<i.mode, i.uid, i.gid, i.there>>

\* A call of somebody who is not the superuser and owns no node of a way leaves
\* the guards of that way alone, or removes the node it leads to.
LEMMA StrangersChangeNothing ==
    ASSUME TypeOK, NEW a \in Caller, By(a), a.uid # 0,
           NEW way \in SUBSET Node, \A m \in way : node'[m].uid # a.uid
    PROVE  \A m \in way : \/ Guard(node'[m]) = Guard(node[m])
                          \/ /\ ~ node'[m].there
                             /\ \A k \in Node : m \in Above[k] => ~ node[k].there
<1> DEFINE Stays(m) == Guard(node'[m]) = Guard(node[m])
           Gone(m) == ~ node'[m].there /\ \A k \in Node : m \in Above[k] => ~ node[k].there
           Goal == \A m \in way : Stays(m) \/ Gone(m)
<1>1. node \in [Node -> Inode] /\ DOMAIN node = Node
  BY DEF TypeOK
<1>2. ASSUME NEW n \in Node, NEW i \in Inode, node' = [node EXCEPT ![n] = i],
             i.uid = a.uid \/ Guard(i) = Guard(node[n])
      PROVE  Goal
  BY <1>1, <1>2
<1>3. node' = node => Goal
  OBVIOUS
<1>4. \A i \in Inode : /\ Guard(TouchedBoth(i)) = Guard(i)
                       /\ \A j \in AfterTouch(i) : Guard(j) = Guard(i)
  <2>1. \A i \in Inode : Guard(TouchedBoth(i)) = Guard(i)
    BY DEF TouchedBoth, Inode, Guard
  <2>2. QED
    BY <2>1, AfterTouching
<1>5. ASSUME NEW n \in Node, NEW mode \in Modes, Chmod(a, n, mode) PROVE Goal
  <2> DEFINE i == [[node[n] EXCEPT !.mode = mode] EXCEPT !.ctime = clock]
  <2>1. i.uid = node[n].uid
    BY <1>1 DEF Inode
  <2>2. node' = [node EXCEPT ![n] = i] /\ node[n].uid = a.uid
    BY <1>5 DEF Chmod, Change, Owns
  <2> HIDE DEF i
  <2>3. n \notin way
    BY <1>1, <2>1, <2>2
  <2>4. QED
    BY <1>1, <2>2, <2>3
<1>6. ASSUME NEW n \in Node, NEW uid, NEW gid, Chown(a, n, uid, gid) PROVE Goal
  <2> DEFINE i == [[node[n] EXCEPT !.uid = uid, !.gid = gid] EXCEPT !.ctime = clock]
  <2>1. i.uid = uid
    BY <1>1 DEF Inode
  <2>2. node' = [node EXCEPT ![n] = i] /\ uid = a.uid
    BY <1>6 DEF Chown, Change
  <2> HIDE DEF i
  <2>3. n \notin way
    BY <1>1, <2>1, <2>2
  <2>4. QED
    BY <1>1, <2>2, <2>3
<1>7. ASSUME NEW n \in Node, NEW u, NEW v, Utimens(a, n, u, v) PROVE Goal
  <2> DEFINE i == [[node[n] EXCEPT !.atime = u, !.mtime = v] EXCEPT !.ctime = clock]
  <2>1. i.uid = node[n].uid
    BY <1>1 DEF Inode
  <2>2. node' = [node EXCEPT ![n] = i] /\ node[n].uid = a.uid
    BY <1>7 DEF Utimens, Change, Owns
  <2> HIDE DEF i
  <2>3. n \notin way
    BY <1>1, <2>1, <2>2
  <2>4. QED
    BY <1>1, <2>2, <2>3
<1>8. ASSUME NEW n \in Node, Create(a, n) PROVE Goal
  <2> DEFINE new == Fresh(InitialMode(n, a), a, clock)
  <2>1. Parent[n] \in Node /\ n # Parent[n]
    BY <1>8, TreeOK DEF Create, MayChangeNames, Reaches
  <2>2. PICK above \in AfterTouch(node[Parent[n]]) :
           node' = [node EXCEPT ![n] = new, ![Parent[n]] = above]
    BY <1>8 DEF Create
  <2>3. new.uid = a.uid
    BY DEF Fresh
  <2> HIDE DEF new
  <2>4. n \notin way
    BY <1>1, <2>1, <2>2, <2>3
  <2>5. QED
    BY <1>1, <1>4, <2>1, <2>2, <2>4
<1>9. ASSUME NEW n \in Node, Remove(a, n) PROVE Goal
  <2>1. Parent[n] \in Node /\ Parent[n] \in Above[n]
    BY <1>9, TreeOK DEF Remove, MayChangeNames
  <2>2. n # Parent[n] /\ \A k \in Node : n \in Above[k] => ~ node[k].there
    BY <1>9, <2>1 DEF Remove
  <2>3. PICK above \in AfterTouch(node[Parent[n]]) :
           node' = [node EXCEPT ![n] = Absent, ![Parent[n]] = above]
    BY <1>9 DEF Remove
  <2>4. Gone(n)
    BY <1>1, <2>1, <2>2, <2>3 DEF Absent
  <2>5. \A m \in way : m # n => Stays(m)
    BY <1>1, <1>4, <2>1, <2>2, <2>3
  <2> HIDE DEF Gone, Stays
  <2>6. QED
    BY <2>4, <2>5
<1>10. ASSUME NEW n \in Node, Read(a, n) \/ Write(a, n) \/ Truncate(a, n) PROVE Goal
  <2>1. Guard([node[n] EXCEPT !.atime = clock]) = Guard(node[n])
    BY <1>1 DEF Inode, Guard
  <2>2. node' = node \/ node' = [node EXCEPT ![n] = [node[n] EXCEPT !.atime = clock]]
        \/ node' = [node EXCEPT ![n] = TouchedBoth(node[n])]
    BY <1>10 DEF Read, Write, Truncate, Changed, ShortWrite
  <2>3. QED
    BY <1>1, <1>4, <2>1, <2>2
<1>11. ASSUME NEW n \in Node, NEW rights \in Requests, Open(a, n, rights) PROVE node' = node
  BY <1>11 DEF Open
<1>12. (\E mask \in Masks : SetUmask(a, mask)) \/ Close(a) => node' = node
  BY DEF SetUmask, Close
<1> HIDE DEF Goal
<1>13. Goal
  BY <1>3, <1>5, <1>6, <1>7, <1>8, <1>9, <1>10, <1>11, <1>12 DEF By
<1>14. QED
  BY <1>13 DEF Goal

\* Guards decide what a caller can do.
LEMMA GuardsDecide ==
    ASSUME NEW n \in Node, NEW c \in Caller, NEW right \in Can(n, c)',
           \A m \in Above[n] \cup {n} : Guard(node'[m]) = Guard(node[m])
    PROVE  right \in Can(n, c)
<1>1. \A m \in Above[n] \cup {n} :
         /\ node'[m].mode = node[m].mode /\ node'[m].uid = node[m].uid
         /\ node'[m].gid = node[m].gid /\ node'[m].there = node[m].there
  BY DEF Guard
<1>2. \A m \in Above[n] \cup {n} : PermissionBits(m, c)' = PermissionBits(m, c)
  BY <1>1 DEF PermissionBits
<1>3. \A m \in Above[n] \cup {n} : \A rights : Allows(m, c, rights)' <=> Allows(m, c, rights)
  BY <1>2 DEF Allows
<1>4. right \in Rights /\ Reaches(n, c)' /\ Allows(n, c, {right})'
  BY DEF Can
<1>5. Reaches(n, c)
  <2>1. node'[n].there = node[n].there
    BY <1>1
  <2>2. QED
    BY <1>3, <1>4, <2>1 DEF Reaches
<1>6. QED
  BY <1>3, <1>4, <1>5 DEF Can

\* Nobody gains a right to a node by a call of somebody who is neither the
\* superuser nor the owner of the node or of a directory on the way to it.
THEOREM OwnersGrantRights == Spec => RightsComeFromOwners
<1>1. TypeOK =>
         [\A c \in Caller, n \in Node :
            (\E right \in Rights : right \in Can(n, c)' /\ right \notin Can(n, c)) =>
                \A a \in Caller :
                    By(a) => a.uid = 0 \/ \E m \in Above[n] \cup {n} : node'[m].uid = a.uid]_vars
  <2> SUFFICES ASSUME TypeOK, NEW c \in Caller, NEW n \in Node,
                      NEW right \in Rights, right \in Can(n, c)', right \notin Can(n, c),
                      NEW a \in Caller, By(a), a.uid # 0,
                      \A m \in Above[n] \cup {n} : node'[m].uid # a.uid
               PROVE  FALSE
    OBVIOUS
  <2> DEFINE way == Above[n] \cup {n}
  <2>1. way \in SUBSET Node
    BY TreeOK
  <2>2. \A m \in way : \/ Guard(node'[m]) = Guard(node[m])
                       \/ ~ node'[m].there /\ \A k \in Node : m \in Above[k] => ~ node[k].there
    BY <2>1, StrangersChangeNothing
  <2>3. node'[n].there
    BY DEF Can, Reaches
  <2>4. Guard(node'[n]) = Guard(node[n]) /\ node[n].there
    BY <2>2, <2>3 DEF Guard
  <2>5. \A m \in way : Guard(node'[m]) = Guard(node[m])
    BY <2>2, <2>4
  <2>6. QED
    BY <2>5, GuardsDecide
<1>2. QED
  BY <1>1, MetadataTypes, PTL DEF RightsComeFromOwners
=============================================================================
