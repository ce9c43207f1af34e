------------------------------ MODULE Metadata ------------------------------
(***************************************************************************)
(* Modes, owners and timestamps (src/src/metadata.c), where they are asked *)
(* for (path resolution, names, descriptors) and where they are set.       *)
(*                                                                         *)
(* Every call holds the operation lock and the image lock, so it is one    *)
(* step; callers are the identities processes run under.  The tree is made *)
(* of nodes with fixed names and parents, which come and go; there are no  *)
(* hard links.  A time is a number of seconds; nanoseconds only break ties *)
(* and are left out.  Of its bytes a file has here only whether there are  *)
(* any.  A block transfer may fail (MayFail) and end a call where it is; a *)
(* transaction that fails has written its inode or not, and what mounts    *)
(* make of the journal it leaves is the subject of the module Journal.     *)
(***************************************************************************)
EXTENDS Integers, FiniteSets

CONSTANTS
    Caller,         \* [uid, gid, groups]: geteuid, getegid, and it with getgroups
    Formatter,      \* the caller that formatted the image
    Node, Dir,      \* the nodes, and those of them that are directories
    Above,          \* the directories on the way to each node
    Parent,         \* the last of them
    Requests,       \* the rights callers open files with
    Masks,          \* the umasks processes set
    Modes,          \* the modes callers ask ufs_chmod for
    Uids, Gids,     \* the owners and groups they ask ufs_chown for
    Times,          \* the times they ask ufs_utimens for
    Day,            \* 24 * 60 * 60
    MinTime, MaxTime,   \* the range of int64_t
    MaxClock,       \* bound: the last second
    MayJump,        \* whether CLOCK_REALTIME is set back and forth
    MayFail         \* whether block transfers fail

Root == "/"

ASSUME MetadataAssumption ==
    /\ Formatter \in Caller /\ {Root} \subseteq Dir /\ Dir \subseteq Node
    /\ \A n \in Node \ {Root} : Parent[n] \in Above[n] /\ Above[n] \subseteq Dir
    /\ Above[Root] = {} /\ \A c \in Caller : c.gid \in c.groups
    /\ Requests \subseteq SUBSET {"r", "w"}
    /\ Masks \cup Modes \subseteq 0 .. 511
    /\ MaxTime \in Nat /\ MinTime = - MaxTime - 1 /\ Times \subseteq MinTime .. MaxTime
    /\ Day \in Nat \ {0} /\ MaxClock \in 0 .. MaxTime
    /\ MayJump \in BOOLEAN /\ MayFail \in BOOLEAN

VARIABLES
    node,       \* the inodes: mode, owner, group and the three timestamps
    umask,      \* current_ufs_umask of each caller's process
    handles,    \* the rights each caller's descriptors were opened with
    filled,     \* the files that have bytes
    clock,      \* CLOCK_REALTIME
    seen        \* history: whether each file was read since it was last written

vars == <<node, umask, handles, filled, clock, seen>>

Rights == {"r", "w", "x"}
Absent == [mode |-> 0, uid |-> 0, gid |-> 0, atime |-> 0, mtime |-> 0, ctime |-> 0, there |-> FALSE]

Fresh(mode, c, now) ==
    [mode |-> mode, uid |-> c.uid, gid |-> c.gid,
     atime |-> now, mtime |-> now, ctime |-> now, there |-> TRUE]

Init ==
    /\ node = [n \in Node |-> IF n = Root THEN Fresh(493, Formatter, 0) ELSE Absent]
    /\ umask = [c \in Caller |-> 18]
    /\ handles = [c \in Caller |-> {}]
    /\ filled = {}
    /\ clock = 0
    /\ seen = [n \in Node |-> "no"]
----------------------------------------------------------------------------
(* Permissions.  A mode is a number: nine bits, three for each class. *)

\* The weight of a right in its class.
Bit(right) == CASE right = "r" -> 4 [] right = "w" -> 2 [] right = "x" -> 1
BitOf(x, weight) == (x \div weight) % 2

\* mode & ~mask, of one class and of all three.
Kept(mode, mask, weight) ==
    IF BitOf(mode, weight) = 1 /\ BitOf(mask, weight) = 0 THEN weight ELSE 0
ClassWithout(mode, mask) == Kept(mode, mask, 4) + Kept(mode, mask, 2) + Kept(mode, mask, 1)
Without(mode, mask) == LET class(w) == ClassWithout((mode \div w) % 8, (mask \div w) % 8)
                       IN  class(64) * 64 + class(8) * 8 + class(1)

\* Mutant: a member of the group has the rights of the others, too.
CumulativeBits(n, c) ==
    IF c.uid = node[n].uid THEN node[n].mode \div 64
    ELSE IF node[n].gid \in c.groups
    THEN (IF (node[n].mode \div 8) % 8 >= node[n].mode % 8
          THEN (node[n].mode \div 8) % 8 ELSE node[n].mode % 8)
    ELSE node[n].mode % 8

\* The bits of the one class a caller is in.
PermissionBits(n, c) ==
    IF c.uid = node[n].uid THEN (node[n].mode \div 64) % 8
    ELSE IF node[n].gid \in c.groups THEN (node[n].mode \div 8) % 8
    ELSE node[n].mode % 8

\* ufs_mode_allows
Allows(n, c, rights) ==
    c.uid = 0 \/ \A right \in rights : BitOf(PermissionBits(n, c), Bit(right)) = 1

\* resolve_absolute: every directory on the way has to be searchable.
Reaches(n, c) == node[n].there /\ \A d \in Above[n] : Allows(d, c, {"x"})

Can(n, c) == {right \in Rights : Reaches(n, c) /\ Allows(n, c, {right})}

\* What new names and removals ask of the directory.
MayChangeNames(n, c) ==
    /\ n # Root /\ Reaches(Parent[n], c) /\ Allows(Parent[n], c, {"w", "x"})
----------------------------------------------------------------------------
(* Timestamps. *)

\* Mutant: the times of the inode are not compared.
AgeOnly(n) == TRUE

\* What ufs_should_update_atime looks at before it takes the age.
AgeCounts(n) == ~ (node[n].atime < node[n].mtime) /\ ~ (node[n].atime < node[n].ctime)
Age(n) == clock - node[n].atime
ShouldUpdate(n) == AgeCounts(n) => Age(n) >= Day

TouchedBoth(inode) == [inode EXCEPT !.mtime = clock, !.ctime = clock]

\* The inode after its new times are written, and when that write fails.
AfterTouch(inode) == {TouchedBoth(inode)} \cup IF MayFail THEN {inode} ELSE {}

\* Owner or superuser, as ufs_chmod and ufs_utimens ask.
Owns(n, c) == c.uid = 0 \/ c.uid = node[n].uid

\* Mutant: a change that stays out of the change time.
SilentChange(n, inode) ==
    /\ node' = [node EXCEPT ![n] = inode]
    /\ UNCHANGED <<umask, handles, filled, clock>>

\* One journal transaction of an inode with a new change time.
Change(n, inode) ==
    /\ node' = [node EXCEPT ![n] = [inode EXCEPT !.ctime = clock]]
    /\ UNCHANGED <<umask, handles, filled, clock>>

Chmod(c, n, mode) ==
    /\ Reaches(n, c) /\ Owns(n, c)
    /\ Change(n, [node[n] EXCEPT !.mode = mode])
    /\ UNCHANGED seen

\* Mutant: a member of the new group need not own the file.
GroupChown(c, n, uid, gid) ==
    /\ Reaches(n, c)
    /\ c.uid = 0 \/ (uid = node[n].uid /\ (gid = node[n].gid \/ gid \in c.groups))
    /\ Change(n, [node[n] EXCEPT !.uid = uid, !.gid = gid])
    /\ UNCHANGED seen

\* Minus one stands for the owner or the group the inode has.
Chown(c, n, uid, gid) ==
    /\ Reaches(n, c)
    /\ c.uid = 0 \/ /\ c.uid = node[n].uid /\ uid = node[n].uid
                    /\ gid = node[n].gid \/ gid \in c.groups
    /\ Change(n, [node[n] EXCEPT !.uid = uid, !.gid = gid])
    /\ UNCHANGED seen

\* A null argument means the clock.
Utimens(c, n, atime, mtime) ==
    /\ Reaches(n, c) /\ Owns(n, c)
    /\ Change(n, [node[n] EXCEPT !.atime = atime, !.mtime = mtime])
    /\ seen' = [seen EXCEPT ![n] = "unknown"]

SetUmask(c, mask) ==
    /\ umask' = [umask EXCEPT ![c] = mask]
    /\ UNCHANGED <<node, handles, filled, clock, seen>>
----------------------------------------------------------------------------
(* Names and files. *)

\* ufs_initialize_metadata: 0777 for directories, 0666 for files.
InitialMode(n, c) == Without(IF n \in Dir THEN 511 ELSE 438, umask[c])

\* The directory is written last; when that fails, the name is there all the same.
Create(c, n) ==
    /\ MayChangeNames(n, c) /\ ~ node[n].there
    /\ \E above \in AfterTouch(node[Parent[n]]) :
          node' = [node EXCEPT ![n] = Fresh(InitialMode(n, c), c, clock), ![Parent[n]] = above]
    /\ filled' = filled \ {n}
    /\ seen' = [seen EXCEPT ![n] = "no"]
    /\ UNCHANGED <<umask, handles, clock>>

\* A directory has to be empty, a file must not be open here; the handles of
\* other processes are stale from then on.
Remove(c, n) ==
    /\ MayChangeNames(n, c) /\ node[n].there
    /\ \A m \in Node : n \in Above[m] => ~ node[m].there
    /\ \A h \in handles[c] : h[1] # n
    /\ \E above \in AfterTouch(node[Parent[n]]) :
          node' = [node EXCEPT ![n] = Absent, ![Parent[n]] = above]
    /\ handles' = [a \in Caller |-> {h \in handles[a] : h[1] # n}]
    /\ filled' = filled \ {n}
    /\ UNCHANGED <<umask, clock, seen>>

\* The rights are asked for here, and never again.
Open(c, n, rights) ==
    /\ n \in Node \ Dir /\ Reaches(n, c) /\ Allows(n, c, rights)
    /\ handles' = [handles EXCEPT ![c] = @ \cup {<<n, right>> : right \in rights}]
    /\ UNCHANGED <<node, umask, filled, clock, seen>>

Close(c) ==
    /\ handles[c] # {}
    /\ handles' = [handles EXCEPT ![c] = {}]
    /\ UNCHANGED <<node, umask, filled, clock, seen>>

\* ufs_read and ufs_mmap of at least one byte; a read of nothing leaves the access
\* time alone, and so does one that is cut short or whose transaction fails,
\* though its bytes are returned.
Read(c, n) ==
    /\ <<n, "r">> \in handles[c] /\ n \in filled
    /\ \/ /\ node' = IF ShouldUpdate(n) THEN [node EXCEPT ![n].atime = clock] ELSE node
          /\ seen' = [seen EXCEPT ![n] = IF node[n].mtime <= clock THEN "yes" ELSE "unknown"]
       \/ /\ MayFail
          /\ seen' = [seen EXCEPT ![n] = "unknown"] /\ UNCHANGED node
    /\ UNCHANGED <<umask, handles, filled, clock>>

\* What changes the bytes of a file touches its times last; a call that fails
\* before may have changed them and not the times.
Changed(n) ==
    \/ /\ node' = [node EXCEPT ![n] = TouchedBoth(@)]
       /\ seen' = [seen EXCEPT ![n] = IF node[n].atime <= clock THEN "no" ELSE "unknown"]
    \/ /\ MayFail
       /\ seen' = [seen EXCEPT ![n] = "unknown"] /\ UNCHANGED node

\* A write that is cut short: it returns the number of bytes it has written, at
\* least one, and does not get as far as the times.
ShortWrite(n) ==
    /\ MayFail
    /\ seen' = [seen EXCEPT ![n] = IF node[n].atime <= clock THEN "part" ELSE "unknown"]
    /\ UNCHANGED node

\* ufs_write and ufs_msync of at least one byte, through a handle.
Write(c, n) ==
    /\ <<n, "w">> \in handles[c]
    /\ Changed(n) \/ ShortWrite(n)
    /\ filled' = filled \cup {n}
    /\ UNCHANGED <<umask, handles, clock>>

\* ufs_truncate asks for the right to write; to any size.
Truncate(c, n) ==
    /\ n \in Node \ Dir /\ Reaches(n, c) /\ Allows(n, c, {"w"})
    /\ Changed(n)
    /\ filled' \in {filled \ {n}, filled \cup {n}}
    /\ UNCHANGED <<umask, handles, clock>>

\* A second passes, or the administrator sets the clock.
Tick ==
    /\ clock' \in IF MayJump THEN 0 .. MaxClock ELSE {clock + 1} \cap 0 .. MaxClock
    /\ seen' = IF clock' < clock THEN [n \in Node |-> "unknown"] ELSE seen
    /\ UNCHANGED <<node, umask, handles, filled>>

\* A caller's calls.
By(c) ==
    \/ \E n \in Node :
          \/ \E mode \in Modes : Chmod(c, n, mode)
          \/ \E uid \in Uids \cup {node[n].uid}, gid \in Gids \cup {node[n].gid} :
                Chown(c, n, uid, gid)
          \/ \E atime, mtime \in Times \cup {clock} : Utimens(c, n, atime, mtime)
          \/ Create(c, n) \/ Remove(c, n)
          \/ \E rights \in Requests : Open(c, n, rights)
          \/ Read(c, n) \/ Write(c, n) \/ Truncate(c, n)
    \/ \E mask \in Masks : SetUmask(c, mask)
    \/ Close(c)

Next == (\E c \in Caller : By(c)) \/ Tick

Spec == Init /\ [][Next]_vars
----------------------------------------------------------------------------
Inode == [mode : 0 .. 511, uid : {0} \cup Uids \cup {c.uid : c \in Caller},
          gid : {0} \cup Gids \cup {c.gid : c \in Caller}, there : BOOLEAN,
          atime : MinTime .. MaxTime, mtime : MinTime .. MaxTime, ctime : MinTime .. MaxTime]

\* Every node has a mode of nine bits, an owner and a group somebody has, and
\* times in the range of the type; only files are open.
TypeOK ==
    /\ node \in [Node -> Inode]
    /\ umask \in [Caller -> 0 .. 511] /\ clock \in 0 .. MaxClock
    /\ handles \in [Caller -> SUBSET ((Node \ Dir) \X {"r", "w"})]
    /\ filled \subseteq Node \ Dir /\ seen \in [Node -> {"yes", "no", "part", "unknown"}]

\* The rights of a mode: what octal digits mean, written out.
Digit(d) == CASE d = 0 -> {} [] d = 1 -> {"x"} [] d = 2 -> {"w"} [] d = 3 -> {"w", "x"}
              [] d = 4 -> {"r"} [] d = 5 -> {"r", "x"} [] d = 6 -> {"r", "w"} [] d = 7 -> Rights

\* DESIGN section 8: "owner bits first, then group bits - including
\* supplementary groups - and finally other bits", and only one class counts:
\* an owner the mode denies is denied whatever the group may do.
ClassesAreExclusive ==
    \A n \in Node, c \in Caller, rights \in SUBSET Rights :
        LET digits == [owner |-> Digit(node[n].mode \div 64),
                       group |-> Digit((node[n].mode % 64) \div 8),
                       other |-> Digit(node[n].mode % 8)]
            class == IF c.uid = node[n].uid THEN "owner"
                     ELSE IF node[n].gid \in c.groups THEN "group" ELSE "other"
        IN  Allows(n, c, rights) <=> c.uid = 0 \/ rights \subseteq digits[class]

\* In a tree whose names and parents are fixed, nobody gains a right to a node, by
\* mode, owner, group or a directory on the way, unless the caller is the
\* superuser or owns the node or a directory on the way to it.  A hard link may
\* open another way to a file: ufs_link asks for no right to the file itself.
RightsComeFromOwners ==
    [][\A c \in Caller, n \in Node :
          (\E right \in Rights : right \in Can(n, c)' /\ right \notin Can(n, c)) =>
              \A a \in Caller :
                  By(a) => a.uid = 0 \/ \E m \in Above[n] \cup {n} : node'[m].uid = a.uid]_vars

\* DESIGN section 8: "metadata changes update change time".  Whatever differs in
\* the mode, the owners or the modification time of a node, its change time is
\* now: with a clock that is not set, it cannot be forged.  Bytes and size are
\* no part of a node here.
ChangesAreDated ==
    [][\A n \in Node :
          ([node'[n] EXCEPT !.atime = node[n].atime] # node[n] /\ node'[n].there)
              => node'[n].ctime = clock]_vars

\* What relatime is for: the access and modification times tell whether a file
\* was read since it was last written, unless somebody has set them or set the
\* clock back, or the last read or write of the file did not get to its end.
ReadingShows ==
    \A n \in Node \ Dir :
        node[n].there => /\ seen[n] = "yes" => node[n].atime >= node[n].mtime
                         /\ seen[n] = "no" => node[n].atime <= node[n].mtime

\* DESIGN section 8: "Writes and truncation update modification and change
\* times".  A file that was written since it was last read does not look read,
\* also when ufs_write could write, and returned, only part of its bytes.
WritesShow ==
    \A n \in Node \ Dir :
        node[n].there /\ seen[n] \in {"no", "part"} => node[n].atime <= node[n].mtime

\* The subtraction in ufs_should_update_atime stays in range, whatever times
\* callers have set: a time that far away is older than the change time, which
\* is compared first.
AgesAreInRange == \A n \in Node : AgeCounts(n) => Age(n) \in MinTime .. MaxTime
=============================================================================
