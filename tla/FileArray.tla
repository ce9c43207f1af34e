----------------------------- MODULE FileArray -----------------------------
(***************************************************************************)
(* What the storage layer promises: inodes are numbered byte sequences.  A *)
(* resize keeps the common prefix and fills what it adds with zeros, a     *)
(* write changes the bytes it names and no others, and an operation that   *)
(* fails (the step that changes nothing) leaves every file as it was.  One *)
(* operation may be cut short: it may do anything to its own file, and     *)
(* what follows it is as exact as what came before.                        *)
(***************************************************************************)
EXTENDS Naturals, Sequences

CONSTANTS
    Inodes, Bytes,
    Sizes,      \* the sizes callers ask for
    Writes,     \* the writes callers ask for: <<start, count>>
    Absent      \* the mark of an inode that is not allocated

VARIABLES
    files,
    cut         \* the inode of the operation that was cut short, or none

Init ==
    /\ files = [n \in Inodes |-> IF n = 0 THEN <<>> ELSE Absent]
    /\ cut \notin Inodes

\* The first `size' bytes, padded with zeros.
Resized(file, size) ==
    [i \in 1 .. size |-> IF i <= Len(file) THEN file[i] ELSE 0]

Written(file, start, count, byte) ==
    LET end == start + count IN
    [i \in 1 .. (IF end > Len(file) THEN end ELSE Len(file)) |->
        IF i \in start + 1 .. end THEN byte ELSE Resized(file, i)[i]]

Create(n) ==
    /\ files[n] = Absent
    /\ files' = [files EXCEPT ![n] = <<>>]

Remove(n) ==
    /\ n # 0 /\ files[n] # Absent
    /\ files' = [files EXCEPT ![n] = Absent]

Resize(n, size) ==
    /\ files[n] # Absent
    /\ files' = [files EXCEPT ![n] = Resized(@, size)]

Write(n, start, count, byte) ==
    /\ files[n] # Absent
    /\ files' = [files EXCEPT ![n] = Written(@, start, count, byte)]

CutShort(n) ==
    /\ cut \notin Inodes /\ cut' = n
    /\ DOMAIN files' = Inodes
    /\ \A m \in Inodes \ {n} : files'[m] = files[m]

Next ==
    \E n \in Inodes :
        \/ CutShort(n)
        \/ /\ UNCHANGED cut
           /\ \/ Create(n) \/ Remove(n)
              \/ \E size \in Sizes : Resize(n, size)
              \/ \E w \in Writes, byte \in Bytes : Write(n, w[1], w[2], byte)

Spec == Init /\ [][Next]_<<files, cut>>
=============================================================================
