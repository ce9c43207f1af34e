----------------------------- MODULE MCStorage -----------------------------
(***************************************************************************)
(* Blocks of two bytes, one direct block, two pointers to a block: a file  *)
(* of seven blocks needs all three levels and eleven blocks in all.        *)
(***************************************************************************)
EXTENDS Storage

CONSTANT Absent     \* the file array's mark of an inode that is not allocated

\* From the single-indirect blocks into the second level-2 block.
MCWrites == {<<3, 8>>}

\* Within the direct blocks.
ShortWrites == {<<0, 1>>, <<0, 2>>}

Array == INSTANCE FileArray WITH
            Inodes <- Inode, Absent <- Absent, cut <- interrupted.inode,
            files <- [n \in Inode |-> IF n \in disk.used THEN FileBytes(disk, n)
                                                         ELSE Absent]

\* Every operation is one of the file array, or fails and changes no file; one
\* that is cut short harms its own file only, and what comes after it, if it
\* only allocated, is an operation of the file array again.
ImplementsFileArray == Array!Spec
=============================================================================
