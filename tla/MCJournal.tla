----------------------------- MODULE MCJournal -----------------------------
(***************************************************************************)
(* A journal of two slots on an image of seven blocks: the superblock, one *)
(* inode-table block of two inodes, the journal in 2..5, one data block.   *)
(***************************************************************************)
EXTENDS JournalStore

MCByte == 0 .. 2

Ino(n, v) == [kind |-> "inode", inode |-> n, value |-> v]
Two(x, y) == [o \in Offset |-> IF o = 0 THEN x ELSE y]
Blk(b, x, y) == [kind |-> "block", target |-> b, data |-> Two(x, y)]

DataBlk == 6

\* One direct write of the data block.
OneDirectWrite == {<<DataBlk, Two(1, 1)>>}

\* What the callers in the code commit: one inode of one block.
InodeWorkload == {<<Ino(0, 1)>>, <<Ino(1, 2)>>}

\* Payloads whose byte sums tell them, and every mixture of old and new, apart.
GroupWorkload == {<<Ino(0, 1), Blk(DataBlk, 2, 2)>>, <<Ino(1, 2)>>}

\* Everything the interface accepts and refuses: two inodes of one block, a
\* block staged twice, nothing at all, one block too many, a target inside the
\* journal, off the image, an inode past the table.
MixedWorkload == {
    <<Ino(0, 1), Ino(1, 2), Blk(DataBlk, 1, 2), Blk(DataBlk, 2, 1)>>,
    <<Blk(1, 2, 1), Ino(0, 1)>>,
    <<>>,
    <<Ino(0, 2), Blk(DataBlk, 1, 1), Blk(0, 1, 1)>>,
    <<Ino(1, 1), Blk(3, 1, 1)>>,
    <<Blk(7, 1, 1)>>,
    <<Ino(2, 1)>>}
=============================================================================
