------------------------------ MODULE MCFileIO ------------------------------
(***************************************************************************)
(* Blocks of two bytes and offsets of four bits: a write of three bytes    *)
(* crosses a block boundary wherever it starts, the fifth byte of a file   *)
(* finds no block, and offsets reach past every file up to the last.       *)
(***************************************************************************)
EXTENDS FileIO

Flag(reads, writes, append) == [reads |-> reads, writes |-> writes, append |-> append]
ReadOnly == Flag(TRUE, FALSE, FALSE)
ReadWrite == Flag(TRUE, TRUE, FALSE)
Appending == Flag(FALSE, TRUE, TRUE)

IOFlags == {ReadOnly, ReadWrite, Appending}

\* One file anyone may write and one nobody may.
MCContents == [f \in {"f", "r"} |-> IF f = "f" THEN <<>> ELSE <<1>>]

IOData == {<<1>>, <<2, 1, 2>>}
IOSeeks == {-8, -1, 2, 7}

\* From inside the first block into the second; past the end of the first.
MCRanges == {<<1, 2>>, <<2, 1>>}
============================================================================
