--------------------------- MODULE MCSharedImage ---------------------------
(***************************************************************************)
(* Two threads of one process; two processes, one of them with two threads.*)
(***************************************************************************)
EXTENDS SharedImage

MCBlocks == 1 .. 2

OneProcess == [t1 |-> "p", t2 |-> "p"]
Apart == [t1 |-> "p", t3 |-> "q"]
TwoProcesses == [t1 |-> "p", t2 |-> "p", t3 |-> "q"]
=============================================================================
