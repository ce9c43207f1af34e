--------------------------- MODULE MCSharedMount ---------------------------
(***************************************************************************)
(* Three processes and one inode-table block: a committer, a writer and a  *)
(* reader of a link at once, in every order.                               *)
(***************************************************************************)
EXTENDS SharedMount, TLC

Alike == Permutations(Procs)
============================================================================
