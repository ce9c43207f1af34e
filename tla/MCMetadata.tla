----------------------------- MODULE MCMetadata -----------------------------
(***************************************************************************)
(* A file in the root directory, and the rights to both; the superuser and *)
(* two users who share a group.  Times of four bits, days of two seconds.  *)
(***************************************************************************)
EXTENDS Metadata

Super == [uid |-> 0, gid |-> 0, groups |-> {0}]
Ann == [uid |-> 1, gid |-> 1, groups |-> {1, 3}]
Bob == [uid |-> 2, gid |-> 2, groups |-> {2, 3}]

AllCallers == {Super, Ann, Bob}
Owners == {Ann}

Earliest == -8
FarTimes == {Earliest, 7}

FlatAbove == [n \in {"/", "f"} |-> IF n = "/" THEN {} ELSE {"/"}]
FlatParent == [n \in {"f"} |-> "/"]
============================================================================
