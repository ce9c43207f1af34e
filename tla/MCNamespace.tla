---------------------------- MODULE MCNamespace ----------------------------
(***************************************************************************)
(* Directories of two one-entry blocks, so that the third name is one too  *)
(* many; paths of two names, so that links lead through directories.       *)
(***************************************************************************)
EXTENDS Namespace, TLC

To(path) == [absolute |-> TRUE, path |-> path]
Relative(path) == [absolute |-> FALSE, path |-> path]

\* Three names in the root and two in directory a.
Tree == {<<"a">>, <<"b">>, <<"c">>, <<"a", "a">>, <<"a", "b">>}
TreeLinks == {<<<<"b">>, <<"a", "a">>>>, <<<<"a", "b">>, <<"c">>>>}
TreeTargets == {To(<<"a", "b">>), Relative(<<"b">>), Relative(<<"..", "b">>)}

\* What two processes do with one file and with a directory or link beside it.
Shared == {<<"a">>, <<"a", "a">>}
SharedTargets == {Relative(<<"b">>)}

\* One file under two names.
Pair == {<<"a">>, <<"b">>}
PairLinks == {<<<<"a">>, <<"b">>>>}

Twins == Permutations(Procs)
============================================================================
