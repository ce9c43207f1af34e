---------------------------- MODULE AtomicStore ----------------------------
(***************************************************************************)
(* What the journal promises its callers: an array of blocks in which a    *)
(* single write and a committed group of writes both happen at once, seen  *)
(* by readers (`view') and by whoever mounts after a power failure         *)
(* (`kept').  Single blocks reach the medium in any order; the blocks of   *)
(* one group of several reach it together.                                 *)
(***************************************************************************)
EXTENDS Naturals, FiniteSets

CONSTANTS Addresses, Values

VARIABLES
    view,       \* the contents a mount shows now
    under,      \* the contents below a group that is not on the medium yet
    kept,       \* the contents a mount shows after a power failure
    group       \* the blocks of several that may only be kept together

storeVars == <<view, under, kept, group>>

Init ==
    /\ view \in [Addresses -> Values]
    /\ under = view /\ kept = view /\ group = {}

Settled == group = {} /\ under = view

Put(a, v) ==
    /\ Settled
    /\ view' = [view EXCEPT ![a] = v]
    /\ under' = view'
    /\ UNCHANGED <<kept, group>>

\* All blocks of a set at once, to any new contents.
Commit(A) ==
    /\ Settled
    /\ view' \in [Addresses -> Values]
    /\ \A a \in Addresses \ A : view'[a] = view[a]
    /\ group' = IF Cardinality(A) > 1 THEN A ELSE {}
    /\ UNCHANGED <<under, kept>>

\* A block that stands alone may take its new contents before they are kept.
Apply(a) ==
    /\ a \notin group
    /\ under' = [under EXCEPT ![a] = view[a]]
    /\ UNCHANGED <<view, kept, group>>

KeepUnder(a) ==
    /\ kept' = [kept EXCEPT ![a] = under[a]]
    /\ UNCHANGED <<view, under, group>>

\* The whole group at least, and then it is settled.
KeepView(addresses) ==
    /\ group \subseteq addresses
    /\ kept' = [a \in Addresses |-> IF a \in addresses THEN view[a] ELSE kept[a]]
    /\ under' = view /\ group' = {}
    /\ UNCHANGED view

PowerFailure ==
    /\ view' = kept /\ under' = kept /\ group' = {}
    /\ UNCHANGED kept

Next ==
    \/ \E a \in Addresses, v \in Values : Put(a, v)
    \/ \E A \in SUBSET Addresses : Commit(A)
    \/ \E a \in Addresses : Apply(a) \/ KeepUnder(a)
    \/ \E A \in SUBSET Addresses : KeepView(A)
    \/ PowerFailure

Spec == Init /\ [][Next]_storeVars
=============================================================================
