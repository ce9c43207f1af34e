---------------------------- MODULE JournalStore ----------------------------
(***************************************************************************)
(* The journal implements AtomicStore on the home blocks: what a mount of  *)
(* the page cache would show is the store's contents, what a mount of the  *)
(* medium would show is what the store keeps.                              *)
(***************************************************************************)
EXTENDS Journal, FiniteSets

Targets(disk) == Range(disk[HeaderBlk].targets)

\* Recorded in the page cache only, for several blocks at once.
OpenGroup ==
    IF /\ ValidJournal(image) /\ ~ ValidJournal(durable)
       /\ Cardinality(Targets(image)) > 1
    THEN Targets(image) ELSE {}

Below == IF ValidJournal(durable) THEN Recovered(image)
                                  ELSE [b \in Home |-> image[b]]

Store == INSTANCE AtomicStore WITH
            Addresses <- Home, Values <- Data,
            view <- Recovered(image), under <- Below,
            kept <- Recovered(durable), group <- OpenGroup

\* Every behaviour of the journal is one of the atomic store: commits are
\* all-or-nothing for readers, for a later mount and across power failures.
ImplementsStore == Store!Spec
=============================================================================
