-------------------------- MODULE ActivationStoreMC --------------------------
(***************************************************************************)
(* A small instance of ActivationStore: one binding that may be a singleton*)
(* or partitioned, stricter or more lenient, and two events, one of which  *)
(* a careless caller sends with two contents: in the partition of the other*)
(* one, or blocked and in a partition of its own.                          *)
(***************************************************************************)
EXTENDS ActivationStore, TLC

CONSTANTS e1, e2, p1, p2, topic, sop, version, timing, data

Singleton ==
    [topic |-> topic, source |-> AnySop, outcomes |-> {}, target |-> sop,
     version |-> version, concurrency |-> "singleton", maxAttempts |-> 1, timing |-> timing]

\* Accepts failures only, and tries twice.
Partitioned ==
    [topic |-> topic, source |-> sop, outcomes |-> {"failed", "blocked"}, target |-> sop,
     version |-> version, concurrency |-> "partitioned", maxAttempts |-> 2, timing |-> timing]

MCBindingSpec == {Singleton, Partitioned}

\* Consumers, runs and receipt ids are interchangeable.
Symmetry == Permutations(Consumer) \cup Permutations(RunId) \cup Permutations(ReceiptId)

MCContent ==
    {[id |-> e1, topic |-> topic, sop |-> sop, outcome |-> "failed", partition |-> p1,
      data |-> data],
     [id |-> e2, topic |-> topic, sop |-> sop, outcome |-> "completed", partition |-> p1,
      data |-> data],
     [id |-> e2, topic |-> topic, sop |-> sop, outcome |-> "blocked", partition |-> p2,
      data |-> data]}

=============================================================================
