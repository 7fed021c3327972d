------------------------ MODULE SchedulerActivationMC ------------------------
(***************************************************************************)
(* A small timed instance: one singleton binding that can be upserted with *)
(* a longer backoff, an event that completes at time 0 and one that asks   *)
(* for its second retry at time 1, and calls that may wait one tick.       *)
(***************************************************************************)
EXTENDS SchedulerActivation, TLC

CONSTANTS e1, e2, p1, topic, sop, version

Delays(d) == [o \in EventOutcome |-> IF o = "completed" THEN d ELSE 0]

Brisk == [base |-> 0, cap |-> 0, delay |-> Delays(1)]

Patient == [base |-> 1, cap |-> 2, delay |-> Delays(0)]

MCTiming == {Brisk, Patient}

MCData == {[occurred |-> 0, attempt |-> 1], [occurred |-> 1, attempt |-> 2]}

Binding(timing) ==
    [topic |-> topic, source |-> AnySop, outcomes |-> {}, target |-> sop,
     version |-> version, concurrency |-> "singleton", maxAttempts |-> 2, timing |-> timing]

MCBindingSpec == {Binding(Brisk), Binding(Patient)}

MCContent ==
    {[id |-> e1, topic |-> topic, sop |-> sop, outcome |-> "completed", partition |-> p1,
      data |-> [occurred |-> 0, attempt |-> 1]],
     [id |-> e2, topic |-> topic, sop |-> sop, outcome |-> "retryable_failure", partition |-> p1,
      data |-> [occurred |-> 1, attempt |-> 2]]}

\* Consumers, runs and receipt ids are interchangeable.
Symmetry == Permutations(Consumer) \cup Permutations(RunId) \cup Permutations(ReceiptId)

=============================================================================
