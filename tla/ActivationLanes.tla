--------------------------- MODULE ActivationLanes ---------------------------
(***************************************************************************)
(* What the scheduler's activation store promises, without bindings,       *)
(* events, leases, clocks or receipts.                                     *)
(*                                                                         *)
(* An activation is one occurrence of a binding for one source event.  It  *)
(* is submitted to a lane, waits there, takes the lane, is committed to a  *)
(* SOP run while it holds the lane, and leaves the lane when that run ends.*)
(* A lane is held by one activation at a time, from the moment the         *)
(* activation is taken to the moment it finishes, and an activation never  *)
(* changes its lane or its run.                                            *)
(*                                                                         *)
(* A holder that loses its lane (its lease expired) either waits again or  *)
(* is withdrawn, and this may happen in the step in which the lane is      *)
(* taken again, by the same activation or by another one.                  *)
(***************************************************************************)
CONSTANTS
    Activation,  \* the occurrences the store may know
    Lane,        \* the lanes an activation may be submitted to
    RunId,       \* the SOP runs an activation may be committed to
    NoLane,      \* the lane of an activation that was not submitted
    NoRun        \* the run of an activation that was not committed

VARIABLES
    stage,  \* where each activation is
    lane,   \* the lane it was submitted to
    run     \* the run it was committed to

vars == <<stage, lane, run>>

Stage == {"absent", "waiting", "held", "committed", "done"}

\* An activation keeps its lane busy from the time it takes it until its
\* run is over.
Busy == {"held", "committed"}

\* The stages once some holders lost their lane: those in `dropped` wait
\* again, those in `withdrawn` are finished without a run.
Recovered(dropped, withdrawn) ==
    [a \in Activation |-> IF a \in withdrawn THEN "done"
                          ELSE IF a \in dropped THEN "waiting"
                          ELSE stage[a]]

Holder == {a \in Activation : stage[a] = "held"}

-----------------------------------------------------------------------------

Init ==
    /\ stage = [a \in Activation |-> "absent"]
    /\ lane = [a \in Activation |-> NoLane]
    /\ run = [a \in Activation |-> NoRun]

\* New activations wait, each in a lane of its own choice.
Submit(new) ==
    /\ \A a \in new : stage[a] = "absent"
    /\ stage' = [a \in Activation |-> IF a \in new THEN "waiting" ELSE stage[a]]
    /\ lane' \in [Activation -> Lane \cup {NoLane}]
    /\ \A a \in Activation : IF a \in new THEN lane'[a] \in Lane
                                           ELSE lane'[a] = lane[a]
    /\ UNCHANGED run

\* Some holders lose their lane and nobody takes one.
Recover(dropped, withdrawn) ==
    /\ stage' = Recovered(dropped, withdrawn)
    /\ UNCHANGED <<lane, run>>

\* After such losses, a waiting activation takes its free lane.
Take(a, dropped, withdrawn) ==
    LET now == Recovered(dropped, withdrawn)
    IN  /\ now[a] = "waiting"
        /\ \A other \in Activation \ {a} : lane[other] = lane[a] => now[other] \notin Busy
        /\ stage' = [now EXCEPT ![a] = "held"]
        /\ UNCHANGED <<lane, run>>

\* The holder gives its lane back.
Release(a) ==
    /\ stage[a] = "held"
    /\ stage' = [stage EXCEPT ![a] = "waiting"]
    /\ UNCHANGED <<lane, run>>

\* The holder is committed to a run no activation was committed to before.
Commit(a, r) ==
    /\ stage[a] = "held"
    /\ \A other \in Activation : run[other] # r
    /\ stage' = [stage EXCEPT ![a] = "committed"]
    /\ run' = [run EXCEPT ![a] = r]
    /\ UNCHANGED lane

\* The run is over.
Finish(a) ==
    /\ stage[a] = "committed"
    /\ stage' = [stage EXCEPT ![a] = "done"]
    /\ UNCHANGED <<lane, run>>

\* Waiting activations, and holders that lost their lane, are finished
\* without a run.
Withdraw(gone) ==
    /\ \A a \in gone : stage[a] \in {"waiting", "held"}
    /\ stage' = [a \in Activation |-> IF a \in gone THEN "done" ELSE stage[a]]
    /\ UNCHANGED <<lane, run>>

Next ==
    \/ \E new \in SUBSET Activation : Submit(new)
    \/ \E dropped \in SUBSET Holder, withdrawn \in SUBSET Holder :
           \/ Recover(dropped, withdrawn)
           \/ \E a \in Activation : Take(a, dropped, withdrawn)
    \/ \E a \in Activation : Release(a) \/ Finish(a)
    \/ \E a \in Activation, r \in RunId : Commit(a, r)
    \/ \E gone \in SUBSET Activation : Withdraw(gone)

Spec == Init /\ [][Next]_vars

-----------------------------------------------------------------------------

\* A lane is kept busy by one activation at a time: scheduler_activation_claim
\* takes an activation only while no other one of its binding and partition
\* key is leased or admitted.
Exclusive ==
    \A a, other \in Activation :
        a # other /\ lane[a] = lane[other] => ~(stage[a] \in Busy /\ stage[other] \in Busy)

\* A run belongs to one activation: sop_run_id is unique in
\* scheduler_activations, and scheduler_activation_admit_sop sets it once.
RunsDistinct ==
    \A a, other \in Activation : a # other /\ run[a] = run[other] => run[a] = NoRun

\* The stages, lanes and runs are those the columns of
\* scheduler_activations can hold.
Typed ==
    /\ stage \in [Activation -> Stage]
    /\ lane \in [Activation -> Lane \cup {NoLane}]
    /\ run \in [Activation -> RunId \cup {NoRun}]

=============================================================================
