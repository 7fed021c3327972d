----------------------------- MODULE SopRunLife -----------------------------
(***************************************************************************)
(* What the SOP engine promises to whoever reads its terminal outbox.  A   *)
(* run is live until it ends, and what is told of it is how it ended.  A   *)
(* run that failed or was cancelled may live again, as long as nobody has  *)
(* acted on what was told; a run that completed has completed for good.    *)
(* One transaction may move many runs, for a run takes its children and    *)
(* its ancestors along.                                                    *)
(***************************************************************************)
CONSTANTS Key, None

VARIABLES stage, told, consumed

lifeVars == <<stage, told, consumed>>

Ends == {"completed", "failed", "cancelled"}

Stage == {"absent", "live"} \cup Ends

LifeInit ==
    /\ stage = [k \in Key |-> "absent"]
    /\ told = [k \in Key |-> None]
    /\ consumed = {}

Course(from, to) ==
    \/ from = to
    \/ from = "absent" /\ to \in {"live", "completed", "failed"}
    \/ from = "live" /\ to \in Ends
    \/ from \in {"failed", "cancelled"} /\ to = "live"

ToldOf(at) == IF at \in Ends THEN at ELSE None

\* Runs are moved, and told of, together.
Move ==
    /\ \A k \in Key : Course(stage[k], stage'[k])
    /\ \A k \in consumed : stage'[k] = stage[k]
    /\ stage' = [k \in Key |-> stage'[k]]
    /\ told' = [k \in Key |-> ToldOf(stage'[k])]
    /\ UNCHANGED consumed

Consume(k) ==
    /\ told[k] # None
    /\ consumed' = consumed \cup {k}
    /\ UNCHANGED <<stage, told>>

LifeNext == Move \/ \E k \in Key : Consume(k)

Life == LifeInit /\ [][LifeNext]_lifeVars

=============================================================================
