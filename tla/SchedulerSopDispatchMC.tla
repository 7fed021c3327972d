----------------------- MODULE SchedulerSopDispatchMC -----------------------
(***************************************************************************)
(* Two overlapping passes of one consumer; a seed event that starts SOP    *)
(* sync, whose completion starts SOP report.                               *)
(***************************************************************************)
EXTENDS SchedulerSopDispatch, TLC

CONSTANTS b1, b2, e1, c1, p1, p2, sync, report, seeds, terminal

MCOutcome == {"completed", "failed", "cancelled"}

Binding(topic, source, target) ==
    [topic |-> topic, source |-> source, outcomes |-> {"completed"}, target |-> target,
     version |-> 1, concurrency |-> "singleton", maxAttempts |-> 2, timing |-> "any"]

MCInstalled == [b \in BindingId |-> IF b = b1 THEN Binding(seeds, AnySop, sync)
                                              ELSE Binding(terminal, sync, report)]

MCBindingSpec == {MCInstalled[b] : b \in BindingId}

SeedEvent(e) ==
    [id |-> e, topic |-> seeds, sop |-> sync, outcome |-> "completed",
     partition |-> sync, data |-> 1]

MCSeed == {SeedEvent(e) : e \in EventId \ RunId}

MCContent ==
    MCSeed \cup
    [id : RunId, topic : {terminal}, sop : SopId, outcome : EventOutcome,
     partition : SopId, data : 1..(MaxRetries + 1)]

MCReceiptId ==
    {<<"sop-admission", a>> : a \in BindingId \X EventId}
    \cup {<<kind, r>> : kind \in {"sop-terminal", "sop-terminal:recovery"}, r \in RunId}

SameConsumer == [p \in Pass |-> c1]

Symmetry == Permutations(Pass)

=============================================================================
