------------------------ MODULE SchedulerSopDispatch ------------------------
(***************************************************************************)
(* The scheduler's activation store, the SOP server and the dispatcher     *)
(* between them.  A dispatcher pass (sop-activation-dispatcher.ts) first   *)
(* brings the terminal events of SOP runs to the store, then compares      *)
(* admitted activations with their runs, then claims due activations and   *)
(* starts a run for each.  Every arrow of a pass is a call to one of the   *)
(* two servers, and every call is a step of its own: passes overlap, calls *)
(* are lost, replies are lost, a pass dies half way.                       *)
(***************************************************************************)
EXTENDS ActivationStore

CONSTANTS
    Pass,           \* dispatcher processes, each running one pass at a time
    ConsumerOf,     \* the consumer id each was started with
    TerminalTopic,  \* sop.run.terminal.v1
    Procedure,
    Installed,      \* the specification each binding was installed with
    Seed,           \* the events that come from elsewhere
    MaxVersion,
    MaxRetries,
    MaxFaults       \* bound: calls and replies lost, passes that died

ASSUME PassAssumption == ConsumerOf \in [Pass -> Consumer]
ASSUME InstalledAssumption == Installed \in [BindingId -> BindingSpec]
ASSUME SeedAssumption == Seed \subseteq Content
ASSUME RunAssumption == RunId \subseteq Nat /\ RunId \subseteq EventId
ASSUME DispatchBounds == MaxVersion \in Nat \ {0} /\ MaxRetries \in Nat /\ MaxFaults \in Nat

VARIABLES
    template, run, outbox, acked, retries,  \* the SOP server
    pass,   \* where each pass is, and what it remembers
    faults

Sop == INSTANCE SopOccurrences WITH Caller <- Consumer

\* What a terminal event says, and the source events made from it.
TerminalRow == [outcome : Sop!EndStatus, says : EventOutcome, at : 1..(MaxRetries + 1)]

TerminalContent ==
    [id : RunId, topic : {TerminalTopic}, sop : SopId, outcome : EventOutcome,
     partition : SopId, data : 1..(MaxRetries + 1)]

OccurrenceKey == Activation \cup {<<"retry", r>> : r \in RunId}

\* The two servers speak of the same outcomes, and the receipt ids of the
\* dispatcher are receipt ids.
ASSUME OutcomesAgree == Sop!EndStatus \subseteq Outcome /\ Procedure \subseteq EventOutcome
ASSUME TerminalAssumption == TerminalContent \subseteq Content
ASSUME ReceiptAssumption ==
    /\ \A a \in Activation : <<"sop-admission", a>> \in ReceiptId
    /\ \A r \in RunId : {<<"sop-terminal", r>>, <<"sop-terminal:recovery", r>>} \subseteq ReceiptId
ASSUME DispatchNone == None \notin OccurrenceKey \cup TerminalRow

sopVars == <<template, run, outbox, acked, retries>>

dispatchVars == <<storeVars, sopVars, pass, faults>>

\* The places in a pass, by phase.
EventPlace == {"events", "link", "resolve", "ack"}
ReconcilePlace == {"reconcile", "recover"}
ClaimPlace == {"claim", "start", "admit", "fail"}

\* A pass remembers the rows still to be handled (todo), the row it is at
\* (item), what a reply told about it (note), and the token of its lease.
IdlePass == [at |-> "idle", todo |-> {}, item |-> None, note |-> None, token |-> 0]

At(p, place) == pass[p].at = place

Goto(p, next) == pass' = [pass EXCEPT ![p] = next]

\* A pass that turns to a row, is done with it, or is done with a phase.
Turned(p, place, item, note) ==
    [pass[p] EXCEPT !.at = place, !.todo = @ \ {item}, !.item = item, !.note = note]

Dropped(p, place, item) ==
    [pass[p] EXCEPT !.at = place, !.todo = @ \ {item}, !.item = None, !.note = None]

Phase(place, todo) == [IdlePass EXCEPT !.at = place, !.todo = todo]

\* A call: it is accepted, with its effect, or refused, or lost on the way
\* there, or its reply is lost on the way back.  The pass cannot tell the
\* last three apart.
Call(p, accepted, effect, replied, failed) ==
    \/ /\ accepted
       /\ effect
       /\ Goto(p, replied)
       /\ UNCHANGED faults
    \/ /\ ~accepted
       /\ UNCHANGED <<storeVars, sopVars, faults>>
       /\ Goto(p, failed)
    \/ /\ faults < MaxFaults
       /\ faults' = faults + 1
       /\ \/ accepted /\ effect
          \/ UNCHANGED <<storeVars, sopVars>>
       /\ Goto(p, failed)

\* Every binding was installed, and nothing has happened since.
DispatchInit ==
    /\ binding = [b \in BindingId |-> Revised(NoBinding, "active", Installed[b])]
    /\ event = [e \in EventId |-> None]
    /\ activation = [a \in Activation |-> NoActivation]
    /\ receipt = [a \in Activation |-> NoReceipt]
    /\ leases = 0
    /\ Sop!SopInit
    /\ pass = [p \in Pass |-> IdlePass]
    /\ faults = 0

-----------------------------------------------------------------------------
(* First phase: terminal events *)

\* A pass starts with the events its consumer has not acknowledged, each as
\* it is now.
Listed(p) ==
    {[run |-> r, sop |-> run[r].sop, row |-> outbox[r]] : r \in Sop!Unacked(ConsumerOf[p])}

BeginPass(p) ==
    /\ At(p, "idle")
    /\ Goto(p, Phase("events", Listed(p)))
    /\ UNCHANGED <<storeVars, sopVars, faults>>

\* The source event the scheduler gets for a terminal event: its id is that
\* of the run, and its outcome is the one the procedure reports.
EventFor(listed) ==
    [id |-> listed.run, topic |-> TerminalTopic, sop |-> listed.sop,
     outcome |-> listed.row.says, partition |-> listed.sop, data |-> listed.row.at]

\* Fault: an event is acknowledged also when it could not be admitted.
AdmitEventOrNot(p) ==
    /\ At(p, "events")
    /\ \E e \in pass[p].todo :
           Call(p, event[e.run] \in {None, EventFor(e)},
                EventAdmit(EventFor(e)) /\ UNCHANGED sopVars,
                Turned(p, "link", e, None), Turned(p, "ack", e, None))

AdmitEvent(p) ==
    /\ At(p, "events")
    /\ \E e \in pass[p].todo :
           Call(p, event[e.run] \in {None, EventFor(e)},
                EventAdmit(EventFor(e)) /\ UNCHANGED sopVars,
                Turned(p, "link", e, None), Dropped(p, "events", e))

Linked(r) == {a \in Activation : activation[a].run = r}

\* Fault: an activation that another pass resolved is an error.
LinkEventOpen(p) ==
    LET e == pass[p].item
        conflicting == \E a \in Linked(e.run) : activation[a].status = "terminal"
        open == \E a \in Linked(e.run) : activation[a].status # "terminal"
    IN  /\ At(p, "link")
        /\ Call(p, ~conflicting, UNCHANGED <<storeVars, sopVars>>,
                Turned(p, IF open THEN "resolve" ELSE "ack", e, None),
                Dropped(p, "events", e))

\* The pass looks up the activation its run belongs to, and remembers
\* whether it has to be resolved.
LinkEvent(p) ==
    LET e == pass[p].item
        conflicting == \E a \in Linked(e.run) :
                           /\ activation[a].status = "terminal"
                           /\ activation[a].outcome \notin {e.row.outcome, e.row.says}
        open == \E a \in Linked(e.run) : activation[a].status # "terminal"
    IN  /\ At(p, "link")
        /\ Call(p, ~conflicting, UNCHANGED <<storeVars, sopVars>>,
                Turned(p, IF open THEN "resolve" ELSE "ack", e, None),
                Dropped(p, "events", e))

\* activation_resolve by run id, and when it is accepted: the activation is
\* admitted, or was resolved under this very receipt.
ResolveAccepted(r, id) ==
    \E a \in Linked(r) : activation[a].status = "admitted" \/ receipt[a]["terminal"] = id

ResolveRun(r, outcome, id) ==
    /\ \E a \in Linked(r) :
           \/ ActivationResolve(a, outcome, id)
           \/ receipt[a]["terminal"] = id /\ UNCHANGED storeVars
    /\ UNCHANGED sopVars

\* Fault: the outcome recorded is the one the procedure reports.
ResolveLinkedAsReported(p) ==
    LET e == pass[p].item
        id == <<"sop-terminal", e.run>>
    IN  /\ At(p, "resolve")
        /\ Call(p, ResolveAccepted(e.run, id), ResolveRun(e.run, e.row.says, id),
                Turned(p, "ack", e, None), Dropped(p, "events", e))

ResolveLinked(p) ==
    LET e == pass[p].item
        id == <<"sop-terminal", e.run>>
    IN  /\ At(p, "resolve")
        /\ Call(p, ResolveAccepted(e.run, id), ResolveRun(e.run, e.row.outcome, id),
                Turned(p, "ack", e, None), Dropped(p, "events", e))

AckEvent(p) ==
    LET e == pass[p].item
    IN  /\ At(p, "ack")
        /\ Call(p, outbox[e.run] # None,
                Sop!AckOutbox(e.run, ConsumerOf[p]) /\ UNCHANGED storeVars,
                Dropped(p, "events", e), Dropped(p, "events", e))

-----------------------------------------------------------------------------
(* Second phase: admitted activations whose run is over *)

\* Fault: a pass brings events and claims work, and reconciles nothing.
NoReconcile(p) ==
    /\ At(p, "events")
    /\ pass[p].todo = {}
    /\ Goto(p, Phase("reconcile", {}))
    /\ UNCHANGED <<storeVars, sopVars, faults>>

\* The admitted activations as they are now; without the list the pass goes
\* on to its claims.
BeginReconcile(p) ==
    /\ At(p, "events")
    /\ pass[p].todo = {}
    /\ Call(p, TRUE, UNCHANGED <<storeVars, sopVars>>,
            Phase("reconcile", {a \in Activation : activation[a].status = "admitted"}),
            Phase("claim", {}))

ReadStatus(p) ==
    /\ At(p, "reconcile")
    /\ \E a \in pass[p].todo :
           LET status == run[activation[a].run].status
           IN  Call(p, status \in Sop!EndStatus, UNCHANGED <<storeVars, sopVars>>,
                    Turned(p, "recover", a, status), Dropped(p, "reconcile", a))

RecoverActivation(p) ==
    LET a == pass[p].item
        r == activation[a].run
        id == <<"sop-terminal:recovery", r>>
    IN  /\ At(p, "recover")
        /\ Call(p, ResolveAccepted(r, id), ResolveRun(r, pass[p].note, id),
                Dropped(p, "reconcile", a), Dropped(p, "reconcile", a))

-----------------------------------------------------------------------------
(* Third phase: due activations *)

BeginClaims(p) ==
    /\ At(p, "reconcile")
    /\ pass[p].todo = {}
    /\ Goto(p, Phase("claim", {}))
    /\ UNCHANGED <<storeVars, sopVars, faults>>

\* Fault: the token is the one the activation had before.
ClaimedBefore(a) ==
    [IdlePass EXCEPT !.at = "start", !.item = a, !.token = activation[a].token]

\* What a claim returns, with the token it issued.
Claimed(a) == [IdlePass EXCEPT !.at = "start", !.item = a, !.token = leases + 1]

\* The pass takes the next due activation and ends when there is none.  A
\* claim that fails ends it too: what was leased stays leased, and nobody
\* has the token.
Claim(p) ==
    /\ At(p, "claim")
    /\ \E expired \in SUBSET Holding :
           \/ \E a \in Claimable(Swept(expired)) :
                  Call(p, leases < MaxLeases,
                       ActivationClaim(ConsumerOf[p], expired, a) /\ UNCHANGED sopVars,
                       Claimed(a), IdlePass)
           \/ /\ ActivationClaimNothing(expired)
              /\ Goto(p, IdlePass)
              /\ UNCHANGED <<sopVars, faults>>

\* The run a start gets: the one the occurrence has, or a fresh one.
RunFor(sop, key) ==
    IF Sop!OccurrenceOf(sop, key) # {} THEN Sop!OccurrenceOf(sop, key) ELSE Sop!Fresh

\* Starting is idempotent by occurrence key; who asked is part of the
\* request, so the same occurrence is refused to another consumer.  The
\* version asked for is passed as `version`, which the engine does not
\* read: it takes the latest template.
StartSop(p) ==
    LET a == pass[p].item
        sop == activation[a].target
        found == Sop!OccurrenceOf(sop, a)
    IN  /\ At(p, "start")
        /\ \E r \in RunFor(sop, a) :
               Call(p, found = {} \/ run[r].by = ConsumerOf[p],
                    /\ UNCHANGED <<storeVars, retries>>
                    /\ IF found = {}
                       THEN Sop!StartRun(r, sop, a, ConsumerOf[p], template[sop])
                       ELSE UNCHANGED sopVars,
                    [pass[p] EXCEPT !.at = "admit", !.note = r],
                    [pass[p] EXCEPT !.at = "fail"])

\* A call that shows a lease is refused as well once the lease has run out,
\* which may have happened by now.
LeaseRanOut(p, failed) ==
    /\ Goto(p, failed)
    /\ UNCHANGED <<storeVars, sopVars, faults>>

AdmitRun(p) ==
    LET a == pass[p].item
        r == pass[p].note
        failed == [pass[p] EXCEPT !.at = "fail"]
    IN  /\ At(p, "admit")
        /\ \/ Call(p,
                   /\ RequireLeased(a, ConsumerOf[p], pass[p].token)
                   /\ \A other \in Activation \ {a} : activation[other].run # r,
                   /\ ActivationAdmitSop(a, ConsumerOf[p], pass[p].token, r, <<"sop-admission", a>>)
                   /\ UNCHANGED sopVars,
                   Phase("claim", {}), failed)
           \/ LeaseRanOut(p, failed)

\* Whatever failed, the activation is given back for another attempt.
GiveBack(p) ==
    LET a == pass[p].item
    IN  /\ At(p, "fail")
        /\ \/ Call(p, RequireLeased(a, ConsumerOf[p], pass[p].token),
                   ActivationFail(a, ConsumerOf[p], pass[p].token, TRUE) /\ UNCHANGED sopVars,
                   Phase("claim", {}), Phase("claim", {}))
           \/ LeaseRanOut(p, Phase("claim", {}))

-----------------------------------------------------------------------------

PassStep(p) ==
    \/ BeginPass(p) \/ AdmitEvent(p) \/ LinkEvent(p) \/ ResolveLinked(p) \/ AckEvent(p)
    \/ BeginReconcile(p) \/ ReadStatus(p) \/ RecoverActivation(p)
    \/ BeginClaims(p) \/ Claim(p) \/ StartSop(p) \/ AdmitRun(p) \/ GiveBack(p)

\* A pass dies, and remembers nothing.
PassDies(p) ==
    /\ pass[p].at # "idle"
    /\ faults < MaxFaults
    /\ faults' = faults + 1
    /\ Goto(p, IdlePass)
    /\ UNCHANGED <<storeVars, sopVars>>

\* Others call the two servers as well.
OthersNext ==
    /\ \/ /\ \/ \E c \in Seed : EventAdmit(c)
             \/ \E b \in BindingId, status \in BindingStatus, expired \in SUBSET Holding :
                    BindingSetStatus(b, status, expired)
             \/ \E a \in Activation : ActivationUnblock(a)
          /\ UNCHANGED sopVars
       \/ Sop!SopNext /\ UNCHANGED storeVars
    /\ UNCHANGED <<pass, faults>>

DispatchNext ==
    \/ \E p \in Pass : PassStep(p) \/ PassDies(p)
    \/ OthersNext

\* The dispatcher is started over and over, and a pass that was started goes
\* on; nothing else is promised: runs may live forever, leases need not
\* expire, operators need not act.
DispatchSpec ==
    /\ DispatchInit
    /\ [][DispatchNext]_dispatchVars
    /\ \A p \in Pass : WF_dispatchVars(PassStep(p))

-----------------------------------------------------------------------------

ListedEvent == [run : RunId, sop : SopId, row : [outcome : Outcome, says : EventOutcome, at : Data]]

PassOK(row) ==
    /\ row.at \in {"idle"} \cup EventPlace \cup ReconcilePlace \cup ClaimPlace
    /\ row.at = "idle" => row = IdlePass
    /\ row.at \in EventPlace => row.todo \subseteq ListedEvent
    /\ row.at \in EventPlace \ {"events"} => row.item \in ListedEvent
    /\ row.at \in ReconcilePlace => row.todo \subseteq Activation
    /\ row.at = "recover" => row.item \in Activation /\ row.note \in Sop!EndStatus
    /\ row.at \in ClaimPlace \ {"claim"} => row.item \in Activation /\ row.token \in 1..leases
    /\ row.at = "admit" => row.note \in RunId

DispatchTypeOK ==
    /\ TypeOK
    /\ Sop!SopTypeOK
    /\ \A p \in Pass : PassOK(pass[p])
    /\ faults \in 0..MaxFaults

\* A run that has ended and was never retried.
NeverRetried(r) == outbox[r] # None /\ run[r].finishes = 1

\* The event the scheduler should have for run r.
DueEvent(r) == EventFor([run |-> r, sop |-> run[r].sop, row |-> outbox[r]])

\* A terminal event is acknowledged only once the scheduler has it, and every
\* binding it matches has its activation: whatever was lost on the way, the
\* acknowledgement came after the admission.  Runs that were retried are
\* left out; AckedAsListed speaks of them.
AckedIsAdmitted ==
    \A r \in RunId : acked[r] # {} /\ NeverRetried(r) =>
        /\ event[r] = DueEvent(r)
        /\ \A b \in BindingId :
               binding[b].revision = 1 /\ Matches(binding[b].spec, DueEvent(r)) =>
                   activation[<<b, r>>].status # "absent"

\* An activation is linked to the run of its own occurrence, and ends with
\* the outcome of that run, whether its terminal event or the recovery
\* resolved it.
LinkAgrees ==
    \A a \in Activation :
        activation[a].run # None =>
            LET row == run[activation[a].run]
            IN  /\ row.key = a
                /\ row.sop = activation[a].target
                /\ activation[a].status = "terminal" /\ NeverRetried(activation[a].run)
                       => row.status = activation[a].outcome

\* The terminal event of a run reaches every consumer, however many replies
\* are lost and whichever pass resolves the activation, unless the run is
\* retried.
TerminalEventsDelivered ==
    \A r \in RunId, p \in Pass :
        outbox[r] # None ~> ConsumerOf[p] \in acked[r] \/ ~NeverRetried(r)

RunIsOver(a) == activation[a].status = "admitted" /\ outbox[activation[a].run] # None

\* The lane of an activation whose run is over is released, also when the
\* event of that run was acknowledged before the activation was linked.
AdmittedIsResolved ==
    \A a \in Activation :
        RunIsOver(a) ~> ~RunIsOver(a) \/ ~NeverRetried(activation[a].run)

-----------------------------------------------------------------------------
(* What the documentation says and the programs together do not do *)

\* A terminal event is acknowledged as it was admitted, also when its run was
\* retried: sop_outbox_ack takes the id of the event, and a retried run ends
\* in another event with the same id.
AckedAsListed == \A r \in RunId : acked[r] # {} => event[r] = DueEvent(r)

=============================================================================
