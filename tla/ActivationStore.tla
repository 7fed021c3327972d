--------------------------- MODULE ActivationStore ---------------------------
(***************************************************************************)
(* The scheduler's activation store (scheduler_activation/parts), without  *)
(* its clock: bindings, source events, activations and receipts, and one   *)
(* action per tool call.  Every call is one `begin immediate` transaction, *)
(* so a call is one step; a call that returns an error rolls back and is   *)
(* no step.                                                                *)
(*                                                                         *)
(* Time enters a call as the set of leases it sees expired and the          *)
(* activation it finds due, both arbitrary here.  SchedulerActivation adds *)
(* the clock that decides them.                                            *)
(***************************************************************************)
EXTENDS Integers, FiniteSets

CONSTANTS
    BindingId,    \* the bindings that may be configured
    EventId,      \* the ids of source events
    Partition,    \* the partition keys events carry
    Outcome,      \* terminal outcomes of SOP runs
    Topic, SopId, Version,
    Timing,       \* the delays and the backoff of a binding
    Data,         \* what else an event carries: when it occurred, its payload
    Consumer,     \* consumer ids that claim activations
    RunId,        \* ids of SOP runs
    ReceiptId,    \* receipt ids the callers use
    BindingSpec,  \* the normalized binding specifications callers may upsert
    Content,      \* the normalized source events callers may send
    AnySop,       \* a binding without a source_sop_id
    None,         \* a null column
    MaxRevision,  \* bound: revisions of a binding
    MaxLeases     \* bound: leases granted, over all activations

\* A binding's lane is the binding itself when it is a singleton, and the
\* event's partition key otherwise.
PartitionKey == BindingId \cup Partition

\* unique(binding_id, source_event_id), and the activation id is a hash of
\* the two: an activation is that pair.
Activation == BindingId \X EventId

\* An event may also report that its subject is blocked or wants a retry.
EventOutcome == Outcome \cup {"blocked", "retryable_failure"}

SpecType ==
    [topic : Topic, source : SopId \cup {AnySop}, outcomes : SUBSET EventOutcome,
     target : SopId, version : Version, concurrency : {"singleton", "partitioned"},
     maxAttempts : Nat \ {0}, timing : Timing]

ContentType ==
    [id : EventId, topic : Topic, sop : SopId, outcome : EventOutcome,
     partition : Partition, data : Data]

ASSUME SpecAssumption == BindingSpec \subseteq SpecType
ASSUME ContentAssumption == Content \subseteq ContentType
ASSUME NoneAssumption ==
    /\ None \notin PartitionKey
    /\ None \notin RunId
    /\ None \notin ReceiptId
    /\ None \notin Consumer
    /\ None \notin Content
    /\ None \notin BindingSpec
ASSUME BoundAssumption == MaxRevision \in Nat /\ MaxLeases \in Nat

VARIABLES
    binding,     \* scheduler_bindings, by id
    event,       \* scheduler_source_events, by id
    activation,  \* scheduler_activations, by <<binding, event>>
    receipt,     \* scheduler_activation_receipts, by activation and kind
    leases       \* the number of lease tokens issued: a new token is a new UUID

storeVars == <<binding, event, activation, receipt, leases>>

-----------------------------------------------------------------------------
(* The rows *)

BindingStatus == {"active", "paused", "retired"}

ActivationStatus == {"absent", "pending", "leased", "admitted", "terminal", "blocked"}

PausedOutcome == "cancelled_binding_paused"

\* Callers resolve with the status of a SOP run or the outcome of a payload.
ASSUME OutcomeAssumption == PausedOutcome \notin Outcome \cup {None}

ReceiptKind == {"sop_admission", "terminal"}

Revised(row, status, spec) ==
    [status |-> status, revision |-> row.revision + 1, spec |-> spec]

ActivationRow ==
    [status : ActivationStatus, partition : PartitionKey \cup {None},
     target : SopId \cup {None}, version : Version \cup {None}, attempts : Nat,
     owner : Consumer \cup {None}, token : Nat, run : RunId \cup {None},
     outcome : Outcome \cup {PausedOutcome, None}]

NoBinding == [status |-> "absent", revision |-> 0, spec |-> None]

BindingRow ==
    {NoBinding} \cup [status : BindingStatus, revision : Nat \ {0}, spec : BindingSpec]

NoActivation ==
    [status |-> "absent", partition |-> None, target |-> None, version |-> None,
     attempts |-> 0, owner |-> None, token |-> 0, run |-> None, outcome |-> None]

NoReceipt == [k \in ReceiptKind |-> None]

InFlight == {"leased", "admitted"}

\* Fault: the token outlives the lease.
UnleasedKeepingToken(row, status) == [row EXCEPT !.status = status, !.owner = None]

\* lease_owner, lease_token and lease_expires_at are set and cleared together.
Unleased(row, status) ==
    [row EXCEPT !.status = status, !.owner = None, !.token = 0]

\* Fault: the token is derived from the attempt instead of drawn fresh.
LeasedByAttempt(row, consumer, token) ==
    [row EXCEPT !.status = "leased", !.owner = consumer, !.token = row.attempts + 1]

Leased(row, consumer, token) ==
    [row EXCEPT !.status = "leased", !.owner = consumer, !.token = token]

\* What a pause and the sweep of a paused binding do to a row, and what the
\* sweep does to an expired lease of any other binding.
Cancelled(row) == [Unleased(row, "terminal") EXCEPT !.outcome = PausedOutcome]

Requeued(row) == [Unleased(row, "pending") EXCEPT !.attempts = @ + 1]

\* The lease becomes a run.
Admitted(row, r) == [Unleased(row, "admitted") EXCEPT !.run = r]

\* The lease is given back with one more attempt counted.
Failed(row, retry) ==
    [Unleased(row, IF retry THEN "pending" ELSE "blocked") EXCEPT !.attempts = @ + 1]

Resolved(row, outcome) == [row EXCEPT !.status = "terminal", !.outcome = outcome]

Unblocked(row) == [row EXCEPT !.status = "pending"]

Init ==
    /\ binding = [b \in BindingId |-> NoBinding]
    /\ event = [e \in EventId |-> None]
    /\ activation = [a \in Activation |-> NoActivation]
    /\ receipt = [a \in Activation |-> NoReceipt]
    /\ leases = 0

-----------------------------------------------------------------------------
(* Bindings *)

\* An upsert of a known binding needs the revision it replaces; one that
\* carries no revision is accepted only as an exact replay, which changes
\* nothing.  It leaves the status alone, and the activations already created.
BindingUpsert(b, spec) ==
    \/ /\ binding[b].status = "absent"
       /\ binding' = [binding EXCEPT ![b] = [status |-> "active", revision |-> 1, spec |-> spec]]
       /\ UNCHANGED <<event, activation, receipt, leases>>
    \/ /\ binding[b].status # "absent"
       /\ binding[b].revision < MaxRevision
       /\ binding' = [binding EXCEPT ![b] = Revised(@, @.status, spec)]
       /\ UNCHANGED <<event, activation, receipt, leases>>

Holding == {a \in Activation : activation[a].status = "leased"}

\* Fault: a pause cancels what was already admitted.
QuiescedWithAdmitted(b, expired) ==
    {a \in Activation :
        /\ a[1] = b
        /\ \/ activation[a].status \in {"pending", "admitted"}
           \/ a \in Holding \cap expired}

\* What a pause cancels: waiting activations and leases already expired.
Quiesced(b, expired) ==
    {a \in Activation :
        /\ a[1] = b
        /\ \/ activation[a].status = "pending"
           \/ a \in Holding \cap expired}

\* Pause, resume and retire, by revision; each of them from any status.
BindingSetStatus(b, status, expired) ==
    /\ binding[b].status # "absent"
    /\ binding[b].revision < MaxRevision
    /\ binding' = [binding EXCEPT ![b] = Revised(@, status, @.spec)]
    /\ activation' =
           IF status = "paused"
           THEN [a \in Activation |-> IF a \in Quiesced(b, expired)
                                      THEN Cancelled(activation[a]) ELSE activation[a]]
           ELSE activation
    /\ UNCHANGED <<event, receipt, leases>>

-----------------------------------------------------------------------------
(* Source events *)

Matches(spec, c) ==
    /\ spec.topic = c.topic
    /\ spec.source \in {AnySop, c.sop}
    /\ spec.outcomes = {} \/ c.outcome \in spec.outcomes

\* Fault: a singleton's activation gets no lane.
CreatedWithoutLane(b, c) ==
    [NoActivation EXCEPT
        !.status = IF c.outcome = "blocked" THEN "blocked" ELSE "pending",
        !.partition = IF binding[b].spec.concurrency = "singleton" THEN None ELSE c.partition,
        !.target = binding[b].spec.target,
        !.version = binding[b].spec.version]

\* The activation of a newly matched event.
Created(b, c) ==
    [NoActivation EXCEPT
        !.status = IF c.outcome = "blocked" THEN "blocked" ELSE "pending",
        !.partition = IF binding[b].spec.concurrency = "singleton" THEN b ELSE c.partition,
        !.target = binding[b].spec.target,
        !.version = binding[b].spec.version]

\* The bindings that get an activation for c: active, matching, and without
\* one already.
Triggered(c) ==
    {b \in BindingId :
        /\ binding[b].status = "active"
        /\ Matches(binding[b].spec, c)
        /\ activation[<<b, c.id>>].status = "absent"}

\* A known event is accepted again when its digest is the recorded one; the
\* replay creates the activations of bindings that became active since.
EventAdmit(c) ==
    /\ event[c.id] \in {None, c}
    /\ event' = [event EXCEPT ![c.id] = c]
    /\ activation' = [a \in Activation |-> IF a[2] = c.id /\ a[1] \in Triggered(c)
                                           THEN Created(a[1], c) ELSE activation[a]]
    /\ UNCHANGED <<binding, receipt, leases>>

-----------------------------------------------------------------------------
(* Leases *)

\* The expired leases are given up before anything is claimed: cancelled
\* under a paused binding, counted as an attempt and queued again otherwise.
Swept(expired) ==
    [a \in Activation |->
        IF a \in Holding \cap expired
        THEN IF binding[a[1]].status = "paused"
             THEN Cancelled(activation[a]) ELSE Requeued(activation[a])
        ELSE activation[a]]

SameLane(a, other) ==
    a[1] = other[1] /\ activation[a].partition = activation[other].partition

\* Fault: an admitted activation no longer keeps its lane.
ClaimableBesideAdmitted(rows) ==
    {a \in Activation :
        /\ rows[a].status = "pending"
        /\ binding[a[1]].status \in {"active", "retired"}
        /\ \A other \in Activation \ {a} :
               SameLane(a, other) => rows[other].status # "leased"}

\* Fault: the binding's status is not consulted.
ClaimableWhilePaused(rows) ==
    {a \in Activation :
        /\ rows[a].status = "pending"
        /\ \A other \in Activation \ {a} :
               SameLane(a, other) => rows[other].status \notin InFlight}

\* The activations a claim may take, once due.  A retired binding still runs
\* what it has.
Claimable(rows) ==
    {a \in Activation :
        /\ rows[a].status = "pending"
        /\ binding[a[1]].status \in {"active", "retired"}
        /\ \A other \in Activation \ {a} :
               SameLane(a, other) => rows[other].status \notin InFlight}

\* A claim that finds an activation leases it under a new token.
ActivationClaim(consumer, expired, a) ==
    /\ leases < MaxLeases
    /\ a \in Claimable(Swept(expired))
    /\ leases' = leases + 1
    /\ activation' = [Swept(expired) EXCEPT ![a] = Leased(@, consumer, leases + 1)]
    /\ UNCHANGED <<binding, event, receipt>>

\* A claim that finds none due has swept the expired leases all the same.
ActivationClaimNothing(expired) ==
    /\ activation' = Swept(expired)
    /\ UNCHANGED <<binding, event, receipt, leases>>

\* The caller holds the lease.
RequireLeased(a, consumer, token) ==
    /\ activation[a].status = "leased"
    /\ activation[a].owner = consumer
    /\ activation[a].token = token

\* A receipt is recorded once per activation and kind, under an id no
\* other receipt has.
RecordReceipt(a, kind, id) ==
    /\ receipt[a][kind] = None
    /\ \A other \in Activation, k \in ReceiptKind : receipt[other][k] # id
    /\ receipt' = [receipt EXCEPT ![a][kind] = id]

\* The SOP run the holder started becomes the activation's run; a run is
\* linked to one activation only.
ActivationAdmitSop(a, consumer, token, r, id) ==
    /\ RequireLeased(a, consumer, token)
    /\ \A other \in Activation \ {a} : activation[other].run # r
    /\ activation' = [activation EXCEPT ![a] = Admitted(@, r)]
    /\ RecordReceipt(a, "sop_admission", id)
    /\ UNCHANGED <<binding, event, leases>>

\* The holder gives up: another attempt while there are attempts left and
\* the failure is retryable, and an operator's decision otherwise.  The
\* binding's status is not looked at.
ActivationFail(a, consumer, token, retryable) ==
    /\ RequireLeased(a, consumer, token)
    /\ LET retry == /\ retryable
                    /\ activation[a].attempts + 1 < binding[a[1]].spec.maxAttempts
       IN  activation' = [activation EXCEPT ![a] = Failed(@, retry)]
    /\ UNCHANGED <<binding, event, receipt, leases>>

-----------------------------------------------------------------------------
(* Terminal receipts and the operator *)

\* A terminal receipt ends an admitted activation.  Its exact replay on a
\* terminal activation is accepted and changes nothing.
ActivationResolve(a, outcome, id) ==
    /\ activation[a].status = "admitted"
    /\ activation' = [activation EXCEPT ![a] = Resolved(@, outcome)]
    /\ RecordReceipt(a, "terminal", id)
    /\ UNCHANGED <<binding, event, leases>>

\* Fault: a terminal activation can be unblocked as well.
ActivationUnblockFinished(a) ==
    /\ activation[a].status \in {"blocked", "terminal"}
    /\ activation' = [activation EXCEPT ![a] = Unblocked(@)]
    /\ UNCHANGED <<binding, event, receipt, leases>>

ActivationUnblock(a) ==
    /\ activation[a].status = "blocked"
    /\ activation' = [activation EXCEPT ![a] = Unblocked(@)]
    /\ UNCHANGED <<binding, event, receipt, leases>>

-----------------------------------------------------------------------------

BindingNext ==
    \E b \in BindingId :
        \/ \E spec \in BindingSpec : BindingUpsert(b, spec)
        \/ \E status \in BindingStatus, expired \in SUBSET Holding :
               BindingSetStatus(b, status, expired)

ClaimNext ==
    \E expired \in SUBSET Holding :
        \/ \E consumer \in Consumer, a \in Activation : ActivationClaim(consumer, expired, a)
        \/ ActivationClaimNothing(expired)

HolderNext ==
    \E a \in Activation, consumer \in Consumer, token \in 1..MaxLeases :
        \/ \E r \in RunId, id \in ReceiptId : ActivationAdmitSop(a, consumer, token, r, id)
        \/ \E retryable \in BOOLEAN : ActivationFail(a, consumer, token, retryable)

Next ==
    \/ BindingNext
    \/ \E c \in Content : EventAdmit(c)
    \/ ClaimNext
    \/ HolderNext
    \/ \E a \in Activation, outcome \in Outcome, id \in ReceiptId :
           ActivationResolve(a, outcome, id)
    \/ \E a \in Activation : ActivationUnblock(a)

Spec == Init /\ [][Next]_storeVars

-----------------------------------------------------------------------------
(* What the store must keep *)

TypeOK ==
    /\ binding \in [BindingId -> BindingRow]
    /\ event \in [EventId -> Content \cup {None}]
    /\ activation \in [Activation -> ActivationRow]
    /\ receipt \in [Activation -> [ReceiptKind -> ReceiptId \cup {None}]]
    /\ leases \in Nat

\* Two activations of one lane are never in flight together: whatever the
\* sweeps, retries, pauses and upserts between the claim of the one and the
\* claim of the other, the `not exists` of activation_claim keeps the second
\* waiting until the terminal receipt of the first.
LaneExclusive ==
    \A a, other \in Activation :
        a # other /\ SameLane(a, other) =>
            ~(activation[a].status \in InFlight /\ activation[other].status \in InFlight)

\* A lease is live or gone as a whole, and no two activations share a token.
LeaseRecord ==
    \A a \in Activation :
        /\ activation[a].status = "leased" <=> activation[a].owner # None
        /\ activation[a].status = "leased" <=> activation[a].token # 0
        /\ activation[a].token <= leases
        /\ \A other \in Activation :
               a # other /\ activation[a].token = activation[other].token
                   => activation[a].token = 0

\* The run, the outcome and the two receipts of an activation tell one story:
\* a run and its admission receipt come together and only with admission, a
\* terminal receipt only after them, and an activation that ended without a
\* run was cancelled by a pause.
AuditTrail ==
    /\ \A a \in Activation :
           LET row == activation[a]
           IN  /\ (row.run # None) <=> (receipt[a]["sop_admission"] # None)
               /\ row.status = "admitted" => row.run # None /\ receipt[a]["terminal"] = None
               /\ row.run # None => row.status \in {"admitted", "terminal"}
               /\ (receipt[a]["terminal"] # None) <=> (row.status = "terminal" /\ row.run # None)
               /\ row.status = "terminal" /\ row.run = None => row.outcome = PausedOutcome
               /\ row.status # "terminal" => row.outcome = None
    /\ \A a, other \in Activation :
           a # other /\ activation[a].run = activation[other].run => activation[a].run = None

\* Every activation belongs to a configured binding and a recorded event, and
\* one without a row has nothing.
Provenance ==
    \A a \in Activation :
        IF activation[a].status = "absent"
        THEN activation[a] = NoActivation
        ELSE /\ binding[a[1]].status # "absent"
             /\ event[a[2]] # None
             /\ activation[a].partition # None

TokenFenced ==
    \A a \in Activation :
        activation'[a].token \in {0, activation[a].token} \/ activation'[a].token > leases

\* A token that stopped being valid never becomes valid again: a consumer
\* that lost its lease cannot admit or fail the activation later, however
\* late its call arrives.
FencedTokens == [][TokenFenced]_storeVars

PauseGoverned ==
    \A a \in Activation :
        /\ binding[a[1]].status = "paused" /\ activation'[a].status = "leased"
              => activation[a].token = activation'[a].token
        /\ activation[a].status # "terminal" /\ activation'[a].outcome = PausedOutcome
              => binding'[a[1]].status = "paused" /\ activation[a].status # "admitted"

\* Under a paused binding nothing is started, and nothing but a pause takes
\* work away: an activation is cancelled only when its binding is paused.
PauseGoverns == [][PauseGoverned]_storeVars

-----------------------------------------------------------------------------
(* The store as lanes *)

StageOf(status) ==
    CASE status \in {"pending", "blocked"} -> "waiting"
      [] status = "leased" -> "held"
      [] status = "admitted" -> "committed"
      [] status = "terminal" -> "done"
      [] OTHER -> "absent"

LaneOf(a) == IF activation[a].status = "absent" THEN None ELSE <<a[1], activation[a].partition>>

Lanes ==
    INSTANCE ActivationLanes WITH
        Lane <- BindingId \X PartitionKey, NoLane <- None, NoRun <- None,
        stage <- [a \in Activation |-> StageOf(activation[a].status)],
        lane <- [a \in Activation |-> LaneOf(a)],
        run <- [a \in Activation |-> activation[a].run]

\* The store keeps the promise of ActivationLanes: every call maps to one of
\* its steps or changes nothing it speaks of.
ImplementsLanes == Lanes!Spec

=============================================================================
