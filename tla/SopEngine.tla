------------------------------ MODULE SopEngine ------------------------------
(***************************************************************************)
(* The inside of a SOP run.  A run is the execution of a template: its     *)
(* steps wait for one another, and are carried out by the engine itself,   *)
(* by an agent or operator that leases a handoff, by an action dispatcher, *)
(* or by a child run.  Every tool call is one transaction and ends with    *)
(* the reconciliation of the run it touched and of that run's ancestors;   *)
(* resolving an action is two transactions.                                *)
(*                                                                         *)
(* Left out: results and references as data (a result that its schema      *)
(* refuses, or that is too large to keep, is "unfit"), the event log of a  *)
(* run, and the engine's refusals of rows somebody else has edited.        *)
(***************************************************************************)
EXTENDS Integers, Sequences, FiniteSets

CONSTANTS
    Occurrence,   \* what callers start runs for, with their inputs
    Template,     \* the steps of each SOP, dependencies first
    Verdict,      \* what `when` and the mappings of a step say, for an occurrence
    OutputFails,  \* pairs of an occurrence and a SOP whose output is refused
    Key,          \* bound: the occurrence keys that may ever be used
    Place,        \* what each key was made from
    Consumer,     \* consumers of the terminal outbox
    None,
    MaxRoots,     \* bound: occurrences started
    MaxClaims,    \* bound: claims of handoffs
    MaxRegistered \* bound: ends seen before the last consumer registers

(***************************************************************************)
(* A run is known by its SOP and its occurrence key.  A caller brings a    *)
(* key of its own; that of a child is a digest of its parent and step, and *)
(* that of a retry a digest of the handoff that is retried.  The digests   *)
(* are opaque: Place tells what went into each key.                        *)
(***************************************************************************)
Kind(k) == Place[k].kind
Parent(k) == Place[k].of
StepOf(k) == Place[k].step

Steps(k) == DOMAIN Template[Place[k].sop]

Def(k, i) == Template[Place[k].sop][i]

Says(k, i) == Verdict[Place[k].origin][Place[k].sop][i]

MadeFrom(kind, k, i) == {j \in Key : Kind(j) = kind /\ Parent(j) = k /\ StepOf(j) = i}

\* The key of the child of each step, where the step has one.
Child == [k \in Key |-> [i \in Steps(k) |->
             IF Def(k, i).executor = "sop" THEN CHOOSE j \in MadeFrom("child", k, i) : TRUE ELSE None]]

Manual == {"agent", "operator"}

Executor == Manual \cup {"engine", "action", "sop"}

ASSUME BoundAssumption == {MaxRoots, MaxClaims, MaxRegistered} \subseteq Nat

ASSUME TemplateAssumption ==
    /\ IsFiniteSet(DOMAIN Template)
    /\ \A s \in DOMAIN Template :
           /\ Len(Template[s]) \in Nat /\ DOMAIN Template[s] = 1..Len(Template[s])
           /\ \A i \in DOMAIN Template[s] :
                  /\ Template[s][i].executor \in Executor
                  /\ Template[s][i].deps \subseteq 1..(i - 1)

ASSUME VerdictAssumption ==
    \A k \in Key : \A i \in Steps(k) : Says(k, i) \in {"true", "false", "error"}

ASSUME PlaceAssumption ==
    \A k \in Key :
        /\ Kind(k) \in {"root", "child", "retry"}
        /\ Place[k].sop \in DOMAIN Template
        /\ Kind(k) # "root" => Parent(k) \in Key /\ StepOf(k) \in Steps(Parent(k))
        /\ \A i \in Steps(k) :
               Def(k, i).executor = "sop" => \E j \in MadeFrom("child", k, i) : Place[j].sop = Def(k, i).child

\* No child is admitted below a run of its own SOP, so that a chain of
\* parents is no longer than there are SOPs.
ASSUME NestingAssumption ==
    \E depth \in [Key -> 0..Cardinality(DOMAIN Template)] :
        \A k \in Key : Kind(k) = "child" => depth[Parent(k)] < depth[k]

\* The runs above k, itself included.
Lineage[k \in Key] == {k} \cup (IF Kind(k) = "child" THEN Lineage[Parent(k)] ELSE {})

VARIABLES
    run,       \* sop_runs
    handoff,   \* sop_handoffs
    action,    \* sop_actions
    outbox,    \* sop_outbox: the terminal event of each run
    required,  \* sop_outbox_consumer_requirements: from when each consumer reads
    acked,     \* sop_outbox_receipts
    owed,      \* action receipts whose second transaction has not been seen
    claims,    \* lease tokens given out
    time       \* the moments at which runs ended

engineVars == <<run, handoff, action, outbox, required, acked, owed, claims, time>>

EndStatus == {"completed", "failed", "cancelled"}

Event == [outcome : EndStatus, at : Nat, compacted : BOOLEAN]

ASSUME NoneAssumption == None \notin EndStatus \cup Nat \cup Event

RunStatus == {"absent", "pending", "running", "awaiting_confirmation"} \cup EndStatus

Terminal(row) == row.status \in EndStatus

Live(row) == row.status \notin EndStatus \cup {"absent"}

StepStatus == {"pending", "running", "completed", "failed", "skipped"}

Settled == {"completed", "skipped"}

\* `why` tells apart the failures a retry treats differently; `pin` says
\* whether the fingerprint of the child's definition is on record.
NewStep == [status |-> "pending", why |-> "none", pin |-> TRUE]

Blank(k) == [status |-> "absent", step |-> [i \in Steps(k) |-> NewStep]]

Admitted(k) == [Blank(k) EXCEPT !.status = "pending"]

NoHandoff == [status |-> "absent", token |-> 0, live |-> FALSE]

-----------------------------------------------------------------------------
(* Reconciliation *)

\* A running step takes over what its child, or its action, has come to.
Answer(step, executor, child, act) ==
    LET came == IF executor = "sop" THEN child ELSE
                IF executor = "action" THEN act ELSE "open"
    IN  CASE came = "completed"                       -> [step EXCEPT !.status = "completed"]
          [] came \in {"failed", "cancelled", "unfit"} ->
                 [step EXCEPT !.status = "failed", !.why = "own"]
          [] OTHER                                    -> [step EXCEPT !.status = "running"]

Fails(step, why) == [step EXCEPT !.status = "failed", !.why = why]

\* A step whose dependencies are settled and whose condition holds.
Begins(step, says, deps) ==
    /\ step.status = "pending"
    /\ deps \subseteq Settled
    /\ says = "true"

\* A step none of whose dependencies is in the way.
Reached(step, executor, says, child, act) ==
    CASE says = "false" -> [step EXCEPT !.status = "skipped"]
      [] says = "error" -> Fails(step, "own")
      [] says = "true"  -> IF executor = "engine" THEN [step EXCEPT !.status = "completed"]
                           ELSE IF executor = "sop" /\ ~step.pin THEN Fails(step, "pin")
                           ELSE Answer(step, executor, child, act)

\* Fault: one dependency that is done is enough.
StepAfterAny(step, executor, says, deps, child, act) ==
    CASE step.status = "running" -> Answer(step, executor, child, act)
      [] step.status = "pending" ->
             IF "failed" \in deps THEN Fails(step, "dependency")
             ELSE IF deps = {} \/ deps \cap Settled # {} THEN Reached(step, executor, says, child, act)
             ELSE step
      [] OTHER -> step

\* One step, when `deps` is what its dependencies have come to.
StepAfter(step, executor, says, deps, child, act) ==
    CASE step.status = "running" -> Answer(step, executor, child, act)
      [] step.status = "pending" ->
             IF "failed" \in deps THEN Fails(step, "dependency")
             ELSE IF deps \subseteq Settled THEN Reached(step, executor, says, child, act)
             ELSE step
      [] OTHER -> step

\* What the dependencies of step i of run k have come to.
DepStatus(k, i, step) == {step[j].status : j \in Def(k, i).deps}

\* The steps of run k, when `came` is what their children have come to.
StepsAfter(k, steps, came, act) ==
    LET step[i \in Steps(k)] ==
            StepAfter(steps[i], Def(k, i).executor, Says(k, i), DepStatus(k, i, step), came[i], act[i])
    IN  step

StatusAfter(k, step) ==
    LET all == {step[i].status : i \in Steps(k)}
    IN  IF all \subseteq {"completed", "failed", "skipped"}
        THEN IF "failed" \in all \/ <<Place[k].origin, Place[k].sop>> \in OutputFails
             THEN "failed" ELSE "completed"
        ELSE IF \E i \in Steps(k) :
                    step[i].status = "running" /\ Def(k, i).executor \in Manual
             THEN "awaiting_confirmation" ELSE "running"

RowAfter(k, row, came, act) ==
    LET step == StepsAfter(k, row.step, came, act)
    IN  IF Terminal(row) THEN row
        ELSE [status |-> StatusAfter(k, step), step |-> step]

\* What every run comes to when it is reconciled: the code repeats its passes
\* over the steps until nothing changes, and reconciles a child on the way.
Reconciled(rows, acts) ==
    LET rec[k \in Key] ==
            RowAfter(k, IF rows[k].status = "absent" THEN Admitted(k) ELSE rows[k],
                     [i \in Steps(k) |-> IF Def(k, i).executor = "sop"
                                         THEN rec[Child[k][i]].status ELSE "open"],
                     acts[k])
    IN  rec

\* Step i of run k has just admitted its child.
Admits(rows, rec, k, i) ==
    /\ Def(k, i).executor = "sop"
    /\ Begins(rows[k].step[i], Says(k, i), DepStatus(k, i, rec[k].step))

\* Fault: the ancestors are not looked at.
LookedAtBelow(k, rows, rec) ==
    LET seen[j \in Key] ==
            \/ j = k
            \/ /\ Kind(j) = "child"
               /\ seen[Parent(j)]
               /\ ~Terminal(rows[Parent(j)])
               /\ \/ rows[Parent(j)].step[StepOf(j)].status = "running"
                  \/ Admits(rows, rec, Parent(j), StepOf(j)) /\ rows[Parent(j)].step[StepOf(j)].pin
    IN  {j \in Key : seen[j]}

\* The runs looked at when k is reconciled: k and its ancestors, and the
\* child of each running step of a run that is looked at and not over.
LookedAt(k, rows, rec) ==
    LET seen[j \in Key] ==
            \/ j \in Lineage[k]
            \/ /\ Kind(j) = "child"
               /\ seen[Parent(j)]
               /\ ~Terminal(rows[Parent(j)])
               /\ \/ rows[Parent(j)].step[StepOf(j)].status = "running"
                  \/ Admits(rows, rec, Parent(j), StepOf(j)) /\ rows[Parent(j)].step[StepOf(j)].pin
    IN  {j \in Key : seen[j]}

\* A child whose definition is no longer pinned is admitted and left.
Orphaned(rows, rec, seen) ==
    {j \in Key :
        /\ Kind(j) = "child"
        /\ rows[j].status = "absent"
        /\ Parent(j) \in seen
        /\ ~Terminal(rows[Parent(j)])
        /\ Admits(rows, rec, Parent(j), StepOf(j))
        /\ ~rows[Parent(j)].step[StepOf(j)].pin}

RowsAfter(rows, rec, seen) ==
    LET orphans == Orphaned(rows, rec, seen) \ seen
    IN  [j \in Key |->
            CASE j \in seen    -> rec[j]
              [] j \in orphans -> Admitted(j)
              [] OTHER         -> rows[j]]

\* Whoever finds no row for a running step writes one.
Ensured(rows, kinds, table, absent, fresh) ==
    [k \in Key |-> [i \in Steps(k) |->
        IF rows[k].step[i].status = "running" /\ Def(k, i).executor \in kinds
           /\ table[k][i] = absent
        THEN fresh ELSE table[k][i]]]

\* The end of a run and its terminal event are one transaction.
Published(rows, events) ==
    [k \in Key |->
        IF Terminal(rows[k]) /\ events[k] = None
        THEN [outcome |-> rows[k].status, at |-> time + 1, compacted |-> FALSE]
        ELSE events[k]]

\* How a transaction about run k ends, when it has brought the tables to
\* `rows`, `hands`, `acts` and `events`.
Commit(k, rows, hands, acts, events) ==
    LET rec == Reconciled(rows, acts)
        seen == LookedAt(k, rows, rec)
    IN  /\ run' = RowsAfter(rows, rec, seen)
        /\ handoff' = Ensured(run', Manual, hands, NoHandoff, [NoHandoff EXCEPT !.status = "pending"])
        /\ action' = Ensured(run', {"action"}, acts, "absent", "pending")
        /\ outbox' = Published(run', events)
        /\ time' = IF outbox' = events THEN time ELSE time + 1
        /\ owed' = [j \in Key |-> IF j \in seen THEN "no" ELSE owed[j]]

Init ==
    /\ run = [k \in Key |-> Blank(k)]
    /\ handoff = [k \in Key |-> [i \in Steps(k) |-> NoHandoff]]
    /\ action = [k \in Key |-> [i \in Steps(k) |-> "absent"]]
    /\ outbox = [k \in Key |-> None]
    /\ required = [c \in Consumer |-> None]
    /\ acked = [k \in Key |-> {}]
    /\ owed = [k \in Key |-> "no"]
    /\ claims = 0
    /\ time = 0

-----------------------------------------------------------------------------
(* Runs *)

Started == {k \in Key : Kind(k) = "root" /\ run[k].status # "absent"}

\* sop_run_start.  A repeated start finds the run, and is then a refresh.
RunStart(k) ==
    /\ Kind(k) = "root"
    /\ run[k].status = "absent"
    /\ Cardinality(Started) < MaxRoots
    /\ Commit(k, [run EXCEPT ![k] = Admitted(k)], handoff, action, outbox)
    /\ UNCHANGED <<required, acked, claims>>

RunRefresh(k) ==
    /\ run[k].status # "absent"
    /\ Commit(k, run, handoff, action, outbox)
    /\ UNCHANGED <<required, acked, claims>>

\* The child a step has admitted, unless admission ended in an error.
HasChild(rows, k) ==
    /\ Kind(k) = "child"
    /\ rows[k].status # "absent"
    /\ rows[Parent(k)].step[StepOf(k)].why # "pin"

\* A run that is cancelled takes along the children that are not over.
CancelledWith(k) ==
    LET hit[j \in Key] ==
            /\ ~Terminal(run[j])
            /\ \/ j = k
               \/ HasChild(run, j) /\ hit[Parent(j)]
    IN  {j \in Key : hit[j]}

CancelStep(step) == IF step.status \in {"pending", "running"}
                    THEN [step EXCEPT !.status = "skipped"] ELSE step

CancelRow(k) == [status |-> "cancelled", step |-> [i \in Steps(k) |-> CancelStep(run[k].step[i])]]

\* Fault: a cancelled handoff keeps its lease.
CancelHandoffLeased(h) == IF h.status \in {"pending", "leased"}
                          THEN [h EXCEPT !.status = "cancelled"] ELSE h

\* Fault: a leased handoff outlives the cancelled run.
CancelHandoffPending(h) == IF h.status = "pending" THEN [h EXCEPT !.status = "cancelled"] ELSE h

CancelHandoff(h) == IF h.status \in {"pending", "leased"}
                    THEN [h EXCEPT !.status = "cancelled", !.live = FALSE] ELSE h

\* sop_run_cancel: open handoffs and actions go with the run.  Every run
\* that was cancelled gets its terminal event.
RunCancel(k) ==
    LET hit == CancelledWith(k)
        rows == [j \in Key |-> IF j \in hit THEN CancelRow(j) ELSE run[j]]
        hands == [j \in Key |-> [i \in Steps(j) |->
                     IF j \in hit THEN CancelHandoff(handoff[j][i]) ELSE handoff[j][i]]]
        acts == [j \in Key |-> [i \in Steps(j) |->
                     IF j \in hit /\ action[j][i] = "pending" THEN "cancelled" ELSE action[j][i]]]
    IN  /\ Live(run[k])
        /\ Commit(k, rows, hands, acts, outbox)
        /\ UNCHANGED <<required, acked, claims>>

-----------------------------------------------------------------------------
(* Handoffs *)

\* A claim takes a handoff that is free, or whose lease has run out, of a
\* run that is not over.  Its token was never used before.
HandoffClaim(k, i) ==
    LET h == handoff[k][i] IN
    /\ \/ h.status = "pending"
       \/ h.status = "leased" /\ ~h.live
    /\ ~Terminal(run[k])
    /\ claims < MaxClaims
    /\ claims' = claims + 1
    /\ handoff' = [handoff EXCEPT ![k][i] = [status |-> "leased", token |-> claims + 1, live |-> TRUE]]
    /\ UNCHANGED <<run, action, outbox, required, acked, owed, time>>

\* Time passes: the lease of a claim runs out.  Renewing a lease is not a
\* step of its own: the lease then runs out later.
LeaseRunsOut(k, i) ==
    /\ handoff[k][i].status = "leased"
    /\ handoff[k][i].live
    /\ handoff' = [handoff EXCEPT ![k][i].live = FALSE]
    /\ UNCHANGED <<run, action, outbox, required, acked, owed, claims, time>>

\* The caller shows the token of the lease.
RequireLease(k, i, token) ==
    /\ handoff[k][i].status = "leased"
    /\ handoff[k][i].token = token

\* A holder that stops gives the handoff back, even with a lease run out.
HandoffRelease(k, i, token) ==
    /\ RequireLease(k, i, token)
    /\ handoff' = [handoff EXCEPT ![k][i].status = "pending", ![k][i].live = FALSE]
    /\ UNCHANGED <<run, action, outbox, required, acked, owed, claims, time>>

\* The holder of a lease that has not run out brings the outcome.  Whoever
\* repeats it later gets the recorded one back.
RunAdvance(k, i, token, outcome) ==
    /\ RequireLease(k, i, token)
    /\ handoff[k][i].live
    /\ ~Terminal(run[k])
    /\ run[k].step[i].status = "running"
    /\ Commit(k,
              [run EXCEPT ![k].step[i] =
                  [@ EXCEPT !.status = outcome, !.why = IF outcome = "failed" THEN "own" ELSE "none"]],
              [handoff EXCEPT ![k][i].status = outcome, ![k][i].live = FALSE],
              action, outbox)
    /\ UNCHANGED <<required, acked, claims>>

\* The steps that failed because step i did, directly or not.
Dependents(k, i) ==
    LET hit[j \in Steps(k)] ==
            \/ j = i
            \/ /\ run[k].step[j].status = "failed"
               /\ run[k].step[j].why = "dependency"
               /\ \E d \in Def(k, j).deps : hit[d]
    IN  {j \in Steps(k) : hit[j]} \ {i}

\* A dependent step starts over, and its child's fingerprint is cleared
\* with the rest.
Reset(step) == [status |-> "pending", why |-> "none", pin |-> FALSE]

Reopened(k, i) ==
    LET again == Dependents(k, i) IN
    [status |-> "awaiting_confirmation",
     step |-> [j \in Steps(k) |->
                  CASE j = i       -> [run[k].step[i] EXCEPT !.status = "running", !.why = "none"]
                    [] j \in again -> Reset(run[k].step[j])
                    [] OTHER       -> run[k].step[j]]]

\* Fault: acknowledgements do not count.
ConsumedIfCompacted(k) == outbox[k] # None /\ outbox[k].compacted

\* A terminal event that was acknowledged or compacted stays.
Consumed(k) == outbox[k] # None /\ (acked[k] # {} \/ outbox[k].compacted)

\* Fault: a completed handoff may be done again.
RetryFinished(k, i) ==
    /\ handoff[k][i].status \in {"failed", "completed"}
    /\ Def(k, i).executor = "agent"
    /\ run[k].step[i].status \in {"failed", "completed"}

RetryFailed(k, i) ==
    /\ handoff[k][i].status = "failed"
    /\ Def(k, i).executor = "agent"
    /\ run[k].step[i].status = "failed"

\* Retrying a failed handoff where it is: the run, over or not, goes on from
\* there, and a terminal event nobody has consumed is taken back.
HandoffRetry(k, i) ==
    /\ RetryFailed(k, i)
    /\ ~Consumed(k)
    /\ Commit(k, [run EXCEPT ![k] = Reopened(k, i)],
              [handoff EXCEPT ![k][i].status = "pending"],
              action, [outbox EXCEPT ![k] = None])
    /\ UNCHANGED <<required, acked, claims>>

\* Otherwise a new run does the retry; a second retry finds it.
HandoffRetryAsNewRun(k, i) ==
    /\ RetryFailed(k, i)
    /\ Consumed(k)
    /\ \E new \in MadeFrom("retry", k, i) :
           Commit(new,
                  IF run[new].status = "absent" THEN [run EXCEPT ![new] = Admitted(new)] ELSE run,
                  handoff, action, outbox)
    /\ UNCHANGED <<required, acked, claims>>

-----------------------------------------------------------------------------
(* Actions *)

\* First transaction of sop_action_resolve: the receipt.  A receipt for an
\* action cancelled with its run is recorded too, and no second transaction
\* follows.
ActionReceipt(k, i, outcome) ==
    LET late == action[k][i] = "cancelled" /\ run[k].status = "cancelled" IN
    /\ action[k][i] = "pending" \/ late
    /\ action' = [action EXCEPT ![k][i] = outcome]
    /\ owed' = [owed EXCEPT ![k] = IF late THEN @ ELSE "due"]
    /\ UNCHANGED <<run, handoff, outbox, required, acked, claims, time>>

\* Second transaction.
ActionReconcile(k) ==
    /\ owed[k] = "due"
    /\ Commit(k, run, handoff, action, outbox)
    /\ UNCHANGED <<required, acked, claims>>

\* The server dies between the two, or the second one fails: its failure is
\* reported and nothing undone.
ActionReconcileLost(k) ==
    /\ owed[k] = "due"
    /\ owed' = [owed EXCEPT ![k] = "lost"]
    /\ UNCHANGED <<run, handoff, action, outbox, required, acked, claims, time>>

-----------------------------------------------------------------------------
(* The terminal outbox *)

\* Fault: a consumer may reach back to what was compacted.
OutboxConsumerRegisterBack(c, start) ==
    /\ required[c] = None
    /\ required' = [required EXCEPT ![c] = start]
    /\ UNCHANGED <<run, handoff, action, outbox, acked, owed, claims, time>>

\* A consumer registers from a moment on, and may not reach back to what
\* has been compacted.
OutboxConsumerRegister(c, start) ==
    /\ required[c] = None
    /\ \A k \in Key : outbox[k] # None /\ outbox[k].at >= start => ~outbox[k].compacted
    /\ required' = [required EXCEPT ![c] = start]
    /\ UNCHANGED <<run, handoff, action, outbox, acked, owed, claims, time>>

\* The consumers an event is kept for.
Readers(event) == {c \in Consumer : required[c] # None /\ required[c] <= event.at}

OutboxAck(k, c) ==
    /\ outbox[k] # None
    /\ c \in Readers(outbox[k])
    /\ acked' = [acked EXCEPT ![k] = @ \cup {c}]
    /\ UNCHANGED <<run, handoff, action, outbox, required, owed, claims, time>>

\* The payload of an event goes when everyone it was kept for has
\* acknowledged it.
Compactable(k, before) ==
    /\ outbox[k] # None
    /\ outbox[k].at < before
    /\ Readers(outbox[k]) # {}
    /\ Readers(outbox[k]) \subseteq acked[k]
    /\ ~outbox[k].compacted

OutboxCompact(before) ==
    /\ \E k \in Key : Compactable(k, before)
    /\ outbox' = [k \in Key |-> IF Compactable(k, before)
                                THEN [outbox[k] EXCEPT !.compacted = TRUE] ELSE outbox[k]]
    /\ UNCHANGED <<run, handoff, action, required, acked, owed, claims, time>>

-----------------------------------------------------------------------------

RunNext ==
    \E k \in Key : RunStart(k) \/ RunRefresh(k) \/ RunCancel(k)

HandoffNext ==
    \E k \in Key : \E i \in Steps(k) :
        \/ HandoffClaim(k, i)
        \/ LeaseRunsOut(k, i)
        \/ HandoffRetry(k, i)
        \/ HandoffRetryAsNewRun(k, i)
        \/ \E token \in 1..MaxClaims :
               \/ HandoffRelease(k, i, token)
               \/ \E outcome \in {"completed", "failed"} : RunAdvance(k, i, token, outcome)

ActionNext ==
    \E k \in Key :
        \/ \E i \in Steps(k), outcome \in {"completed", "failed", "unfit"} :
               ActionReceipt(k, i, outcome)
        \/ ActionReconcile(k)
        \/ ActionReconcileLost(k)

OutboxNext ==
    \/ \E c \in Consumer, start \in {0, time + 1} :
           time <= MaxRegistered /\ OutboxConsumerRegister(c, start)
    \/ \E k \in Key, c \in Consumer : OutboxAck(k, c)
    \/ \E before \in 1..(time + 1) : OutboxCompact(before)

Next == RunNext \/ HandoffNext \/ ActionNext \/ OutboxNext

EngineSpec == Init /\ [][Next]_engineVars

-----------------------------------------------------------------------------
(* Properties *)

StepType(step) ==
    /\ step.status \in StepStatus
    /\ step.why \in {"none", "own", "dependency", "pin"}
    /\ step.pin \in BOOLEAN

HandoffType(h) ==
    /\ h.status \in {"absent", "pending", "leased", "completed", "failed", "cancelled"}
    /\ h.token \in 0..claims
    /\ h.live \in BOOLEAN
    /\ h.live => h.status = "leased"

EventType(event) ==
    \/ event = None
    \/ event.outcome \in EndStatus /\ event.at \in 1..time /\ event.compacted \in BOOLEAN

\* Rows keep their columns' values; only a leased handoff has a lease.
EngineTypeOK ==
    /\ \A k \in Key :
           /\ run[k].status \in RunStatus
           /\ \A i \in Steps(k) :
                  /\ StepType(run[k].step[i])
                  /\ HandoffType(handoff[k][i])
                  /\ action[k][i] \in {"absent", "pending", "completed", "failed", "unfit", "cancelled"}
           /\ EventType(outbox[k])
           /\ acked[k] \subseteq Consumer
           /\ owed[k] \in {"no", "due", "lost"}
    /\ \A c \in Consumer : required[c] = None \/ required[c] \in 0..(time + 1)
    /\ claims \in 0..MaxClaims /\ time \in Nat

\* What a running step of k is waiting for has not happened yet.
StillOpen(k, i) ==
    CASE Def(k, i).executor \in Manual   -> handoff[k][i].status \in {"pending", "leased"}
      [] Def(k, i).executor = "action"   -> action[k][i] = "pending" \/ owed[k] # "no"
      [] Def(k, i).executor = "sop"      -> Live(run[Child[k][i]])
      [] OTHER                           -> FALSE

StillBlocked(k, i) ==
    LET deps == DepStatus(k, i, run[k].step)
    IN  ~(deps \subseteq Settled) /\ "failed" \notin deps

\* No lost wake-up.  A run that was ever reconciled and is not over has a
\* step to wait for, and each of its steps waits for something that is still
\* to come; the one exception is a run whose action was answered and whose
\* second transaction has not run.
WaitsForSomething ==
    \A k \in Key : run[k].status \in {"running", "awaiting_confirmation"} =>
        /\ \E i \in Steps(k) : run[k].step[i].status = "running"
        /\ \A i \in Steps(k) :
               /\ run[k].step[i].status = "running" => StillOpen(k, i)
               /\ run[k].step[i].status = "pending" => StillBlocked(k, i)

\* Nothing is carried out before what it depends on, also after a failed
\* handoff was retried, the run was cancelled in between, or both.
DependencyOrder ==
    \A k \in Key : \A i \in Steps(k) :
        run[k].step[i].status \in {"running", "completed"} =>
            \A j \in Def(k, i).deps : run[k].step[j].status \in Settled

\* Whatever a consumer or a dispatcher can still pick up is wanted: the run
\* is live and the step is waiting for it.
OpenWorkIsWanted ==
    \A k \in Key : \A i \in Steps(k) :
        handoff[k][i].status \in {"pending", "leased"} \/ action[k][i] = "pending" =>
            Live(run[k]) /\ run[k].step[i].status = "running"

\* A completed step stands on a completed handoff, action or child, which no
\* later retry or cancellation takes back.
CompletedIsBacked ==
    \A k \in Key : \A i \in Steps(k) :
        run[k].step[i].status = "completed" =>
            CASE Def(k, i).executor \in Manual -> handoff[k][i].status = "completed"
              [] Def(k, i).executor = "action" -> action[k][i] = "completed"
              [] Def(k, i).executor = "sop"    -> run[Child[k][i]].status = "completed"
              [] OTHER                         -> TRUE

\* A payload is gone only when each consumer it was kept for, registered
\* before or after, has acknowledged it.
CompactedWasRead ==
    \A k \in Key :
        outbox[k] # None /\ outbox[k].compacted =>
            /\ Readers(outbox[k]) # {}
            /\ Readers(outbox[k]) \subseteq acked[k]

\* The engine is a SopRunLife: the outbox tells of each run how it ended,
\* and never again otherwise once somebody has acknowledged it.
RunLife == INSTANCE SopRunLife WITH
    stage <- [k \in Key |-> IF Live(run[k]) THEN "live" ELSE run[k].status],
    told <- [k \in Key |-> IF outbox[k] = None THEN None ELSE outbox[k].outcome],
    consumed <- {k \in Key : acked[k] # {}}

ImplementsRunLife == RunLife!Life

=============================================================================
