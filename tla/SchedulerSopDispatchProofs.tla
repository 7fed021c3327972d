--------------------- MODULE SchedulerSopDispatchProofs ---------------------
(***************************************************************************)
(* What holds of the scheduler's store, the SOP server and the dispatcher  *)
(* together, for any number of bindings, events, runs, passes, consumers   *)
(* and faults.                                                             *)
(*                                                                         *)
(* The two servers and what the passes remember are separate conjuncts of  *)
(* the inductive invariant.  A pass remembers rows it read some time ago.  *)
(* That they still say something rests on what neither server ever takes   *)
(* back (StoreHistory, SopHistory): a recorded event, the target and the   *)
(* run of an activation, the key of a run, and the first end of a run that *)
(* is not retried.                                                         *)
(***************************************************************************)
EXTENDS SchedulerSopDispatch, ActivationStoreProofs

-----------------------------------------------------------------------------
(* The SOP server *)

RunRow ==
    [status : {"absent", "live"} \cup Sop!EndStatus, sop : SopId \cup {None},
     key : OccurrenceKey \cup {None}, by : Consumer \cup {"sop-handoff-retry", None},
     version : 0..MaxVersion, finishes : Nat, waited : BOOLEAN]

\* The row of one run agrees with its terminal event, and a run has an SOP and
\* a key as soon as it is there.  It ends once more than it was retried.
RunAgrees(r) ==
    /\ run[r].status \in Sop!EndStatus <=> outbox[r] # None
    /\ outbox[r] # None =>
           /\ outbox[r].outcome = run[r].status
           /\ outbox[r].at = run[r].finishes
           /\ run[r].finishes >= 1
    /\ run[r].status = "absent" <=> run[r].key = None
    /\ run[r].status = "absent" => run[r].finishes = 0
    /\ run[r].status # "absent" => run[r].sop \in SopId /\ run[r].version \in 1..MaxVersion
    /\ run[r].status = "live" => run[r].finishes <= retries
    /\ run[r].finishes <= retries + 1
    /\ acked[r] # {} => outbox[r] # None

SopInv ==
    /\ template \in [SopId -> 1..MaxVersion]
    /\ run \in [RunId -> RunRow]
    /\ outbox \in [RunId -> TerminalRow \cup {None}]
    /\ acked \in [RunId -> SUBSET Consumer]
    /\ retries \in 0..MaxRetries
    /\ \A r \in RunId : RunAgrees(r)

\* The calls the SOP server gets.
SopMove ==
    \/ UNCHANGED sopVars
    \/ Sop!SopNext
    \/ \E r \in RunId, sop \in SopId, key \in OccurrenceKey, by \in Consumer :
           Sop!StartRun(r, sop, key, by, template[sop]) /\ UNCHANGED retries
    \/ \E r \in RunId, c \in Consumer : Sop!AckOutbox(r, c)

\* What stays true of a run once it is known: its SOP and its key, and the
\* way it first ended unless it is retried.
RunKept(r) ==
    /\ run[r].status # "absent" =>
           /\ run'[r].status # "absent"
           /\ run'[r].key = run[r].key
           /\ run'[r].sop = run[r].sop
    /\ run[r].finishes <= run'[r].finishes
    /\ run[r].finishes >= 1 /\ outbox'[r] # None /\ run'[r].finishes = 1 =>
           outbox[r] # None /\ outbox'[r] = outbox[r] /\ run'[r].status = run[r].status

SopHistory == \A r \in RunId : RunKept(r)

\* The row a start writes, and the event it writes with it.
LEMMA NewRunRow ==
    ASSUME NEW status \in {"live", "completed", "failed"}, NEW sop \in SopId,
           NEW key \in OccurrenceKey, NEW by \in Consumer \cup {"sop-handoff-retry"},
           NEW version \in 1..MaxVersion
    PROVE  LET row == Sop!NewRun(status, sop, key, by, version)
           IN  /\ row \in RunRow
               /\ row.status = status /\ row.sop = sop /\ row.key = key /\ row.version = version
               /\ row.finishes = IF status = "live" THEN 0 ELSE 1
BY DispatchBounds DEF Sop!NewRun, RunRow, Sop!EndStatus

\* The row an end writes.
LEMMA EndedRow ==
    ASSUME NEW row \in RunRow, NEW status \in Sop!EndStatus
    PROVE  /\ Sop!Ended(row, status) \in RunRow
           /\ Sop!Ended(row, status).status = status
           /\ Sop!Ended(row, status).sop = row.sop
           /\ Sop!Ended(row, status).key = row.key
           /\ Sop!Ended(row, status).version = row.version
           /\ Sop!Ended(row, status).finishes = row.finishes + 1
<1>1. row.finishes + 1 \in Nat
  BY DEF RunRow
<1> QED
  BY <1>1 DEF Sop!Ended, RunRow

\* The terminal event of a row that ended within the bound on retries.
LEMMA TerminalEventRow ==
    ASSUME NEW row \in RunRow, row.status \in Sop!EndStatus,
           NEW says \in Sop!SaysOf(row.status), row.finishes \in 1..(MaxRetries + 1)
    PROVE  /\ Sop!TerminalEvent(row, says) \in TerminalRow
           /\ Sop!TerminalEvent(row, says) # None
           /\ Sop!TerminalEvent(row, says).outcome = row.status
           /\ Sop!TerminalEvent(row, says).at = row.finishes
<1>1. says \in EventOutcome
  BY OutcomesAgree DEF Sop!SaysOf, EventOutcome
<1> QED
  BY <1>1, DispatchNone DEF Sop!TerminalEvent, TerminalRow

\* A call that changes nothing of run r but, maybe, who acknowledged it.
LEMMA RunUntouched ==
    ASSUME SopInv, NEW r \in RunId, run'[r] = run[r], outbox'[r] = outbox[r],
           retries' \in Nat, retries <= retries', acked'[r] # {} => outbox[r] # None
    PROVE  RunAgrees(r)' /\ RunKept(r)
BY DEF SopInv, RunAgrees, RunKept, RunRow

\* A new run agrees with its event, and so does everything else.
LEMMA StartRunInv ==
    ASSUME SopInv, NEW r \in RunId, NEW sop \in SopId,
           NEW key \in OccurrenceKey, NEW by \in Consumer \cup {"sop-handoff-retry"},
           NEW version \in 1..MaxVersion, Sop!StartRun(r, sop, key, by, version),
           retries' \in 0..MaxRetries, retries <= retries'
    PROVE  SopInv' /\ SopHistory
<1>1. PICK status \in {"live", "completed", "failed"} :
          /\ run' = [run EXCEPT ![r] = Sop!NewRun(status, sop, key, by, version)]
          /\ IF status = "live"
             THEN UNCHANGED outbox
             ELSE \E says \in Sop!SaysOf(status) :
                      outbox' = [outbox EXCEPT ![r] = Sop!TerminalEvent(run'[r], says)]
  BY DEF Sop!StartRun
<1>2. /\ run[r].status = "absent" /\ outbox[r] = None /\ acked[r] = {}
      /\ run[r].finishes = 0
  <2>1. run[r].status = "absent"
    BY DEF Sop!StartRun, Sop!Fresh
  <2> QED
    BY <2>1 DEF SopInv, RunAgrees, Sop!EndStatus
<1>3. UNCHANGED <<template, acked>>
  BY DEF Sop!StartRun
<1> DEFINE row == Sop!NewRun(status, sop, key, by, version)
<1>4. /\ row \in RunRow /\ row.status = status /\ row.sop = sop /\ row.key = key
      /\ row.version = version /\ row.finishes = IF status = "live" THEN 0 ELSE 1
  BY NewRunRow
<1> HIDE DEF row
<1>5. run' = [run EXCEPT ![r] = row] /\ run'[r] = row
  BY <1>1 DEF row, SopInv
<1>6. \A o \in RunId \ {r} : run'[o] = run[o] /\ outbox'[o] = outbox[o]
  BY <1>1, <1>5 DEF SopInv
<1>7. key # None
  BY DispatchNone
<1>8. /\ outbox' \in [RunId -> TerminalRow \cup {None}]
      /\ status = "live" => outbox'[r] = None
      /\ status # "live" =>
             /\ outbox'[r] # None /\ outbox'[r].outcome = status /\ outbox'[r].at = 1
  <2>1. CASE status = "live"
    BY <1>1, <1>2, <2>1 DEF SopInv
  <2>2. CASE status # "live"
    <3>1. PICK says \in Sop!SaysOf(status) :
              outbox' = [outbox EXCEPT ![r] = Sop!TerminalEvent(row, says)]
      BY <1>1, <1>5, <2>2
    <3>2. /\ row.status \in Sop!EndStatus /\ says \in Sop!SaysOf(row.status)
          /\ row.finishes = 1 /\ 1 \in 1..(MaxRetries + 1)
      BY <1>4, <2>2, <3>1, DispatchBounds DEF Sop!EndStatus
    <3>3. /\ Sop!TerminalEvent(row, says) \in TerminalRow
          /\ Sop!TerminalEvent(row, says) # None
          /\ Sop!TerminalEvent(row, says).outcome = row.status
          /\ Sop!TerminalEvent(row, says).at = row.finishes
      BY <1>4, <3>2, TerminalEventRow
    <3> QED
      BY <1>4, <2>2, <3>1, <3>2, <3>3 DEF SopInv
  <2> QED
    BY <2>1, <2>2
<1>9. RunAgrees(r)' /\ RunKept(r)
  BY <1>2, <1>3, <1>4, <1>5, <1>7, <1>8, DispatchBounds DEF RunAgrees, RunKept, Sop!EndStatus, SopInv
<1>10. \A o \in RunId \ {r} : RunAgrees(o)' /\ RunKept(o)
  <2>1. \A o \in RunId : acked[o] # {} => outbox[o] # None
    BY DEF SopInv, RunAgrees
  <2> QED
    BY <1>3, <1>6, <2>1, RunUntouched, DispatchBounds DEF SopInv
<1>11. run' \in [RunId -> RunRow]
  BY <1>4, <1>5 DEF SopInv
<1> QED
  BY <1>3, <1>8, <1>9, <1>10, <1>11 DEF SopInv, SopHistory

\* A run that lives on ends once more, with an event of its own.
LEMMA FinishRunInv ==
    ASSUME SopInv, NEW r \in RunId, NEW status \in Sop!EndStatus,
           NEW says \in Sop!SaysOf(status), Sop!FinishRun(r, status, says)
    PROVE  SopInv' /\ SopHistory
<1> DEFINE row == Sop!Ended(run[r], status)
<1>1. /\ run[r].status = "live" /\ run[r] \in RunRow /\ run[r].finishes \in Nat
      /\ run[r].finishes <= retries /\ outbox[r] = None /\ run[r].key # None
      /\ run[r].sop \in SopId /\ run[r].version \in 1..MaxVersion /\ acked[r] = {}
  BY DEF Sop!FinishRun, SopInv, RunAgrees, RunRow, Sop!EndStatus
<1>2. /\ row \in RunRow /\ row.status = status /\ row.sop = run[r].sop
      /\ row.key = run[r].key /\ row.version = run[r].version
      /\ row.finishes = run[r].finishes + 1
  BY <1>1, EndedRow
<1>3. run' = [run EXCEPT ![r] = row]
  BY DEF Sop!FinishRun
<1> HIDE DEF row
<1>4. /\ run' \in [RunId -> RunRow] /\ run'[r] = row
      /\ \A o \in RunId \ {r} : run'[o] = run[o]
  BY <1>2, <1>3 DEF SopInv
<1>5. row.finishes \in 1..(MaxRetries + 1) /\ row.finishes <= retries + 1
  BY <1>1, <1>2, DispatchBounds DEF SopInv
<1> DEFINE told == Sop!TerminalEvent(row, says)
<1>6. told \in TerminalRow /\ told # None /\ told.outcome = status /\ told.at = row.finishes
  BY <1>2, <1>5, TerminalEventRow
<1>7. outbox' = [outbox EXCEPT ![r] = told] /\ UNCHANGED <<template, acked, retries>>
  BY <1>4 DEF Sop!FinishRun
<1> HIDE DEF told
<1>8. /\ outbox' \in [RunId -> TerminalRow \cup {None}] /\ outbox'[r] = told
      /\ \A o \in RunId \ {r} : outbox'[o] = outbox[o]
  BY <1>6, <1>7 DEF SopInv
<1>9. RunAgrees(r)' /\ RunKept(r)
  BY <1>1, <1>2, <1>4, <1>5, <1>6, <1>7, <1>8 DEF RunAgrees, RunKept, Sop!EndStatus
<1>10. \A o \in RunId \ {r} : RunAgrees(o)' /\ RunKept(o)
  <2>1. \A o \in RunId : acked[o] # {} => outbox[o] # None
    BY DEF SopInv, RunAgrees
  <2> QED
    BY <1>4, <1>7, <1>8, <2>1, RunUntouched, DispatchBounds DEF SopInv
<1> QED
  BY <1>4, <1>7, <1>8, <1>9, <1>10 DEF SopInv, SopHistory

\* A retry where nobody has acknowledged the event takes the event back; it
\* counts as a retry, so the run has then ended too often to be found with one
\* end.  Otherwise the retry is a run of its own.
LEMMA RetryHandoffInv ==
    ASSUME SopInv, NEW r \in RunId, Sop!RetryHandoff(r)
    PROVE  SopInv' /\ SopHistory
<1>1. retries' = retries + 1 /\ retries' \in 0..MaxRetries /\ retries \in Nat
  BY DispatchBounds DEF Sop!RetryHandoff, SopInv
<1>2. /\ run[r].status \in {"failed", "cancelled"} /\ run[r] \in RunRow
      /\ run[r].sop \in SopId /\ run[r].version \in 1..MaxVersion /\ run[r].key # None
      /\ run[r].finishes \in Nat /\ run[r].finishes <= retries + 1 /\ run[r].finishes >= 1
  BY DEF Sop!RetryHandoff, SopInv, RunAgrees, RunRow, Sop!EndStatus
<1>3. CASE /\ acked[r] = {}
           /\ run' = [run EXCEPT ![r].status = "live"]
           /\ outbox' = [outbox EXCEPT ![r] = None]
           /\ UNCHANGED <<template, acked>>
  <2> DEFINE row == [run[r] EXCEPT !.status = "live"]
  <2>1. /\ row \in RunRow /\ row.status = "live" /\ row.sop = run[r].sop /\ row.key = run[r].key
        /\ row.version = run[r].version /\ row.finishes = run[r].finishes
    BY <1>2 DEF RunRow
  <2>2. run' = [run EXCEPT ![r] = row]
    BY <1>3
  <2> HIDE DEF row
  <2>3. /\ run' \in [RunId -> RunRow] /\ run'[r] = row
        /\ \A o \in RunId \ {r} : run'[o] = run[o]
        /\ outbox' \in [RunId -> TerminalRow \cup {None}] /\ outbox'[r] = None
        /\ \A o \in RunId \ {r} : outbox'[o] = outbox[o]
    BY <1>3, <2>1, <2>2 DEF SopInv
  <2>4. RunAgrees(r)' /\ RunKept(r)
    BY <1>1, <1>2, <1>3, <2>1, <2>3 DEF RunAgrees, RunKept, Sop!EndStatus
  <2>5. \A o \in RunId \ {r} : RunAgrees(o)' /\ RunKept(o)
    <3>1. \A o \in RunId : acked[o] # {} => outbox[o] # None
      BY DEF SopInv, RunAgrees
    <3> QED
      BY <1>1, <1>3, <2>3, <3>1, RunUntouched, DispatchBounds DEF SopInv
  <2> QED
    BY <1>1, <1>3, <2>3, <2>4, <2>5 DEF SopInv, SopHistory
<1>4. ASSUME NEW fresh \in RunId,
             Sop!StartRun(fresh, run[r].sop, <<"retry", r>>, "sop-handoff-retry", run[r].version)
      PROVE  SopInv' /\ SopHistory
  <2>1. <<"retry", r>> \in OccurrenceKey
    BY DEF OccurrenceKey
  <2>2. PICK sop \in SopId, version \in 1..MaxVersion :
            Sop!StartRun(fresh, sop, <<"retry", r>>, "sop-handoff-retry", version)
    BY <1>2, <1>4
  <2> QED
    BY <1>1, <2>1, <2>2, StartRunInv
<1> QED
  BY <1>3, <1>4 DEF Sop!RetryHandoff

\* Every call of the SOP server keeps its rows in agreement and takes
\* back nothing of what is known.
LEMMA SopStep ==
    ASSUME SopInv, SopMove
    PROVE  SopInv' /\ SopHistory
<1>0. /\ \A o \in RunId : acked[o] # {} => outbox[o] # None
      /\ retries \in Nat /\ retries <= retries
  BY DispatchBounds DEF SopInv, RunAgrees
<1>1. CASE UNCHANGED sopVars
  <2>1. \A o \in RunId : RunAgrees(o)' /\ RunKept(o)
    BY <1>0, <1>1, RunUntouched DEF sopVars
  <2> QED
    BY <1>1, <2>1 DEF sopVars, SopInv, SopHistory
<1>2. ASSUME NEW s \in SopId, Sop!PublishTemplate(s)
      PROVE  SopInv' /\ SopHistory
  <2>1. template' \in [SopId -> 1..MaxVersion] /\ UNCHANGED <<run, outbox, acked, retries>>
    BY <1>2, DispatchBounds DEF Sop!PublishTemplate, SopInv
  <2>2. \A o \in RunId : RunAgrees(o)' /\ RunKept(o)
    BY <1>0, <2>1, RunUntouched
  <2> QED
    BY <2>1, <2>2 DEF SopInv, SopHistory
<1>3. ASSUME NEW r \in RunId, NEW status \in Sop!EndStatus, NEW says \in Sop!SaysOf(status),
             Sop!FinishRun(r, status, says)
      PROVE  SopInv' /\ SopHistory
  BY <1>3, FinishRunInv
<1>4. ASSUME NEW r \in RunId, Sop!RetryHandoff(r)
      PROVE  SopInv' /\ SopHistory
  BY <1>4, RetryHandoffInv
<1>5. ASSUME NEW r \in RunId, NEW sop \in SopId, NEW key \in OccurrenceKey, NEW by \in Consumer,
             Sop!StartRun(r, sop, key, by, template[sop]), UNCHANGED retries
      PROVE  SopInv' /\ SopHistory
  <2>1. PICK version \in 1..MaxVersion : Sop!StartRun(r, sop, key, by, version)
    BY <1>5 DEF SopInv
  <2>2. retries' \in 0..MaxRetries /\ retries <= retries'
    BY <1>0, <1>5 DEF SopInv
  <2> QED
    BY <2>1, <2>2, StartRunInv
<1>6. ASSUME NEW r \in RunId, NEW c \in Consumer, Sop!AckOutbox(r, c)
      PROVE  SopInv' /\ SopHistory
  <2>1. /\ outbox[r] # None /\ acked' \in [RunId -> SUBSET Consumer]
        /\ \A o \in RunId \ {r} : acked'[o] = acked[o]
        /\ UNCHANGED <<template, run, outbox, retries>>
    BY <1>6 DEF Sop!AckOutbox, SopInv
  <2>2. \A o \in RunId : RunAgrees(o)' /\ RunKept(o)
    BY <1>0, <2>1, RunUntouched
  <2> QED
    BY <2>1, <2>2 DEF SopInv, SopHistory
<1> QED
  BY <1>1, <1>2, <1>3, <1>4, <1>5, <1>6 DEF SopMove, Sop!SopNext

-----------------------------------------------------------------------------
(* The activation store under the dispatcher *)

\* Every binding was installed; one at its first revision is as installed.
BindingsInstalled ==
    \A b \in BindingId :
        /\ binding[b].status # "absent"
        /\ binding[b].revision = 1 => binding[b].status = "active"

StoreInv ==
    /\ TypeOK /\ LaneExclusive /\ LeaseRecord /\ AuditTrail /\ Provenance
    /\ leases <= MaxLeases
    /\ BindingsInstalled
    /\ \A a \in Activation : activation[a].status # "absent" => activation[a].target \in SopId

\* What stays true of an activation once it is known: that it is there, its
\* target, its run, and the outcome of its run.
ActivationKept(a) ==
    /\ activation[a].status # "absent" =>
           activation'[a].status # "absent" /\ activation'[a].target = activation[a].target
    /\ activation[a].status = "absent" /\ activation'[a].status # "absent" =>
           activation'[a].target \in SopId
    /\ activation[a].run # None => activation'[a].run = activation[a].run
    /\ activation[a].run # None /\ activation[a].status = "terminal" =>
           /\ activation'[a].status = "terminal"
           /\ activation'[a].outcome = activation[a].outcome

\* What stays true of the store: the tokens issued, the events recorded, the
\* activations, and that a binding at its first revision was never changed.
StoreHistory ==
    /\ leases <= leases'
    /\ \A e \in EventId : event[e] # None => event'[e] = event[e]
    /\ \A b \in BindingId : binding'[b].revision = 1 => binding'[b] = binding[b]
    /\ \A a \in Activation : ActivationKept(a)

\* A row that keeps its place on either side of creation, its target and its
\* run, and is no ended one, keeps what is known of it.
LEMMA RowKept ==
    ASSUME NEW a \in Activation,
           activation'[a].status # "absent", activation'[a].target = activation[a].target,
           activation[a].status # "absent",
           activation'[a].run = activation[a].run,
           activation[a].run # None => activation[a].status # "terminal"
    PROVE  ActivationKept(a)
BY DEF ActivationKept

LEMMA SameRowKept ==
    ASSUME NEW a \in Activation, activation'[a] = activation[a]
    PROVE  ActivationKept(a)
BY DEF ActivationKept

\* A run comes with admission and never goes.
LEMMA RunOnlyWhenAdmitted ==
    ASSUME AuditTrail, NEW a \in Activation
    PROVE  /\ activation[a].run # None => activation[a].status \in {"admitted", "terminal"}
           /\ activation[a].status = "admitted" => activation[a].run # None
BY DEF AuditTrail

\* No call of the store takes back what is known.
LEMMA ActivationHistory ==
    ASSUME TypeOK, AuditTrail, [Next]_storeVars, NEW o \in Activation
    PROVE  ActivationKept(o)
<1>0. /\ \A a \in Activation : activation[a] \in ActivationRow
      /\ activation \in [Activation -> ActivationRow]
      /\ activation[o].run # None => activation[o].status \in {"admitted", "terminal"}
  BY RunOnlyWhenAdmitted DEF TypeOK
<1>1. CASE UNCHANGED storeVars
  BY <1>1, SameRowKept DEF storeVars
<1>2. ASSUME NEW b \in BindingId, NEW spec \in BindingSpec, BindingUpsert(b, spec)
      PROVE  ActivationKept(o)
  BY <1>2, SameRowKept DEF BindingUpsert
<1>3. ASSUME NEW b \in BindingId, NEW status \in BindingStatus,
             NEW expired, BindingSetStatus(b, status, expired)
      PROVE  ActivationKept(o)
  <2>1. CASE activation'[o] = activation[o]
    BY <2>1, SameRowKept
  <2>2. CASE activation'[o] # activation[o]
    <3>1. /\ activation[o].status \in {"pending", "leased"}
          /\ activation'[o] = Cancelled(activation[o])
      BY <1>3, <2>2 DEF BindingSetStatus, Quiesced, Holding
    <3> QED
      BY <1>0, <3>1, CancelledRow, RowKept
  <2> QED
    BY <2>1, <2>2
<1>4. ASSUME NEW c \in Content, EventAdmit(c)
      PROVE  ActivationKept(o)
  <2>1. CASE activation'[o] = activation[o]
    BY <2>1, SameRowKept
  <2>2. CASE activation'[o] # activation[o]
    <3>1. /\ o[1] \in Triggered(c) /\ activation'[o] = Created(o[1], c)
          /\ o[1] \in BindingId /\ o = <<o[1], c.id>>
      BY <1>4, <2>2, ActivationPair DEF EventAdmit, Activation
    <3>2. /\ activation[o].status = "absent"
          /\ binding[o[1]].spec \in BindingSpec
      BY <3>1 DEF Triggered, TypeOK, BindingRow, NoBinding
    <3> QED
      BY <1>0, <3>1, <3>2, CreatedRow DEF ActivationKept
  <2> QED
    BY <2>1, <2>2
<1>a. ASSUME NEW expired
      PROVE  LET row == Swept(expired)[o]
             IN  /\ row \in ActivationRow
                 /\ \/ row = activation[o]
                    \/ /\ activation[o].status = "leased"
                       /\ row.status # "absent" /\ row.target = activation[o].target
                       /\ row.run = activation[o].run
  BY <1>0, SweptRows, CancelledRow, RequeuedRow
<1>5. ASSUME NEW consumer \in Consumer, NEW expired, NEW a \in Activation,
             ActivationClaim(consumer, expired, a)
      PROVE  ActivationKept(o)
  <2> DEFINE rows == Swept(expired)
  <2>1. /\ rows \in [Activation -> ActivationRow] /\ rows[a].status = "pending"
        /\ activation' = [rows EXCEPT ![a] = Leased(rows[a], consumer, leases + 1)]
        /\ leases + 1 \in Nat
    BY <1>5, SweptRows DEF ActivationClaim, Claimable, TypeOK
  <2>2. \/ rows[o] = activation[o]
        \/ /\ activation[o].status = "leased"
           /\ rows[o].status # "absent" /\ rows[o].target = activation[o].target
           /\ rows[o].run = activation[o].run
    BY <1>a
  <2> HIDE DEF rows
  <2>3. CASE o = a
    <3>1. /\ activation'[o].status = "leased" /\ activation'[o].target = activation[o].target
          /\ activation'[o].run = activation[o].run
          /\ activation[o].status \in {"pending", "leased"}
      BY <2>1, <2>2, <2>3, LeasedRow
    <3> QED
      BY <1>0, <3>1, RowKept
  <2>4. CASE o # a
    <3>1. activation'[o] = rows[o]
      BY <2>1, <2>4
    <3> QED
      BY <1>0, <2>2, <3>1, RowKept, SameRowKept
  <2> QED
    BY <2>3, <2>4
<1>6. ASSUME NEW expired, ActivationClaimNothing(expired)
      PROVE  ActivationKept(o)
  BY <1>0, <1>6, <1>a, RowKept, SameRowKept DEF ActivationClaimNothing
<1>7. ASSUME NEW a \in Activation, NEW consumer, NEW token, NEW r \in RunId,
             NEW id \in ReceiptId, ActivationAdmitSop(a, consumer, token, r, id)
      PROVE  ActivationKept(o)
  <2>1. /\ activation' = [activation EXCEPT ![a] = Admitted(activation[a], r)]
        /\ activation[a].status = "leased"
    BY <1>7 DEF ActivationAdmitSop, RequireLeased
  <2>2. CASE o = a
    BY <1>0, <2>1, <2>2, AdmittedRow DEF ActivationKept
  <2>3. CASE o # a
    BY <1>0, <2>1, <2>3, SameRowKept
  <2> QED
    BY <2>2, <2>3
<1>8. ASSUME NEW a \in Activation, NEW consumer, NEW token, NEW retryable \in BOOLEAN,
             ActivationFail(a, consumer, token, retryable)
      PROVE  ActivationKept(o)
  <2>1. /\ \E retry \in BOOLEAN : activation' = [activation EXCEPT ![a] = Failed(@, retry)]
        /\ activation[a].status = "leased"
    BY <1>8 DEF ActivationFail, RequireLeased
  <2>2. CASE o = a
    <3>1. /\ activation'[o].status # "absent"
          /\ activation'[o].target = activation[o].target
          /\ activation'[o].run = activation[o].run
      BY <1>0, <2>1, <2>2, FailedRow
    <3> QED
      BY <1>0, <2>1, <2>2, <3>1, RowKept
  <2>3. CASE o # a
    BY <1>0, <2>1, <2>3, SameRowKept
  <2> QED
    BY <2>2, <2>3
<1>9. ASSUME NEW a \in Activation, NEW outcome \in Outcome, NEW id \in ReceiptId,
             ActivationResolve(a, outcome, id)
      PROVE  ActivationKept(o)
  <2>1. /\ activation' = [activation EXCEPT ![a] = Resolved(@, outcome)]
        /\ activation[a].status = "admitted"
    BY <1>9 DEF ActivationResolve
  <2>2. CASE o = a
    BY <1>0, <2>1, <2>2, ResolvedRow, RowKept
  <2>3. CASE o # a
    BY <1>0, <2>1, <2>3, SameRowKept
  <2> QED
    BY <2>2, <2>3
<1>10. ASSUME NEW a \in Activation, ActivationUnblock(a)
       PROVE  ActivationKept(o)
  <2>1. /\ activation' = [activation EXCEPT ![a] = Unblocked(@)]
        /\ activation[a].status = "blocked"
    BY <1>10 DEF ActivationUnblock
  <2>2. CASE o = a
    BY <1>0, <2>1, <2>2, UnblockedRow, RowKept
  <2>3. CASE o # a
    BY <1>0, <2>1, <2>3, SameRowKept
  <2> QED
    BY <2>2, <2>3
<1> QED
  BY <1>1, <1>2, <1>3, <1>4, <1>5, <1>6, <1>7, <1>8, <1>9, <1>10
     DEF Next, BindingNext, ClaimNext, HolderNext

\* Every call of the store keeps its invariants, takes back nothing of what is
\* known, and grants no more leases than the bound.  The dispatcher installs
\* no binding: only the revisions of those that are there go up.
LEMMA StoreStep ==
    ASSUME StoreInv, [Next]_storeVars, leases' <= MaxLeases,
           \A b \in BindingId :
               \/ binding'[b] = binding[b]
               \/ binding'[b].status # "absent" /\ binding'[b].revision = binding[b].revision + 1
    PROVE  StoreInv' /\ StoreHistory
<1>1. TypeOK' /\ LaneExclusive' /\ LeaseRecord' /\ AuditTrail' /\ Provenance'
  BY TypeStep, LaneStep, LeaseStep, AuditStep, ProvenanceStep DEF StoreInv
<1>2. \A a \in Activation : ActivationKept(a)
  BY ActivationHistory DEF StoreInv
<1>3. \A b \in BindingId : binding[b].revision \in Nat \ {0}
  BY DEF StoreInv, BindingsInstalled, TypeOK, BindingRow, NoBinding
<1>4. BindingsInstalled' /\ \A b \in BindingId : binding'[b].revision = 1 => binding'[b] = binding[b]
  BY <1>3 DEF StoreInv, BindingsInstalled
<1>5. \A e \in EventId : event[e] # None => event'[e] = event[e]
  <2>1. CASE event' = event
    BY <2>1
  <2>2. ASSUME NEW c \in Content, EventAdmit(c)
        PROVE  \A e \in EventId : event[e] # None => event'[e] = event[e]
    BY <2>2 DEF EventAdmit, StoreInv, TypeOK
  <2> QED
    BY <2>1, <2>2
       DEF Next, BindingNext, ClaimNext, HolderNext, storeVars, BindingUpsert, BindingSetStatus,
           ActivationClaim, ActivationClaimNothing, ActivationAdmitSop, ActivationFail,
           ActivationResolve, ActivationUnblock
<1>6. leases <= leases'
  <2>1. leases \in Nat
    BY DEF StoreInv, TypeOK
  <2>2. leases' = leases \/ leases' = leases + 1
    BY DEF Next, BindingNext, ClaimNext, HolderNext, storeVars, BindingUpsert, BindingSetStatus,
           EventAdmit, ActivationClaim, ActivationClaimNothing, ActivationAdmitSop,
           ActivationFail, ActivationResolve, ActivationUnblock
  <2> QED
    BY <2>1, <2>2
<1>7. \A a \in Activation : activation'[a].status # "absent" => activation'[a].target \in SopId
  BY <1>2 DEF StoreInv, ActivationKept
<1> QED
  BY <1>1, <1>2, <1>4, <1>5, <1>6, <1>7 DEF StoreInv, StoreHistory

-----------------------------------------------------------------------------
(* What relates the two servers, and what a pass remembers *)

\* LinkAgrees for one activation.  A run whose activation was resolved has
\* ended at least once.
Linkage(a) ==
    activation[a].run # None =>
        LET row == run[activation[a].run]
        IN  /\ row.status # "absent"
            /\ row.key = a
            /\ row.sop = activation[a].target
            /\ activation[a].status = "terminal" =>
                   /\ row.finishes >= 1
                   /\ NeverRetried(activation[a].run) => row.status = activation[a].outcome

\* The scheduler has the event of run r and the activations it calls for,
\* unless the run was retried.
Delivered(r) ==
    NeverRetried(r) =>
        /\ event[r] = DueEvent(r)
        /\ \A b \in BindingId :
               binding[b].revision = 1 /\ Matches(binding[b].spec, DueEvent(r)) =>
                   activation[<<b, r>>].status # "absent"

DeliveredInv == \A r \in RunId : acked[r] # {} => Delivered(r)

\* A listed event is one its run once ended with: the one it ended with first,
\* unless it was retried.
Known(e) ==
    /\ e \in [run : RunId, sop : SopId, row : TerminalRow]
    /\ run[e.run].finishes >= 1
    /\ e.sop = run[e.run].sop
    /\ NeverRetried(e.run) => e.row = outbox[e.run]

\* A status that was read for an admitted activation is that of its run,
\* unless the run was retried.
ReadOf(a, status) ==
    /\ a \in Activation /\ activation[a].run # None
    /\ status \in Sop!EndStatus
    /\ run[activation[a].run].finishes >= 1
    /\ NeverRetried(activation[a].run) => status = run[activation[a].run].status

\* A run that a pass started, or found, for its activation.
StartedFor(a, r) ==
    /\ r \in RunId
    /\ run[r].status # "absent"
    /\ run[r].key = a
    /\ run[r].sop = activation[a].target

Fields(m) == m \in [at : {m.at}, todo : {m.todo}, item : {m.item}, note : {m.note},
                    token : {m.token}]

\* What a pass that remembers m may rely on.
Memory(m) ==
    /\ Fields(m)
    /\ m.at \in {"idle"} \cup EventPlace \cup ReconcilePlace \cup ClaimPlace
    /\ m.at = "idle" => m = IdlePass
    /\ m.at \in EventPlace => \A e \in m.todo : Known(e)
    /\ m.at \in {"link", "resolve", "ack"} => Known(m.item) /\ Delivered(m.item.run)
    /\ m.at \in ReconcilePlace =>
           \A a \in m.todo : a \in Activation /\ activation[a].run # None
    /\ m.at = "recover" => ReadOf(m.item, m.note)
    /\ m.at \in {"start", "admit", "fail"} =>
           /\ m.item \in Activation /\ activation[m.item].status # "absent"
           /\ m.token \in 1..leases
    /\ m.at = "admit" => StartedFor(m.item, m.note)

PassInv == pass = [p \in Pass |-> pass[p]] /\ \A p \in Pass : Memory(pass[p])

DispatchInv ==
    /\ StoreInv /\ SopInv
    /\ (\A a \in Activation : Linkage(a)) /\ DeliveredInv
    /\ PassInv
    /\ faults \in 0..MaxFaults

\* The event the scheduler should have is one it takes.
LEMMA DueEventType ==
    ASSUME SopInv, NEW r \in RunId, outbox[r] # None
    PROVE  DueEvent(r) \in Content /\ DueEvent(r) # None
<1>1. outbox[r] \in TerminalRow /\ run[r].sop \in SopId
  <2>1. run[r].status # "absent"
    BY DEF SopInv, RunAgrees, Sop!EndStatus
  <2> QED
    BY <2>1 DEF SopInv, RunAgrees
<1>2. DueEvent(r) \in TerminalContent
  BY <1>1 DEF DueEvent, EventFor, TerminalContent, TerminalRow
<1> QED
  BY <1>2, TerminalAssumption, NoneAssumption

\* A run that had ended and is, or is again, a run with one end had the same
\* end before, and the same event.
LEMMA FirstEndKept ==
    ASSUME SopInv, SopHistory, NEW r \in RunId, run[r].finishes >= 1, NeverRetried(r)'
    PROVE  /\ NeverRetried(r) /\ outbox'[r] = outbox[r] /\ run'[r].status = run[r].status
           /\ DueEvent(r)' = DueEvent(r)
<1>1. /\ outbox'[r] # None /\ run'[r].finishes = 1
      /\ outbox[r] # None /\ outbox'[r] = outbox[r] /\ run'[r].status = run[r].status
      /\ run[r].finishes <= 1
  BY DEF NeverRetried, SopHistory, RunKept
<1>2. run[r].finishes = 1 /\ run[r].status # "absent"
  BY <1>1 DEF SopInv, RunAgrees, RunRow
<1>3. run'[r].sop = run[r].sop
  BY <1>2 DEF SopHistory, RunKept
<1> QED
  BY <1>1, <1>2, <1>3 DEF NeverRetried, DueEvent

\* A run that has ended once has ended at least once from then on.
LEMMA EndedStays ==
    ASSUME SopInv, SopInv', SopHistory, NEW r \in RunId, run[r].finishes >= 1
    PROVE  /\ run'[r].finishes >= 1
           /\ run[r].status # "absent" /\ run'[r].status # "absent"
           /\ run'[r].sop = run[r].sop /\ run'[r].key = run[r].key
<1>1. run[r].finishes \in Nat /\ run'[r].finishes \in Nat /\ run[r].status # "absent"
  BY DEF SopInv, RunAgrees, RunRow
<1>2. run[r].finishes <= run'[r].finishes
  BY DEF SopHistory, RunKept
<1> QED
  BY <1>1, <1>2 DEF SopHistory, RunKept

\* A delivered event stays delivered.
LEMMA DeliveredStays ==
    ASSUME StoreInv, SopInv, StoreHistory, SopHistory,
           NEW r \in RunId, run[r].finishes >= 1, Delivered(r)
    PROVE  Delivered(r)'
<1> SUFFICES ASSUME NeverRetried(r)'
             PROVE  /\ event'[r] = DueEvent(r)
                    /\ \A b \in BindingId :
                           binding'[b].revision = 1 /\ Matches(binding'[b].spec, DueEvent(r)) =>
                               activation'[<<b, r>>].status # "absent"
  BY FirstEndKept DEF Delivered
<1>1. NeverRetried(r)
  BY FirstEndKept
<1>2. /\ event[r] = DueEvent(r)
      /\ \A b \in BindingId :
             binding[b].revision = 1 /\ Matches(binding[b].spec, DueEvent(r)) =>
                 activation[<<b, r>>].status # "absent"
  BY <1>1 DEF Delivered
<1>3. event[r] # None /\ r \in EventId
  BY <1>1, <1>2, DueEventType, RunAssumption DEF NeverRetried
<1>4. event'[r] = DueEvent(r)
  BY <1>2, <1>3 DEF StoreHistory
<1>5. ASSUME NEW b \in BindingId, binding'[b].revision = 1,
             Matches(binding'[b].spec, DueEvent(r))
      PROVE  activation'[<<b, r>>].status # "absent"
  <2>1. binding'[b] = binding[b] /\ <<b, r>> \in Activation
    BY <1>3, <1>5 DEF StoreHistory, Activation
  <2> QED
    BY <1>2, <1>5, <2>1 DEF StoreHistory, ActivationKept
<1> QED
  BY <1>4, <1>5

\* A link stays a link; the call that resolves its activation has to say what
\* the run came to.
LEMMA LinkageStays ==
    ASSUME StoreInv, SopInv, SopInv', StoreHistory, SopHistory, NEW a \in Activation, Linkage(a),
           activation[a].run # None,
           activation'[a].status = "terminal" /\ activation[a].status # "terminal" =>
               /\ run[activation[a].run].finishes >= 1
               /\ NeverRetried(activation[a].run) =>
                      run[activation[a].run].status = activation'[a].outcome
    PROVE  Linkage(a)'
<1>0. PICK r \in RunId : activation[a].run = r
  BY DEF StoreInv, TypeOK, ActivationRow
<1>1. activation'[a].run = r
  BY <1>0 DEF StoreHistory, ActivationKept
<1>2. activation[a].status # "absent" /\ activation'[a].target = activation[a].target
  BY RunOnlyWhenAdmitted DEF StoreInv, StoreHistory, ActivationKept
<1>3. /\ run[r].status # "absent" /\ run[r].key = a /\ run[r].sop = activation[a].target
      /\ activation[a].status = "terminal" =>
             /\ run[r].finishes >= 1
             /\ NeverRetried(r) => run[r].status = activation[a].outcome
  BY <1>0 DEF Linkage
<1>4. activation[a].status = "terminal" => activation'[a].outcome = activation[a].outcome
  BY DEF StoreHistory, ActivationKept
<1>5. run'[r].status # "absent" /\ run'[r].key = a /\ run'[r].sop = activation'[a].target
  BY <1>2, <1>3 DEF SopHistory, RunKept
<1>6. ASSUME activation'[a].status = "terminal"
      PROVE  /\ run'[r].finishes >= 1
             /\ NeverRetried(r)' => run'[r].status = activation'[a].outcome
  <2>1. /\ run[r].finishes >= 1
        /\ NeverRetried(r) => run[r].status = activation'[a].outcome
    BY <1>0, <1>3, <1>4, <1>6
  <2>2. run'[r].finishes >= 1
    BY <2>1, EndedStays
  <2>3. ASSUME NeverRetried(r)' PROVE run'[r].status = activation'[a].outcome
    <3>1. outbox'[r] # None /\ run'[r].finishes = 1
      BY <2>3 DEF NeverRetried
    <3>2. NeverRetried(r) /\ run'[r].status = run[r].status
      BY <2>1, <3>1 DEF SopHistory, RunKept, NeverRetried, SopInv, RunRow
    <3> QED
      BY <2>1, <3>2
  <2> QED
    BY <2>2, <2>3
<1> QED
  BY <1>1, <1>5, <1>6 DEF Linkage

\* What a pass was told of an event, of a status or of a run stays as good as
\* it was, whatever others do meanwhile.
LEMMA KnownStays ==
    ASSUME SopInv, SopInv', SopHistory, NEW e, Known(e)
    PROVE  Known(e)'
<1>1. e.run \in RunId /\ run[e.run].finishes >= 1
  BY DEF Known
<1>2. run'[e.run].finishes >= 1 /\ run'[e.run].sop = run[e.run].sop
  BY <1>1, EndedStays
<1>3. NeverRetried(e.run)' => NeverRetried(e.run) /\ outbox'[e.run] = outbox[e.run]
  BY <1>1, FirstEndKept
<1> QED
  BY <1>1, <1>2, <1>3 DEF Known

LEMMA ReadStays ==
    ASSUME StoreInv, SopInv, SopInv', StoreHistory, SopHistory, NEW a, NEW status, ReadOf(a, status)
    PROVE  ReadOf(a, status)'
<1>1. /\ a \in Activation /\ activation[a].run # None
      /\ activation[a].run \in RunId /\ status \in Sop!EndStatus
  BY DEF ReadOf, StoreInv, TypeOK, ActivationRow
<1>2. PICK r \in RunId : activation[a].run = r
  BY <1>1
<1>3. activation'[a].run = r /\ run[r].finishes >= 1 /\ r # None
  BY <1>1, <1>2 DEF StoreHistory, ActivationKept, ReadOf
<1>4. run'[r].finishes >= 1
  BY <1>3, EndedStays
<1>5. NeverRetried(r)' => NeverRetried(r) /\ run'[r].status = run[r].status
  BY <1>3, FirstEndKept
<1> QED
  BY <1>1, <1>2, <1>3, <1>4, <1>5 DEF ReadOf

LEMMA StartedStays ==
    ASSUME StoreInv, SopInv, StoreHistory, SopHistory, NEW a \in Activation, NEW r,
           activation[a].status # "absent", StartedFor(a, r)
    PROVE  StartedFor(a, r)'
<1>1. r \in RunId /\ run[r].status # "absent" /\ activation'[a].target = activation[a].target
  BY DEF StartedFor, StoreHistory, ActivationKept
<1> QED
  BY <1>1 DEF StartedFor, SopHistory, RunKept

LEMMA MemoryStays ==
    ASSUME StoreInv, StoreInv', SopInv, SopInv', StoreHistory, SopHistory, NEW m, Memory(m)
    PROVE  Memory(m)'
<1>1. m.at \in EventPlace => \A e \in m.todo : Known(e)'
  BY KnownStays DEF Memory
<1>2. ASSUME m.at \in {"link", "resolve", "ack"}
      PROVE  Known(m.item)' /\ Delivered(m.item.run)'
  <2>1. Known(m.item) /\ Delivered(m.item.run)
    BY <1>2 DEF Memory
  <2>2. m.item.run \in RunId /\ run[m.item.run].finishes >= 1
    BY <2>1 DEF Known
  <2> QED
    BY <2>1, <2>2, KnownStays, DeliveredStays
<1>3. ASSUME m.at \in ReconcilePlace, NEW a \in m.todo
      PROVE  a \in Activation /\ activation'[a].run # None
  BY <1>3 DEF Memory, StoreHistory, ActivationKept
<1>4. m.at = "recover" => ReadOf(m.item, m.note)'
  BY ReadStays DEF Memory
<1>5. ASSUME m.at \in {"start", "admit", "fail"}
      PROVE  /\ m.item \in Activation /\ activation'[m.item].status # "absent"
             /\ m.token \in 1..leases'
  <2>1. m.item \in Activation /\ activation[m.item].status # "absent" /\ m.token \in 1..leases
    BY <1>5 DEF Memory
  <2>2. leases \in Nat /\ leases' \in Nat /\ leases <= leases'
    BY DEF StoreInv, TypeOK, StoreHistory
  <2> QED
    BY <2>1, <2>2 DEF StoreHistory, ActivationKept
<1>6. m.at = "admit" => StartedFor(m.item, m.note)'
  BY StartedStays DEF Memory
<1> QED
  BY <1>1, <1>2, <1>3, <1>4, <1>5, <1>6 DEF Memory

-----------------------------------------------------------------------------
(* One call *)

\* A call leaves the two servers, and what they say of each other, in order.
Kept ==
    /\ StoreInv' /\ SopInv'
    /\ (\A a \in Activation : Linkage(a)') /\ DeliveredInv'
    /\ StoreHistory /\ SopHistory

\* A call that links or resolves no activation, and acknowledges no event.
Unlinked ==
    /\ \A a \in Activation :
           /\ activation'[a].run = activation[a].run
           /\ activation[a].run # None /\ activation'[a].status = "terminal" =>
                  activation[a].status = "terminal"
    /\ \A r \in RunId : acked'[r] # {} => acked[r] # {}

\* Acknowledged events were delivered, and stay so.
LEMMA AckedStayDelivered ==
    ASSUME StoreInv, SopInv, DeliveredInv, StoreHistory, SopHistory, NEW r \in RunId, acked[r] # {}
    PROVE  Delivered(r)'
<1>1. run[r].finishes >= 1 /\ Delivered(r)
  BY DEF SopInv, RunAgrees, DeliveredInv
<1> QED
  BY <1>1, DeliveredStays

LEMMA UnlinkedKept ==
    ASSUME DispatchInv, StoreInv', StoreHistory, SopMove, Unlinked
    PROVE  Kept
<1> USE DEF DispatchInv
<1>1. SopInv' /\ SopHistory
  BY SopStep
<1>2. ASSUME NEW a \in Activation PROVE Linkage(a)'
  <2>1. CASE activation[a].run = None
    BY <2>1 DEF Unlinked, Linkage
  <2>2. CASE activation[a].run # None
    BY <1>1, <2>2, LinkageStays DEF Unlinked
  <2> QED
    BY <2>1, <2>2
<1>3. DeliveredInv'
  BY <1>1, AckedStayDelivered DEF Unlinked, DeliveredInv
<1> QED
  BY <1>1, <1>2, <1>3 DEF Kept

\* A pass that goes on after a call, with what it now remembers.
LEMMA PassGoesOn ==
    ASSUME DispatchInv, Kept, NEW p \in Pass, NEW m, Memory(m)',
           pass' = [pass EXCEPT ![p] = m], faults' \in 0..MaxFaults
    PROVE  DispatchInv'
<1>1. pass = [q \in Pass |-> pass[q]] /\ \A q \in Pass : Memory(pass[q])
  BY DEF DispatchInv, PassInv
<1>2. pass'[p] = m /\ \A q \in Pass \ {p} : pass'[q] = pass[q]
  BY <1>1
<1>3. pass' = [q \in Pass |-> pass'[q]]
  BY <1>1
<1>4. ASSUME NEW q \in Pass PROVE Memory(pass[q])'
  <2>1. CASE q = p
    BY <1>2, <2>1
  <2>2. CASE q # p
    <3>1. PICK n : n = pass[q]
      OBVIOUS
    <3>2. Memory(n)'
      BY <1>1, <3>1, MemoryStays DEF DispatchInv, Kept
    <3> QED
      BY <1>2, <2>2, <3>1, <3>2
  <2> QED
    BY <2>1, <2>2
<1> QED
  BY <1>3, <1>4 DEF Kept, DispatchInv, PassInv

\* The same when others make the call.
LEMMA PassesStay == ASSUME DispatchInv, Kept, UNCHANGED <<pass, faults>> PROVE DispatchInv'
<1>1. ASSUME NEW q \in Pass PROVE Memory(pass[q])'
  <2>1. PICK n : n = pass[q]
    OBVIOUS
  <2>2. Memory(n)'
    BY <2>1, MemoryStays DEF DispatchInv, PassInv, Kept
  <2> QED
    BY <2>1, <2>2
<1> QED
  BY <1>1 DEF Kept, DispatchInv, PassInv

\* A step that calls nobody, or whose call was refused or lost.
LEMMA QuietKept == ASSUME DispatchInv, UNCHANGED <<storeVars, sopVars>> PROVE Kept
<1>1. StoreInv' /\ StoreHistory
  BY StoreStep DEF DispatchInv, StoreInv, storeVars
<1>2. SopMove /\ Unlinked
  BY DEF SopMove, Unlinked, storeVars, sopVars
<1> QED
  BY <1>1, <1>2, UnlinkedKept

-----------------------------------------------------------------------------
(* The calls to the activation store *)

\* A call that leaves the bindings and the number of leases alone keeps the
\* store in order.
LEMMA StoreCall ==
    ASSUME DispatchInv, Next, UNCHANGED <<binding, leases>>
    PROVE  StoreInv' /\ StoreHistory
BY StoreStep DEF DispatchInv, StoreInv

LEMMA EventAdmitKept ==
    ASSUME DispatchInv, NEW c \in Content, EventAdmit(c), UNCHANGED sopVars
    PROVE  Kept
<1>1. Next /\ UNCHANGED <<binding, leases>>
  BY DEF EventAdmit, Next
<1>2. StoreInv' /\ StoreHistory
  BY <1>1, StoreCall
<1>3. ASSUME NEW a \in Activation
      PROVE  /\ activation'[a].run = activation[a].run
             /\ activation[a].run # None /\ activation'[a].status = "terminal" =>
                    activation[a].status = "terminal"
  <2>1. CASE activation'[a] = activation[a]
    BY <2>1
  <2>2. CASE activation'[a] # activation[a]
    <3>1. /\ a[1] \in Triggered(c) /\ activation'[a] = Created(a[1], c)
          /\ a[1] \in BindingId /\ a = <<a[1], c.id>>
      BY <2>2, ActivationPair DEF EventAdmit, Activation
    <3>2. /\ activation[a].status = "absent"
          /\ binding[a[1]].spec \in BindingSpec
      <4>1. binding[a[1]].status = "active" /\ activation[<<a[1], c.id>>].status = "absent"
        BY <3>1 DEF Triggered
      <4>2. binding[a[1]] \in BindingRow \cup {NoBinding}
        BY <3>1 DEF DispatchInv, StoreInv, TypeOK
      <4> QED
        BY <3>1, <4>1, <4>2 DEF BindingRow, NoBinding
    <3>3. activation[a].run = None
      BY <3>2, RunOnlyWhenAdmitted DEF DispatchInv, StoreInv
    <3> QED
      BY <3>1, <3>2, <3>3, CreatedRow
  <2> QED
    BY <2>1, <2>2
<1>4. Unlinked
  BY <1>3 DEF Unlinked, sopVars
<1>5. SopMove
  BY DEF SopMove
<1> QED
  BY <1>2, <1>4, <1>5, UnlinkedKept

\* Admitting the event of a listed row delivers it: it is recorded, and every
\* matching binding that is as installed has its activation.
LEMMA EventAdmitDelivers ==
    ASSUME DispatchInv, NEW e, Known(e), EventAdmit(EventFor(e)), UNCHANGED sopVars
    PROVE  EventFor(e) \in Content /\ Delivered(e.run)'
<1>1. EventFor(e) \in Content /\ e.run \in RunId
  BY TerminalAssumption DEF Known, EventFor, TerminalContent, TerminalRow
<1>2. SUFFICES ASSUME NeverRetried(e.run)
               PROVE  /\ event'[e.run] = DueEvent(e.run)
                      /\ \A b \in BindingId :
                             binding'[b].revision = 1 /\ Matches(binding'[b].spec, DueEvent(e.run))
                                 => activation'[<<b, e.run>>].status # "absent"
  BY <1>1 DEF Delivered, DueEvent, NeverRetried, sopVars
<1>3. EventFor(e) = DueEvent(e.run)
  BY <1>2 DEF Known, EventFor, DueEvent
<1>4. event'[e.run] = DueEvent(e.run)
  BY <1>1, <1>3, RunAssumption DEF EventAdmit, EventFor, DispatchInv, StoreInv, TypeOK
<1>5. ASSUME NEW b \in BindingId, binding[b].revision = 1,
             Matches(binding[b].spec, EventFor(e))
      PROVE  activation'[<<b, e.run>>].status # "absent"
  <2>1. <<b, e.run>> \in Activation /\ EventFor(e).id = e.run
    BY <1>1, RunAssumption DEF Activation, EventFor
  <2>2. binding[b].status = "active" /\ binding[b].spec \in BindingSpec
    BY <1>5 DEF DispatchInv, StoreInv, BindingsInstalled, TypeOK, BindingRow, NoBinding
  <2>3. CASE activation[<<b, e.run>>].status = "absent"
    <3>1. b \in Triggered(EventFor(e))
      BY <1>5, <2>1, <2>2, <2>3 DEF Triggered
    <3>2. activation'[<<b, e.run>>] = Created(b, EventFor(e))
      BY <2>1, <3>1 DEF EventAdmit
    <3> QED
      BY <1>1, <2>2, <3>2, CreatedRow
  <2>4. CASE activation[<<b, e.run>>].status # "absent"
    <3>1. b \notin Triggered(EventFor(e))
      BY <2>1, <2>4 DEF Triggered
    <3> QED
      BY <2>1, <2>4, <3>1 DEF EventAdmit
  <2> QED
    BY <2>3, <2>4
<1>6. binding' = binding
  BY DEF EventAdmit
<1> QED
  BY <1>1, <1>3, <1>4, <1>5, <1>6

\* activation_resolve with the outcome the run came to.
LEMMA ResolveKept ==
    ASSUME DispatchInv, NEW a \in Activation, NEW outcome \in Outcome, NEW id \in ReceiptId,
           ActivationResolve(a, outcome, id), UNCHANGED sopVars,
           run[activation[a].run].finishes >= 1,
           NeverRetried(activation[a].run) => run[activation[a].run].status = outcome
    PROVE  Kept
<1>1. Next /\ UNCHANGED <<binding, leases>>
  BY DEF ActivationResolve, Next
<1>2. StoreInv' /\ StoreHistory
  BY <1>1, StoreCall
<1>3. /\ activation' = [activation EXCEPT ![a] = Resolved(@, outcome)]
      /\ activation[a].status = "admitted"
  BY DEF ActivationResolve
<1>4. activation \in [Activation -> ActivationRow]
  BY DEF DispatchInv, StoreInv, TypeOK
<1>5. /\ activation'[a].outcome = outcome
      /\ activation'[a].run = activation[a].run
      /\ \A o \in Activation \ {a} : activation'[o] = activation[o]
  BY <1>3, <1>4, ResolvedRow
<1>6. SopInv' /\ SopHistory
  BY SopStep DEF DispatchInv, SopMove
<1>7. ASSUME NEW o \in Activation PROVE Linkage(o)'
  <2>1. CASE activation[o].run = None
    BY <1>5, <2>1 DEF Linkage
  <2>2. CASE activation[o].run # None
    BY <1>2, <1>5, <1>6, <2>2, LinkageStays DEF DispatchInv
  <2> QED
    BY <2>1, <2>2
<1>8. DeliveredInv'
  BY <1>2, <1>6, AckedStayDelivered DEF DispatchInv, DeliveredInv, sopVars
<1> QED
  BY <1>2, <1>6, <1>7, <1>8 DEF Kept

\* activation_claim, and a claim that finds nothing due.
LEMMA ClaimKept ==
    ASSUME DispatchInv, NEW consumer \in Consumer, NEW expired \in SUBSET Holding,
           UNCHANGED sopVars,
           \/ ActivationClaimNothing(expired)
           \/ \E a \in Activation : ActivationClaim(consumer, expired, a)
    PROVE  Kept
<1>0. /\ activation \in [Activation -> ActivationRow]
      /\ \A o \in Activation : activation[o] \in ActivationRow
      /\ leases \in Nat /\ TypeOK
  BY DEF DispatchInv, StoreInv, TypeOK
<1>1. Next
  <2>1. ClaimNext
    BY DEF ClaimNext
  <2> QED
    BY <2>1 DEF Next
<1>2. /\ binding' = binding
      /\ leases' = leases \/ (leases < MaxLeases /\ leases' = leases + 1)
  BY DEF ActivationClaim, ActivationClaimNothing
<1>3. StoreInv' /\ StoreHistory
  BY <1>0, <1>1, <1>2, StoreStep, BoundAssumption DEF DispatchInv, StoreInv
<1>4. \A o \in Activation :
          LET row == Swept(expired)[o]
          IN  /\ row \in ActivationRow /\ row.run = activation[o].run
              /\ activation[o].run # None /\ row.status = "terminal" =>
                     activation[o].status = "terminal"
  <2>1. \A o \in Activation : activation[o].status = "leased" => activation[o].run = None
    BY RunOnlyWhenAdmitted DEF DispatchInv, StoreInv
  <2> QED
    BY <1>0, <2>1, SweptRows, CancelledRow, RequeuedRow
<1>5. Unlinked
  <2>1. CASE ActivationClaimNothing(expired)
    BY <1>4, <2>1 DEF ActivationClaimNothing, Unlinked, sopVars
  <2>2. ASSUME NEW a \in Activation, ActivationClaim(consumer, expired, a)
        PROVE  Unlinked
    <3> DEFINE rows == Swept(expired)
    <3>1. /\ rows \in [Activation -> ActivationRow]
          /\ activation' = [rows EXCEPT ![a] = Leased(rows[a], consumer, leases + 1)]
          /\ leases + 1 \in Nat
      BY <1>0, <2>2, SweptRows DEF ActivationClaim
    <3>2. \A o \in Activation :
              /\ rows[o].run = activation[o].run
              /\ activation[o].run # None /\ rows[o].status = "terminal" =>
                     activation[o].status = "terminal"
      BY <1>4
    <3> HIDE DEF rows
    <3>3. /\ activation'[a].run = rows[a].run /\ activation'[a].status = "leased"
          /\ \A o \in Activation \ {a} : activation'[o] = rows[o]
      BY <3>1, LeasedRow
    <3> QED
      BY <3>2, <3>3 DEF Unlinked, sopVars
  <2> QED
    BY <2>1, <2>2
<1>6. SopMove
  BY DEF SopMove
<1> QED
  BY <1>3, <1>5, <1>6, UnlinkedKept

\* activation_admit_sop with the run that was started for the activation.
LEMMA AdmitKept ==
    ASSUME DispatchInv, NEW a \in Activation, NEW consumer \in Consumer,
           NEW token \in 1..MaxLeases, NEW r \in RunId, NEW id \in ReceiptId,
           ActivationAdmitSop(a, consumer, token, r, id), StartedFor(a, r), UNCHANGED sopVars
    PROVE  Kept
<1>1. Next
  <2>1. HolderNext
    BY DEF HolderNext
  <2> QED
    BY <2>1 DEF Next
<1>2. StoreInv' /\ StoreHistory
  <2>1. UNCHANGED <<binding, leases>>
    BY DEF ActivationAdmitSop
  <2> QED
    BY <1>1, <2>1, StoreCall
<1>3. /\ activation' = [activation EXCEPT ![a] = Admitted(activation[a], r)]
      /\ activation[a].status = "leased"
  BY DEF ActivationAdmitSop, RequireLeased
<1>4. activation \in [Activation -> ActivationRow]
  BY DEF DispatchInv, StoreInv, TypeOK
<1>5. /\ activation'[a].status = "admitted" /\ activation'[a].run = r
      /\ activation'[a].target = activation[a].target
      /\ \A o \in Activation \ {a} : activation'[o] = activation[o]
  BY <1>3, <1>4, AdmittedRow
<1>6. SopInv' /\ SopHistory
  BY SopStep DEF DispatchInv, SopMove
<1>7. ASSUME NEW o \in Activation PROVE Linkage(o)'
  <2>1. CASE o = a
    BY <1>5, <2>1 DEF StartedFor, Linkage, sopVars
  <2>2. CASE o # a /\ activation[o].run = None
    BY <1>5, <2>2 DEF Linkage
  <2>3. CASE o # a /\ activation[o].run # None
    BY <1>2, <1>5, <1>6, <2>3, LinkageStays DEF DispatchInv
  <2> QED
    BY <2>1, <2>2, <2>3
<1>8. DeliveredInv'
  BY <1>2, <1>6, AckedStayDelivered DEF DispatchInv, DeliveredInv, sopVars
<1> QED
  BY <1>2, <1>6, <1>7, <1>8 DEF Kept

\* activation_fail.
LEMMA FailKept ==
    ASSUME DispatchInv, NEW a \in Activation, NEW consumer \in Consumer,
           NEW token \in 1..MaxLeases, NEW retryable \in BOOLEAN,
           ActivationFail(a, consumer, token, retryable), UNCHANGED sopVars
    PROVE  Kept
<1>1. Next
  <2>1. HolderNext
    BY DEF HolderNext
  <2> QED
    BY <2>1 DEF Next
<1>2. StoreInv' /\ StoreHistory
  <2>1. UNCHANGED <<binding, leases>>
    BY DEF ActivationFail
  <2> QED
    BY <1>1, <2>1, StoreCall
<1>3. \E retry \in BOOLEAN : activation' = [activation EXCEPT ![a] = Failed(activation[a], retry)]
  BY DEF ActivationFail
<1>4. activation \in [Activation -> ActivationRow]
  BY DEF DispatchInv, StoreInv, TypeOK
<1>5. /\ activation'[a].status # "terminal" /\ activation'[a].run = activation[a].run
      /\ \A o \in Activation \ {a} : activation'[o] = activation[o]
  BY <1>3, <1>4, FailedRow
<1>6. Unlinked
  BY <1>5 DEF Unlinked, sopVars
<1>7. SopMove
  BY DEF SopMove
<1> QED
  BY <1>2, <1>6, <1>7, UnlinkedKept

\* binding_set_status: a pause cancels only what has no run.
LEMMA SetStatusKept ==
    ASSUME DispatchInv, NEW b \in BindingId, NEW status \in BindingStatus,
           NEW expired \in SUBSET Holding, BindingSetStatus(b, status, expired), UNCHANGED sopVars
    PROVE  Kept
<1>1. Next
  <2>1. BindingNext
    BY DEF BindingNext
  <2> QED
    BY <2>1 DEF Next
<1>2. /\ binding' = [binding EXCEPT ![b] = Revised(binding[b], status, binding[b].spec)]
      /\ leases' = leases
  BY DEF BindingSetStatus
<1>3. /\ Revised(binding[b], status, binding[b].spec).status # "absent"
      /\ Revised(binding[b], status, binding[b].spec).revision = binding[b].revision + 1
  BY DEF Revised, BindingStatus
<1>4. /\ binding'[b].status # "absent" /\ binding'[b].revision = binding[b].revision + 1
      /\ \A o \in BindingId \ {b} : binding'[o] = binding[o]
  BY <1>2, <1>3 DEF DispatchInv, StoreInv, TypeOK
<1>5. StoreInv' /\ StoreHistory
  BY <1>1, <1>2, <1>4, StoreStep DEF DispatchInv, StoreInv
<1>6. ASSUME NEW o \in Activation
      PROVE  /\ activation'[o].run = activation[o].run
             /\ activation[o].run # None /\ activation'[o].status = "terminal" =>
                    activation[o].status = "terminal"
  <2>1. CASE activation'[o] = activation[o]
    BY <2>1
  <2>2. CASE activation'[o] # activation[o]
    <3>1. /\ activation[o].status \in {"pending", "leased"}
          /\ activation'[o] = Cancelled(activation[o])
      BY <2>2 DEF BindingSetStatus, Quiesced, Holding
    <3>2. activation[o].run = None /\ activation[o] \in ActivationRow
      BY <3>1, RunOnlyWhenAdmitted DEF DispatchInv, StoreInv, TypeOK
    <3> QED
      BY <3>1, <3>2, CancelledRow
  <2> QED
    BY <2>1, <2>2
<1>7. Unlinked
  BY <1>6 DEF Unlinked, sopVars
<1>8. SopMove
  BY DEF SopMove
<1> QED
  BY <1>5, <1>7, <1>8, UnlinkedKept

\* activation_unblock.
LEMMA UnblockKept ==
    ASSUME DispatchInv, NEW a \in Activation, ActivationUnblock(a), UNCHANGED sopVars
    PROVE  Kept
<1>1. Next /\ UNCHANGED <<binding, leases>>
  BY DEF Next, ActivationUnblock
<1>2. StoreInv' /\ StoreHistory
  BY <1>1, StoreCall
<1>3. activation' = [activation EXCEPT ![a] = Unblocked(activation[a])]
  BY DEF ActivationUnblock
<1>4. activation \in [Activation -> ActivationRow]
  BY DEF DispatchInv, StoreInv, TypeOK
<1>5. /\ activation'[a].status # "terminal" /\ activation'[a].run = activation[a].run
      /\ \A o \in Activation \ {a} : activation'[o] = activation[o]
  BY <1>3, <1>4, UnblockedRow
<1>6. Unlinked
  BY <1>5 DEF Unlinked, sopVars
<1>7. SopMove
  BY DEF SopMove
<1> QED
  BY <1>2, <1>6, <1>7, UnlinkedKept

-----------------------------------------------------------------------------
(* The calls to the SOP server *)

\* A call to the SOP server leaves the store alone.
LEMMA StoreUntouched ==
    ASSUME DispatchInv, UNCHANGED storeVars PROVE StoreInv' /\ StoreHistory
BY StoreStep DEF DispatchInv, StoreInv, storeVars

\* A start that finds no run makes one.
LEMMA StartKept ==
    ASSUME DispatchInv, NEW r \in RunId, NEW sop \in SopId, NEW key \in OccurrenceKey,
           NEW by \in Consumer, Sop!StartRun(r, sop, key, by, template[sop]),
           UNCHANGED <<storeVars, retries>>
    PROVE  Kept
<1>1. SopMove
  BY DEF SopMove
<1>2. Unlinked
  BY DEF Unlinked, storeVars, Sop!StartRun
<1> QED
  BY <1>1, <1>2, StoreUntouched, UnlinkedKept

\* sop_outbox_ack of an event that was delivered.
LEMMA AckKept ==
    ASSUME DispatchInv, NEW r \in RunId, NEW c \in Consumer, Sop!AckOutbox(r, c),
           UNCHANGED storeVars, run[r].finishes >= 1, Delivered(r)
    PROVE  Kept
<1>1. SopMove
  BY DEF SopMove
<1>2. StoreInv' /\ StoreHistory /\ SopInv' /\ SopHistory
  BY <1>1, StoreUntouched, SopStep DEF DispatchInv
<1>3. ASSUME NEW a \in Activation PROVE Linkage(a)'
  <2>1. CASE activation[a].run = None
    BY <2>1 DEF Linkage, storeVars
  <2>2. CASE activation[a].run # None
    BY <1>2, <2>2, LinkageStays DEF DispatchInv, storeVars
  <2> QED
    BY <2>1, <2>2
<1>4. ASSUME NEW o \in RunId, acked'[o] # {} PROVE Delivered(o)'
  <2>1. o = r \/ acked[o] # {}
    BY <1>4 DEF Sop!AckOutbox, DispatchInv, SopInv
  <2> QED
    BY <1>2, <2>1, DeliveredStays, AckedStayDelivered DEF DispatchInv
<1> QED
  BY <1>2, <1>3, <1>4 DEF Kept, DeliveredInv

\* What goes on inside the SOP server.
LEMMA SopNextKept ==
    ASSUME DispatchInv, Sop!SopNext, UNCHANGED storeVars
    PROVE  Kept
<1>1. SopMove
  BY DEF SopMove
<1>2. ASSUME NEW r \in RunId, acked'[r] # {} PROVE acked[r] # {}
  BY <1>2 DEF Sop!SopNext, Sop!PublishTemplate, Sop!FinishRun, Sop!RetryHandoff, Sop!StartRun
<1>3. Unlinked
  BY <1>2 DEF Unlinked, storeVars
<1> QED
  BY <1>1, <1>3, StoreUntouched, UnlinkedKept

-----------------------------------------------------------------------------
(* The steps of a pass *)

\* What a pass remembers after it turned to a row, or is done with one, or
\* with a phase.
LEMMA TurnedRow ==
    ASSUME NEW p \in Pass, Fields(pass[p]), NEW place, NEW item, NEW note
    PROVE  \E n : /\ n = Turned(p, place, item, note) /\ Fields(n)
                  /\ n.at = place /\ n.todo = pass[p].todo \ {item}
                  /\ n.item = item /\ n.note = note
<1> DEFINE turned == Turned(p, place, item, note)
<1>1. /\ Fields(turned) /\ turned.at = place /\ turned.todo = pass[p].todo \ {item}
      /\ turned.item = item /\ turned.note = note
  BY DEF Turned, Fields
<1> HIDE DEF turned
<1> QED
  BY <1>1, Zenon DEF turned

LEMMA DroppedRow ==
    ASSUME NEW p \in Pass, Fields(pass[p]), NEW place, NEW item
    PROVE  \E n : /\ n = Dropped(p, place, item) /\ Fields(n)
                  /\ n.at = place /\ n.todo = pass[p].todo \ {item}
<1> DEFINE dropped == Dropped(p, place, item)
<1>1. /\ Fields(dropped) /\ dropped.at = place /\ dropped.todo = pass[p].todo \ {item}
  BY DEF Dropped, Fields
<1> HIDE DEF dropped
<1> QED
  BY <1>1, Zenon DEF dropped

LEMMA PhaseRow ==
    ASSUME NEW place, NEW todo
    PROVE  \E n : n = Phase(place, todo) /\ Fields(n) /\ n.at = place /\ n.todo = todo
<1> DEFINE phase == Phase(place, todo)
<1>1. Fields(phase) /\ phase.at = place /\ phase.todo = todo
  BY DEF Phase, IdlePass, Fields
<1> HIDE DEF phase
<1> QED
  BY <1>1, Zenon DEF phase

\* The memory of a pass that is at no row.
LEMMA IdleMemory == Memory(IdlePass)
BY DEF Memory, IdlePass, Fields, EventPlace, ReconcilePlace, ClaimPlace

LEMMA ClaimMemory ==
    ASSUME NEW n, Fields(n), n.at = "claim" PROVE Memory(n)
BY DEF Memory, EventPlace, ReconcilePlace, ClaimPlace

LEMMA EventsMemory ==
    ASSUME NEW n, Fields(n), n.at = "events", \A e \in n.todo : Known(e) PROVE Memory(n)
BY DEF Memory, EventPlace, ReconcilePlace, ClaimPlace

LEMMA ReconcileMemory ==
    ASSUME NEW n, Fields(n), n.at = "reconcile",
           \A a \in n.todo : a \in Activation /\ activation[a].run # None
    PROVE  Memory(n)
BY DEF Memory, EventPlace, ReconcilePlace, ClaimPlace

\* A pass that goes on with what held before the call already.
LEMMA PassRemembers ==
    ASSUME DispatchInv, Kept, NEW p \in Pass, NEW m, Memory(m), Goto(p, m),
           faults' \in 0..MaxFaults
    PROVE  DispatchInv'
<1>1. Memory(m)'
  BY MemoryStays DEF DispatchInv, Kept
<1> QED
  BY <1>1, PassGoesOn DEF Goto

\* A fault that is within the bound.
LEMMA OneFault ==
    ASSUME DispatchInv, faults' = faults \/ (faults < MaxFaults /\ faults' = faults + 1)
    PROVE  faults' \in 0..MaxFaults
BY DispatchBounds DEF DispatchInv

\* The list a pass starts with.
LEMMA BeginPassInv == ASSUME DispatchInv, NEW p \in Pass, BeginPass(p) PROVE DispatchInv'
<1>1. \A e \in Listed(p) : Known(e)
  <2> SUFFICES ASSUME NEW r \in RunId, outbox[r] # None
               PROVE  Known([run |-> r, sop |-> run[r].sop, row |-> outbox[r]])
    BY DEF Listed, Sop!Unacked
  <2>1. outbox[r] \in TerminalRow /\ run[r].sop \in SopId /\ run[r].finishes >= 1
    BY DEF DispatchInv, SopInv, RunAgrees, Sop!EndStatus
  <2> QED
    BY <2>1 DEF Known
<1>2. PICK n : n = Phase("events", Listed(p)) /\ Fields(n) /\ n.at = "events" /\ n.todo = Listed(p)
  BY PhaseRow
<1>3. Memory(n)
  BY <1>1, <1>2, EventsMemory
<1>4. Kept /\ Goto(p, n) /\ faults' \in 0..MaxFaults
  BY <1>2, QuietKept, OneFault DEF BeginPass
<1> QED
  BY <1>3, <1>4, PassRemembers

LEMMA AdmitEventInv == ASSUME DispatchInv, NEW p \in Pass, AdmitEvent(p) PROVE DispatchInv'
<1>1. PICK m : m = pass[p]
  OBVIOUS
<1>2. Memory(m) /\ Fields(m) /\ m.at = "events" /\ \A e \in m.todo : Known(e)
  BY <1>1 DEF DispatchInv, PassInv, AdmitEvent, At, Memory, EventPlace
<1>3. PICK e \in m.todo :
          Call(p, event[e.run] \in {None, EventFor(e)},
               EventAdmit(EventFor(e)) /\ UNCHANGED sopVars,
               Turned(p, "link", e, None), Dropped(p, "events", e))
  BY <1>1 DEF AdmitEvent
<1>4. Known(e)
  BY <1>2
<1>5. PICK n : /\ n = Turned(p, "link", e, None) /\ Fields(n)
               /\ n.at = "link" /\ n.todo = m.todo \ {e} /\ n.item = e
  BY <1>1, <1>2, TurnedRow
<1>6. PICK d : /\ d = Dropped(p, "events", e) /\ Fields(d)
               /\ d.at = "events" /\ d.todo = m.todo \ {e}
  BY <1>1, <1>2, DroppedRow
<1>7. Memory(d)
  BY <1>2, <1>6, EventsMemory
<1>8. faults' \in 0..MaxFaults
  BY <1>3, OneFault DEF Call
<1>9. ASSUME EventAdmit(EventFor(e)), UNCHANGED sopVars
      PROVE  Kept /\ Memory(n)'
  <2>1. EventFor(e) \in Content /\ Delivered(e.run)'
    BY <1>4, <1>9, EventAdmitDelivers
  <2>2. Kept
    BY <1>9, <2>1, EventAdmitKept
  <2>3. Memory(m)'
    BY <1>2, <2>2, MemoryStays DEF DispatchInv, Kept
  <2>4. \A o \in m.todo : Known(o)'
    BY <1>2, <2>3 DEF Memory, EventPlace
  <2> QED
    BY <1>5, <2>1, <2>2, <2>4 DEF Memory, EventPlace, ReconcilePlace, ClaimPlace
<1>10. \/ EventAdmit(EventFor(e)) /\ UNCHANGED sopVars /\ Goto(p, n)
       \/ EventAdmit(EventFor(e)) /\ UNCHANGED sopVars /\ Goto(p, d)
       \/ UNCHANGED <<storeVars, sopVars>> /\ Goto(p, d)
  BY <1>3, <1>5, <1>6 DEF Call
<1>11. CASE EventAdmit(EventFor(e)) /\ UNCHANGED sopVars /\ Goto(p, n)
  BY <1>8, <1>9, <1>11, PassGoesOn DEF Goto
<1>12. CASE EventAdmit(EventFor(e)) /\ UNCHANGED sopVars /\ Goto(p, d)
  BY <1>7, <1>8, <1>9, <1>12, PassRemembers
<1>13. CASE UNCHANGED <<storeVars, sopVars>> /\ Goto(p, d)
  BY <1>7, <1>8, <1>13, QuietKept, PassRemembers
<1> QED
  BY <1>10, <1>11, <1>12, <1>13

\* What a pass remembers of the event it is at, and what is left of it when
\* the pass is done with the event.
LEMMA AtEvent ==
    ASSUME DispatchInv, NEW p \in Pass, pass[p].at \in {"link", "resolve", "ack"}
    PROVE  /\ Fields(pass[p]) /\ Known(pass[p].item) /\ Delivered(pass[p].item.run)
           /\ \A e \in pass[p].todo : Known(e)
           /\ \E d : /\ d = Dropped(p, "events", pass[p].item) /\ Memory(d)
           /\ \A place \in {"resolve", "ack"} :
                  \E n : n = Turned(p, place, pass[p].item, None) /\ Memory(n)
<1>1. /\ Fields(pass[p]) /\ Known(pass[p].item) /\ Delivered(pass[p].item.run)
      /\ \A e \in pass[p].todo : Known(e)
  BY DEF DispatchInv, PassInv, Memory, EventPlace
<1>2. PICK e : e = pass[p].item
  OBVIOUS
<1>3. \E d : d = Dropped(p, "events", e) /\ Memory(d)
  <2>1. PICK d : /\ d = Dropped(p, "events", e) /\ Fields(d)
                 /\ d.at = "events" /\ d.todo = pass[p].todo \ {e}
    BY <1>1, DroppedRow
  <2> QED
    BY <1>1, <2>1, EventsMemory
<1>4. ASSUME NEW place \in {"resolve", "ack"}
      PROVE  \E n : n = Turned(p, place, e, None) /\ Memory(n)
  <2>1. PICK n : /\ n = Turned(p, place, e, None) /\ Fields(n)
                 /\ n.at = place /\ n.todo = pass[p].todo \ {e} /\ n.item = e
    BY <1>1, TurnedRow
  <2>2. Memory(n)
    BY <1>1, <1>2, <2>1 DEF Memory, EventPlace, ReconcilePlace, ClaimPlace
  <2> QED
    BY <2>1, <2>2
<1> QED
  BY <1>1, <1>2, <1>3, <1>4

LEMMA LinkEventInv == ASSUME DispatchInv, NEW p \in Pass, LinkEvent(p) PROVE DispatchInv'
<1>1. pass[p].at = "link"
  BY DEF LinkEvent, At
<1>2. PICK d : d = Dropped(p, "events", pass[p].item) /\ Memory(d)
  BY <1>1, AtEvent
<1>3. PICK n : n = Turned(p, "resolve", pass[p].item, None) /\ Memory(n)
  BY <1>1, AtEvent
<1>4. PICK k : k = Turned(p, "ack", pass[p].item, None) /\ Memory(k)
  BY <1>1, AtEvent
<1>5. /\ UNCHANGED <<storeVars, sopVars>>
      /\ Goto(p, d) \/ Goto(p, n) \/ Goto(p, k)
  <2>1. CASE \E a \in Linked(pass[p].item.run) : activation[a].status # "terminal"
    BY <1>2, <1>3, <2>1 DEF LinkEvent, Call
  <2>2. CASE ~\E a \in Linked(pass[p].item.run) : activation[a].status # "terminal"
    BY <1>2, <1>4, <2>2 DEF LinkEvent, Call
  <2> QED
    BY <2>1, <2>2
<1>6. faults' \in 0..MaxFaults
  BY OneFault DEF LinkEvent, Call
<1> QED
  BY <1>2, <1>3, <1>4, <1>5, <1>6, QuietKept, PassRemembers

\* activation_resolve by run id, with the outcome of the first end of the run.
LEMMA ResolveRunKept ==
    ASSUME DispatchInv, NEW r \in RunId, NEW outcome \in Sop!EndStatus, NEW id \in ReceiptId,
           ResolveRun(r, outcome, id), run[r].finishes >= 1,
           NeverRetried(r) => run[r].status = outcome
    PROVE  Kept
<1>1. PICK a \in Linked(r) :
          \/ ActivationResolve(a, outcome, id)
          \/ UNCHANGED storeVars
  BY DEF ResolveRun
<1>2. UNCHANGED sopVars /\ a \in Activation /\ activation[a].run = r /\ outcome \in Outcome
  BY OutcomesAgree DEF ResolveRun, Linked
<1>3. CASE ActivationResolve(a, outcome, id)
  BY <1>2, <1>3, ResolveKept
<1>4. CASE UNCHANGED storeVars
  BY <1>2, <1>4, QuietKept
<1> QED
  BY <1>1, <1>3, <1>4

LEMMA ResolveLinkedInv == ASSUME DispatchInv, NEW p \in Pass, ResolveLinked(p) PROVE DispatchInv'
<1>1. pass[p].at = "resolve"
  BY DEF ResolveLinked, At
<1>2. PICK e : e = pass[p].item
  OBVIOUS
<1>3. PICK d : d = Dropped(p, "events", e) /\ Memory(d)
  BY <1>1, <1>2, AtEvent
<1>4. PICK k : k = Turned(p, "ack", e, None) /\ Memory(k)
  BY <1>1, <1>2, AtEvent
<1>5. Known(e) /\ e.run \in RunId /\ e.row.outcome \in Sop!EndStatus
  BY <1>1, <1>2, AtEvent DEF Known, TerminalRow
<1>6. NeverRetried(e.run) => run[e.run].status = e.row.outcome
  BY <1>5 DEF Known, NeverRetried, DispatchInv, SopInv, RunAgrees
<1>7. <<"sop-terminal", e.run>> \in ReceiptId
  BY <1>5, ReceiptAssumption
<1>8. \/ ResolveRun(e.run, e.row.outcome, <<"sop-terminal", e.run>>)
      \/ UNCHANGED <<storeVars, sopVars>>
  BY <1>2 DEF ResolveLinked, Call
<1>9. Kept
  BY <1>5, <1>6, <1>7, <1>8, QuietKept, ResolveRunKept DEF Known
<1>10. Goto(p, d) \/ Goto(p, k)
  BY <1>2, <1>3, <1>4 DEF ResolveLinked, Call
<1>11. faults' \in 0..MaxFaults
  BY OneFault DEF ResolveLinked, Call
<1> QED
  BY <1>3, <1>4, <1>9, <1>10, <1>11, PassRemembers

LEMMA AckEventInv == ASSUME DispatchInv, NEW p \in Pass, AckEvent(p) PROVE DispatchInv'
<1>1. pass[p].at = "ack"
  BY DEF AckEvent, At
<1>2. PICK e : e = pass[p].item
  OBVIOUS
<1>3. PICK d : d = Dropped(p, "events", e) /\ Memory(d)
  BY <1>1, <1>2, AtEvent
<1>4. e.run \in RunId /\ run[e.run].finishes >= 1 /\ Delivered(e.run)
  BY <1>1, <1>2, AtEvent DEF Known
<1>5. \/ Sop!AckOutbox(e.run, ConsumerOf[p]) /\ UNCHANGED storeVars
      \/ UNCHANGED <<storeVars, sopVars>>
  BY <1>2 DEF AckEvent, Call
<1>6. ConsumerOf[p] \in Consumer
  BY PassAssumption
<1>7. Kept
  BY <1>4, <1>5, <1>6, QuietKept, AckKept
<1>8. Goto(p, d)
  BY <1>2, <1>3 DEF AckEvent, Call
<1>9. faults' \in 0..MaxFaults
  BY OneFault DEF AckEvent, Call
<1> QED
  BY <1>3, <1>7, <1>8, <1>9, PassRemembers

\* A pass that turns to its claims: it remembers nothing.
LEMMA TurnsToClaims ==
    ASSUME DispatchInv, NEW p \in Pass, Kept, Goto(p, Phase("claim", {})), faults' \in 0..MaxFaults
    PROVE  DispatchInv'
<1>1. PICK n : n = Phase("claim", {}) /\ Fields(n) /\ n.at = "claim"
  BY PhaseRow
<1>2. Memory(n) /\ Goto(p, n)
  BY <1>1, ClaimMemory
<1> QED
  BY <1>2, PassRemembers

LEMMA BeginReconcileInv == ASSUME DispatchInv, NEW p \in Pass, BeginReconcile(p) PROVE DispatchInv'
<1> DEFINE admitted == {a \in Activation : activation[a].status = "admitted"}
<1>1. PICK n : n = Phase("reconcile", admitted) /\ Fields(n) /\ n.at = "reconcile" /\ n.todo = admitted
  BY PhaseRow
<1>2. Memory(n)
  BY <1>1, ReconcileMemory, RunOnlyWhenAdmitted DEF DispatchInv, StoreInv
<1>3. Kept /\ faults' \in 0..MaxFaults
  BY QuietKept, OneFault DEF BeginReconcile, Call
<1>4. Goto(p, n) \/ Goto(p, Phase("claim", {}))
  BY <1>1 DEF BeginReconcile, Call
<1> QED
  BY <1>2, <1>3, <1>4, PassRemembers, TurnsToClaims

LEMMA ReadStatusInv == ASSUME DispatchInv, NEW p \in Pass, ReadStatus(p) PROVE DispatchInv'
<1>1. PICK m : m = pass[p]
  OBVIOUS
<1>2. /\ Fields(m) /\ Fields(pass[p]) /\ m.at = "reconcile"
      /\ \A a \in m.todo : a \in Activation /\ activation[a].run # None
  BY <1>1 DEF DispatchInv, PassInv, ReadStatus, At, Memory, ReconcilePlace
<1>3. PICK a \in m.todo :
          LET status == run[activation[a].run].status
          IN  Call(p, status \in Sop!EndStatus, UNCHANGED <<storeVars, sopVars>>,
                   Turned(p, "recover", a, status), Dropped(p, "reconcile", a))
  BY <1>1 DEF ReadStatus
<1>4. PICK status : status = run[activation[a].run].status
  OBVIOUS
<1>5. a \in Activation /\ activation[a].run # None /\ activation[a].run \in RunId
  BY <1>2 DEF DispatchInv, StoreInv, TypeOK, ActivationRow
<1>6. PICK n : /\ n = Turned(p, "recover", a, status) /\ Fields(n)
               /\ n.at = "recover" /\ n.todo = m.todo \ {a} /\ n.item = a /\ n.note = status
  BY <1>1, <1>2, TurnedRow
<1>7. PICK d : /\ d = Dropped(p, "reconcile", a) /\ Fields(d)
               /\ d.at = "reconcile" /\ d.todo = m.todo \ {a}
  BY <1>1, <1>2, DroppedRow
<1>8. Memory(d)
  BY <1>2, <1>7, ReconcileMemory
<1>9. ASSUME status \in Sop!EndStatus PROVE Memory(n)
  <2>1. run[activation[a].run].finishes >= 1
    BY <1>4, <1>5, <1>9 DEF DispatchInv, SopInv, RunAgrees
  <2>2. ReadOf(a, status)
    BY <1>4, <1>5, <1>9, <2>1 DEF ReadOf
  <2> QED
    BY <1>2, <1>6, <2>2 DEF Memory, EventPlace, ReconcilePlace, ClaimPlace
<1>10. Kept /\ faults' \in 0..MaxFaults
  BY <1>3, QuietKept, OneFault DEF Call
<1>11. (status \in Sop!EndStatus /\ Goto(p, n)) \/ Goto(p, d)
  BY <1>3, <1>4, <1>6, <1>7 DEF Call
<1> QED
  BY <1>8, <1>9, <1>10, <1>11, PassRemembers

LEMMA RecoverActivationInv ==
    ASSUME DispatchInv, NEW p \in Pass, RecoverActivation(p) PROVE DispatchInv'
<1>1. PICK m : m = pass[p]
  OBVIOUS
<1>2. /\ Fields(m) /\ Fields(pass[p]) /\ m.at = "recover" /\ ReadOf(m.item, m.note)
      /\ \A a \in m.todo : a \in Activation /\ activation[a].run # None
  BY <1>1 DEF DispatchInv, PassInv, RecoverActivation, At, Memory, ReconcilePlace
<1>3. PICK r : r = activation[m.item].run
  OBVIOUS
<1>4. /\ r \in RunId /\ run[r].finishes >= 1 /\ m.note \in Sop!EndStatus
      /\ NeverRetried(r) => run[r].status = m.note
  BY <1>2, <1>3 DEF ReadOf, DispatchInv, StoreInv, TypeOK, ActivationRow
<1>5. <<"sop-terminal:recovery", r>> \in ReceiptId
  BY <1>4, ReceiptAssumption
<1>6. \/ ResolveRun(r, m.note, <<"sop-terminal:recovery", r>>)
      \/ UNCHANGED <<storeVars, sopVars>>
  BY <1>1, <1>3 DEF RecoverActivation, Call
<1>7. Kept
  BY <1>4, <1>5, <1>6, QuietKept, ResolveRunKept
<1>8. PICK d : /\ d = Dropped(p, "reconcile", m.item) /\ Fields(d)
               /\ d.at = "reconcile" /\ d.todo = m.todo \ {m.item}
  BY <1>1, <1>2, DroppedRow
<1>9. Memory(d)
  BY <1>2, <1>8, ReconcileMemory
<1>10. Goto(p, d) /\ faults' \in 0..MaxFaults
  BY <1>1, <1>8, OneFault DEF RecoverActivation, Call
<1> QED
  BY <1>7, <1>9, <1>10, PassRemembers

LEMMA BeginClaimsInv == ASSUME DispatchInv, NEW p \in Pass, BeginClaims(p) PROVE DispatchInv'
<1>1. Kept /\ faults' \in 0..MaxFaults
  BY QuietKept, OneFault DEF BeginClaims
<1> QED
  BY <1>1, TurnsToClaims DEF BeginClaims

\* A claimed activation is there, and its token has been issued.
LEMMA ClaimedMemory ==
    ASSUME NEW n, Fields(n), n.at \in {"start", "fail"}, n.item \in Activation,
           activation[n.item].status # "absent", n.token \in 1..leases
    PROVE  Memory(n)
BY DEF Memory, EventPlace, ReconcilePlace, ClaimPlace

LEMMA ClaimInv == ASSUME DispatchInv, NEW p \in Pass, Claim(p) PROVE DispatchInv'
<1>1. PICK expired \in SUBSET Holding :
          \/ \E a \in Claimable(Swept(expired)) :
                 Call(p, leases < MaxLeases,
                      ActivationClaim(ConsumerOf[p], expired, a) /\ UNCHANGED sopVars,
                      Claimed(a), IdlePass)
          \/ /\ ActivationClaimNothing(expired)
             /\ Goto(p, IdlePass)
             /\ UNCHANGED <<sopVars, faults>>
  BY DEF Claim
<1>2. ConsumerOf[p] \in Consumer
  BY PassAssumption
<1>3. CASE ActivationClaimNothing(expired) /\ Goto(p, IdlePass) /\ UNCHANGED <<sopVars, faults>>
  <2>1. Kept /\ faults' \in 0..MaxFaults
    BY <1>2, <1>3, ClaimKept, OneFault
  <2> QED
    BY <1>3, <2>1, IdleMemory, PassRemembers
<1>4. ASSUME NEW a \in Claimable(Swept(expired)),
             Call(p, leases < MaxLeases,
                  ActivationClaim(ConsumerOf[p], expired, a) /\ UNCHANGED sopVars,
                  Claimed(a), IdlePass)
      PROVE  DispatchInv'
  <2>1. a \in Activation /\ activation[a].status # "absent"
    BY DEF Claimable, Swept, Holding
  <2>2. PICK n : n = Claimed(a)
    OBVIOUS
  <2>3. Fields(n) /\ n.at = "start" /\ n.item = a /\ n.token = leases + 1
    BY <2>2 DEF Claimed, IdlePass, Fields
  <2>4. faults' \in 0..MaxFaults
    BY <1>4, OneFault DEF Call
  <2>5. \/ ActivationClaim(ConsumerOf[p], expired, a) /\ UNCHANGED sopVars
        \/ UNCHANGED <<storeVars, sopVars>>
    BY <1>4 DEF Call
  <2>6. Kept
    BY <1>2, <2>1, <2>5, ClaimKept, QuietKept
  <2>7. CASE Goto(p, IdlePass)
    BY <2>4, <2>6, <2>7, IdleMemory, PassRemembers
  <2>8. CASE /\ ActivationClaim(ConsumerOf[p], expired, a)
             /\ Goto(p, n)
    <3>1. leases' = leases + 1 /\ leases \in Nat
      BY <2>8 DEF ActivationClaim, DispatchInv, StoreInv, TypeOK
    <3>2. n.token \in 1..leases'
      BY <2>3, <3>1
    <3>3. activation'[a].status # "absent"
      BY <2>1, <2>6 DEF Kept, StoreHistory, ActivationKept
    <3>4. Memory(n)'
      BY <2>1, <2>3, <3>2, <3>3 DEF Memory, EventPlace, ReconcilePlace, ClaimPlace
    <3> QED
      BY <2>4, <2>6, <2>8, <3>4, PassGoesOn DEF Goto
  <2>9. Goto(p, IdlePass) \/ (ActivationClaim(ConsumerOf[p], expired, a) /\ Goto(p, n))
    BY <1>4, <2>2 DEF Call
  <2> QED
    BY <2>7, <2>8, <2>9
<1> QED
  BY <1>1, <1>3, <1>4

\* What a pass remembers of the activation it claimed, and what it remembers
\* when it gives up.
LEMMA AtClaimed ==
    ASSUME DispatchInv, NEW p \in Pass, pass[p].at \in {"start", "admit", "fail"}
    PROVE  /\ Fields(pass[p]) /\ pass[p].item \in Activation
           /\ activation[pass[p].item].status # "absent"
           /\ pass[p].token \in 1..leases /\ pass[p].token \in 1..MaxLeases
           /\ pass[p].at = "admit" => StartedFor(pass[p].item, pass[p].note)
           /\ \E n : n = [pass[p] EXCEPT !.at = "fail"] /\ Memory(n)
<1>1. /\ Fields(pass[p]) /\ pass[p].item \in Activation
      /\ activation[pass[p].item].status # "absent" /\ pass[p].token \in 1..leases
      /\ pass[p].at = "admit" => StartedFor(pass[p].item, pass[p].note)
  BY DEF DispatchInv, PassInv, Memory
<1>2. pass[p].token \in 1..MaxLeases
  BY <1>1, BoundAssumption DEF DispatchInv, StoreInv, TypeOK
<1>3. PICK n : n = [pass[p] EXCEPT !.at = "fail"]
  OBVIOUS
<1>4. Fields(n) /\ n.at = "fail" /\ n.item = pass[p].item /\ n.token = pass[p].token
  BY <1>1, <1>3 DEF Fields
<1>5. Memory(n)
  BY <1>1, <1>4, ClaimedMemory
<1> QED
  BY <1>1, <1>2, <1>3, <1>5

\* A start gives the pass the run of its activation, found or made.
LEMMA StartSopInv == ASSUME DispatchInv, NEW p \in Pass, StartSop(p) PROVE DispatchInv'
<1>1. PICK m : m = pass[p]
  OBVIOUS
<1>2. /\ Fields(m) /\ m.at = "start" /\ m.item \in Activation
      /\ activation[m.item].status # "absent" /\ m.token \in 1..leases
  BY <1>1, AtClaimed DEF StartSop, At
<1>3. PICK a : a = m.item
  OBVIOUS
<1>4. PICK sop : sop = activation[a].target
  OBVIOUS
<1>5. a \in Activation /\ sop \in SopId /\ a \in OccurrenceKey /\ a # None
  BY <1>2, <1>3, <1>4, DispatchNone DEF DispatchInv, StoreInv, OccurrenceKey
<1>6. PICK r \in RunFor(sop, a) :
          Call(p, Sop!OccurrenceOf(sop, a) = {} \/ run[r].by = ConsumerOf[p],
               /\ UNCHANGED <<storeVars, retries>>
               /\ IF Sop!OccurrenceOf(sop, a) = {}
                  THEN Sop!StartRun(r, sop, a, ConsumerOf[p], template[sop])
                  ELSE UNCHANGED sopVars,
               [m EXCEPT !.at = "admit", !.note = r], [m EXCEPT !.at = "fail"])
  BY <1>1, <1>3, <1>4 DEF StartSop
<1>7. r \in RunId
  BY <1>6 DEF RunFor, Sop!OccurrenceOf, Sop!Fresh
<1>8. PICK n : n = [m EXCEPT !.at = "admit", !.note = r]
  OBVIOUS
<1>9. Fields(n) /\ n.at = "admit" /\ n.note = r /\ n.item = a /\ n.token = m.token
  BY <1>2, <1>3, <1>8 DEF Fields
<1>10. PICK d : d = [m EXCEPT !.at = "fail"] /\ Memory(d)
  BY <1>1, AtClaimed DEF StartSop, At
<1>11. faults' \in 0..MaxFaults
  BY <1>6, OneFault DEF Call
<1>12. CASE UNCHANGED <<storeVars, sopVars>> /\ Goto(p, d)
  BY <1>10, <1>11, <1>12, QuietKept, PassRemembers
<1>13. ASSUME UNCHANGED <<storeVars, retries>>,
              IF Sop!OccurrenceOf(sop, a) = {}
              THEN Sop!StartRun(r, sop, a, ConsumerOf[p], template[sop])
              ELSE UNCHANGED sopVars
       PROVE  Kept /\ StartedFor(a, r)'
  <2>1. CASE Sop!OccurrenceOf(sop, a) = {}
    <3>1. Sop!StartRun(r, sop, a, ConsumerOf[p], template[sop])
      BY <1>13, <2>1
    <3>2. Kept
      BY <1>5, <1>7, <1>13, <3>1, StartKept, PassAssumption
    <3>3. PICK status \in {"live", "completed", "failed"} :
              run' = [run EXCEPT ![r] = Sop!NewRun(status, sop, a, ConsumerOf[p], template[sop])]
      BY <3>1 DEF Sop!StartRun
    <3>4. /\ run'[r].status # "absent" /\ run'[r].key = a /\ run'[r].sop = sop
      <4>1. run'[r] = Sop!NewRun(status, sop, a, ConsumerOf[p], template[sop])
        BY <1>7, <3>3 DEF DispatchInv, SopInv
      <4> QED
        BY <4>1 DEF Sop!NewRun
    <3> QED
      BY <1>4, <1>7, <1>13, <3>2, <3>4 DEF StartedFor, storeVars
  <2>2. CASE Sop!OccurrenceOf(sop, a) # {}
    <3>1. UNCHANGED <<storeVars, sopVars>> /\ r \in Sop!OccurrenceOf(sop, a)
      BY <1>6, <1>13, <2>2 DEF RunFor
    <3>2. run[r].sop = sop /\ run[r].key = a /\ run[r].status # "absent"
      BY <1>5, <1>7, <3>1 DEF Sop!OccurrenceOf, DispatchInv, SopInv, RunAgrees
    <3>3. Kept
      BY <3>1, QuietKept
    <3> QED
      BY <1>4, <1>7, <3>1, <3>2, <3>3 DEF StartedFor, storeVars, sopVars
  <2> QED
    BY <2>1, <2>2
<1>14. \/ /\ UNCHANGED <<storeVars, retries>>
          /\ IF Sop!OccurrenceOf(sop, a) = {}
             THEN Sop!StartRun(r, sop, a, ConsumerOf[p], template[sop])
             ELSE UNCHANGED sopVars
          /\ Goto(p, n) \/ Goto(p, d)
       \/ UNCHANGED <<storeVars, sopVars>> /\ Goto(p, d)
  BY <1>6, <1>8, <1>10 DEF Call
<1>15. CASE /\ UNCHANGED <<storeVars, retries>>
            /\ IF Sop!OccurrenceOf(sop, a) = {}
               THEN Sop!StartRun(r, sop, a, ConsumerOf[p], template[sop])
               ELSE UNCHANGED sopVars
            /\ Goto(p, n) \/ Goto(p, d)
  <2>1. Kept /\ StartedFor(a, r)'
    BY <1>13, <1>15
  <2>2. CASE Goto(p, d)
    BY <1>10, <1>11, <2>1, <2>2, PassRemembers
  <2>3. CASE Goto(p, n)
    <3>1. activation' = activation /\ leases' = leases
      BY <1>15 DEF storeVars
    <3>2. Memory(n)'
      BY <1>2, <1>3, <1>9, <2>1, <3>1 DEF Memory, EventPlace, ReconcilePlace, ClaimPlace
    <3> QED
      BY <1>11, <2>1, <2>3, <3>2, PassGoesOn DEF Goto
  <2> QED
    BY <1>15, <2>2, <2>3
<1> QED
  BY <1>12, <1>14, <1>15

LEMMA AdmitRunInv == ASSUME DispatchInv, NEW p \in Pass, AdmitRun(p) PROVE DispatchInv'
<1>1. PICK m : m = pass[p]
  OBVIOUS
<1>2. /\ m.at = "admit" /\ m.item \in Activation /\ m.token \in 1..MaxLeases
      /\ StartedFor(m.item, m.note)
  BY <1>1, AtClaimed DEF AdmitRun, At
<1>3. PICK d : d = [m EXCEPT !.at = "fail"] /\ Memory(d)
  BY <1>1, AtClaimed DEF AdmitRun, At
<1>4. faults' \in 0..MaxFaults
  BY OneFault DEF AdmitRun, Call, LeaseRanOut
<1>5. \/ /\ ActivationAdmitSop(m.item, ConsumerOf[p], m.token, m.note, <<"sop-admission", m.item>>)
         /\ UNCHANGED sopVars
      \/ UNCHANGED <<storeVars, sopVars>>
  BY <1>1 DEF AdmitRun, Call, LeaseRanOut
<1>6. /\ ConsumerOf[p] \in Consumer /\ m.note \in RunId
      /\ <<"sop-admission", m.item>> \in ReceiptId
  BY <1>2, PassAssumption, ReceiptAssumption DEF StartedFor
<1>7. Kept
  BY <1>2, <1>5, <1>6, AdmitKept, QuietKept
<1>8. Goto(p, d) \/ Goto(p, Phase("claim", {}))
  BY <1>1, <1>3 DEF AdmitRun, Call, LeaseRanOut
<1> QED
  BY <1>3, <1>4, <1>7, <1>8, PassRemembers, TurnsToClaims

LEMMA GiveBackInv == ASSUME DispatchInv, NEW p \in Pass, GiveBack(p) PROVE DispatchInv'
<1>1. PICK m : m = pass[p]
  OBVIOUS
<1>2. m.item \in Activation /\ m.token \in 1..MaxLeases
  BY <1>1, AtClaimed DEF GiveBack, At
<1>3. \/ ActivationFail(m.item, ConsumerOf[p], m.token, TRUE) /\ UNCHANGED sopVars
      \/ UNCHANGED <<storeVars, sopVars>>
  BY <1>1 DEF GiveBack, Call, LeaseRanOut
<1>4. Kept
  BY <1>2, <1>3, FailKept, QuietKept, PassAssumption
<1>5. Goto(p, Phase("claim", {})) /\ faults' \in 0..MaxFaults
  BY OneFault DEF GiveBack, Call, LeaseRanOut
<1> QED
  BY <1>4, <1>5, TurnsToClaims

LEMMA PassDiesInv == ASSUME DispatchInv, NEW p \in Pass, PassDies(p) PROVE DispatchInv'
<1>1. Kept /\ Goto(p, IdlePass) /\ faults' \in 0..MaxFaults
  BY QuietKept, OneFault DEF PassDies
<1> QED
  BY <1>1, IdleMemory, PassRemembers

LEMMA OthersInv == ASSUME DispatchInv, OthersNext PROVE DispatchInv'
<1>1. Kept
  <2>1. ASSUME NEW c \in Seed, EventAdmit(c), UNCHANGED sopVars PROVE Kept
    BY <2>1, EventAdmitKept, SeedAssumption
  <2>2. ASSUME NEW b \in BindingId, NEW status \in BindingStatus, NEW expired \in SUBSET Holding,
               BindingSetStatus(b, status, expired), UNCHANGED sopVars
        PROVE  Kept
    BY <2>2, SetStatusKept
  <2>3. ASSUME NEW a \in Activation, ActivationUnblock(a), UNCHANGED sopVars PROVE Kept
    BY <2>3, UnblockKept
  <2>4. CASE Sop!SopNext /\ UNCHANGED storeVars
    BY <2>4, SopNextKept
  <2> QED
    BY <2>1, <2>2, <2>3, <2>4 DEF OthersNext
<1> QED
  BY <1>1, PassesStay DEF OthersNext

-----------------------------------------------------------------------------
(* The invariant *)

LEMMA DispatchStep == ASSUME DispatchInv, [DispatchNext]_dispatchVars PROVE DispatchInv'
<1>1. CASE UNCHANGED dispatchVars
  <2>1. Kept /\ UNCHANGED <<pass, faults>>
    BY <1>1, QuietKept DEF dispatchVars
  <2> QED
    BY <2>1, PassesStay
<1>2. ASSUME NEW p \in Pass, PassStep(p) PROVE DispatchInv'
  BY <1>2, BeginPassInv, AdmitEventInv, LinkEventInv, ResolveLinkedInv, AckEventInv,
     BeginReconcileInv, ReadStatusInv, RecoverActivationInv, BeginClaimsInv, ClaimInv,
     StartSopInv, AdmitRunInv, GiveBackInv
     DEF PassStep
<1> QED
  BY <1>1, <1>2, PassDiesInv, OthersInv DEF DispatchNext

LEMMA DispatchStart == ASSUME DispatchInit PROVE DispatchInv
<1> USE DEF DispatchInit
<1>1. StoreInv
  <2>1. \A b \in BindingId : /\ binding[b] = [status |-> "active", revision |-> 1, spec |-> Installed[b]]
                             /\ binding[b] \in BindingRow
    BY InstalledAssumption DEF Revised, NoBinding, BindingRow, BindingStatus
  <2>2. TypeOK
    BY <2>1, NoRow DEF TypeOK, NoReceipt
  <2>3. \A a \in Activation :
            /\ activation[a].status = "absent" /\ activation[a].run = None
            /\ activation[a].owner = None /\ activation[a].token = 0
            /\ activation[a].outcome = None
            /\ receipt[a]["sop_admission"] = None /\ receipt[a]["terminal"] = None
    BY DEF NoActivation, NoReceipt, ReceiptKind
  <2>4. LaneExclusive /\ LeaseRecord /\ AuditTrail /\ Provenance
    BY <2>3 DEF LaneExclusive, LeaseRecord, AuditTrail, Provenance, InFlight
  <2>5. leases <= MaxLeases
    BY BoundAssumption
  <2>6. BindingsInstalled
    <3>1. \A b \in BindingId : binding[b].status = "active"
      BY DEF Revised, NoBinding
    <3> QED
      BY <3>1 DEF BindingsInstalled
  <2> QED
    BY <2>2, <2>3, <2>4, <2>5, <2>6 DEF StoreInv
<1>2. SopInv
  <2>1. Sop!AbsentRun \in RunRow /\ Sop!AbsentRun.status = "absent" /\ Sop!AbsentRun.key = None
        /\ Sop!AbsentRun.finishes = 0
    BY DispatchBounds DEF Sop!AbsentRun, RunRow
  <2>2. \A r \in RunId : run[r] = Sop!AbsentRun /\ outbox[r] = None /\ acked[r] = {}
    BY DEF Sop!SopInit
  <2>3. \A r \in RunId : RunAgrees(r)
    BY <2>1, <2>2 DEF RunAgrees, Sop!EndStatus, Sop!SopInit
  <2> QED
    BY <2>1, <2>2, <2>3, DispatchBounds DEF SopInv, Sop!SopInit
<1>3. \A a \in Activation : Linkage(a)
  BY DEF Linkage, NoActivation
<1>4. DeliveredInv
  BY DEF DeliveredInv, Sop!SopInit
<1>5. PassInv
  BY IdleMemory DEF PassInv
<1> QED
  BY <1>1, <1>2, <1>3, <1>4, <1>5, DispatchBounds DEF DispatchInv

LEMMA DispatchAlways == DispatchSpec => []DispatchInv
BY DispatchStart, DispatchStep, PTL DEF DispatchSpec

-----------------------------------------------------------------------------
(* What the runs check *)

\* A listed row has the type of a listed event: the end a run came to is
\* an outcome, and the moment of it is a datum of a source event.
LEMMA ListedType == ASSUME NEW e, Known(e) PROVE e \in ListedEvent
<1>1. /\ e \in [run : RunId, sop : SopId, row : TerminalRow]
      /\ e.row \in TerminalRow /\ e.run \in RunId /\ e.sop \in SopId
  BY DEF Known
<1>2. EventFor(e) \in TerminalContent
  BY <1>1 DEF EventFor, TerminalContent, TerminalRow
<1>3. EventFor(e).data \in Data
  BY <1>2, TerminalAssumption, ContentAssumption DEF ContentType
<1>4. e.row.at \in Data
  BY <1>3 DEF EventFor
<1>5. e.row \in [outcome : Outcome, says : EventOutcome, at : Data]
  BY <1>1, <1>4, OutcomesAgree DEF TerminalRow
<1> QED
  BY <1>1, <1>5 DEF ListedEvent

LEMMA DispatchTyped == ASSUME DispatchInv PROVE DispatchTypeOK
<1>1. Sop!SopTypeOK
  <2>1. ASSUME NEW r \in RunId
        PROVE  /\ run[r].status \in {"absent", "live"} \cup Sop!EndStatus
               /\ run[r].finishes \in 0..(MaxRetries + 1)
    <3>1. run[r] \in RunRow /\ run[r].finishes \in Nat /\ run[r].finishes <= retries + 1
          /\ retries \in 0..MaxRetries
      BY DEF DispatchInv, SopInv, RunAgrees, RunRow
    <3>2. run[r].status \in {"absent", "live"} \cup Sop!EndStatus
      BY <3>1 DEF RunRow
    <3> QED
      BY <3>1, <3>2, DispatchBounds
  <2> QED
    BY <2>1 DEF DispatchInv, SopInv, RunAgrees, Sop!SopTypeOK
<1>2. ASSUME NEW p \in Pass PROVE PassOK(pass[p])
  <2>1. PICK m : m = pass[p] /\ Memory(m)
    BY DEF DispatchInv, PassInv
  <2>2. /\ m.at \in {"idle"} \cup EventPlace \cup ReconcilePlace \cup ClaimPlace
        /\ m.at = "idle" => m = IdlePass
        /\ m.at \in EventPlace => m.todo \subseteq ListedEvent
        /\ m.at \in EventPlace \ {"events"} => m.item \in ListedEvent
    BY <2>1, ListedType DEF Memory, EventPlace
  <2>3. /\ m.at \in ReconcilePlace => m.todo \subseteq Activation
        /\ m.at = "recover" => m.item \in Activation /\ m.note \in Sop!EndStatus
    BY <2>1 DEF Memory, ReadOf
  <2>4. /\ m.at \in ClaimPlace \ {"claim"} => m.item \in Activation /\ m.token \in 1..leases
        /\ m.at = "admit" => m.note \in RunId
    BY <2>1 DEF Memory, ClaimPlace, StartedFor
  <2>5. PassOK(m)
    BY <2>2, <2>3, <2>4 DEF PassOK
  <2> QED
    BY <2>1, <2>5
<1> QED
  BY <1>1, <1>2 DEF DispatchInv, StoreInv, DispatchTypeOK

\* The rows of the two servers, what every pass remembers while it is at one
\* place or another, and the faults stay within their types.
THEOREM DispatchTypes == DispatchSpec => []DispatchTypeOK
BY DispatchAlways, DispatchTyped, PTL

\* However the terminal event and its acknowledgement were delayed, lost or
\* repeated, a consumer acknowledged it only once the scheduler had recorded
\* it and made the activations its bindings ask for.
THEOREM AcknowledgedIsAdmitted == DispatchSpec => []AckedIsAdmitted
<1>1. ASSUME DispatchInv PROVE AckedIsAdmitted
  BY <1>1 DEF DispatchInv, DeliveredInv, Delivered, AckedIsAdmitted
<1> QED
  BY <1>1, DispatchAlways, PTL

\* The run an activation is linked to is that of its own occurrence, and its
\* outcome that of the run.
THEOREM LinksAgree == DispatchSpec => []LinkAgrees
<1>1. ASSUME DispatchInv PROVE LinkAgrees
  BY <1>1 DEF DispatchInv, Linkage, LinkAgrees
<1> QED
  BY <1>1, DispatchAlways, PTL

-----------------------------------------------------------------------------
(* The store keeps its promises under the dispatcher *)

\* Every call a pass or an operator makes of the store is one of the store's
\* own, made with values the store expects.
LEMMA DispatchCalls == ASSUME DispatchInv, [DispatchNext]_dispatchVars PROVE [Next]_storeVars
<1>0. SUFFICES ASSUME ~UNCHANGED storeVars PROVE Next
  OBVIOUS
<1>1. ASSUME NEW p \in Pass, PassStep(p) PROVE Next
  <2>1. CASE AdmitEvent(p)
    <3>1. PICK e \in pass[p].todo : EventAdmit(EventFor(e)) /\ UNCHANGED sopVars
      BY <1>0, <2>1 DEF AdmitEvent, Call
    <3>2. Known(e)
      BY <2>1, <3>1 DEF DispatchInv, PassInv, AdmitEvent, At, Memory, EventPlace
    <3> QED
      BY <3>1, <3>2, EventAdmitDelivers DEF Next
  <2>2. CASE ResolveLinked(p)
    <3>1. PICK e : e = pass[p].item
      OBVIOUS
    <3>2. Known(e) /\ e.row.outcome \in Outcome /\ <<"sop-terminal", e.run>> \in ReceiptId
      BY <2>2, <3>1, AtEvent, OutcomesAgree, ReceiptAssumption
         DEF ResolveLinked, At, Known, TerminalRow
    <3>3. PICK a \in Activation :
              ActivationResolve(a, e.row.outcome, <<"sop-terminal", e.run>>)
      BY <1>0, <2>2, <3>1 DEF ResolveLinked, Call, ResolveRun, Linked
    <3> QED
      BY <3>2, <3>3 DEF Next
  <2>3. CASE RecoverActivation(p)
    <3>1. PICK m : m = pass[p] /\ m.at = "recover" /\ ReadOf(m.item, m.note)
      BY <2>3 DEF DispatchInv, PassInv, RecoverActivation, At, Memory
    <3>2. PICK r : r = activation[m.item].run
      OBVIOUS
    <3>3. /\ r \in RunId /\ m.note \in Outcome
          /\ <<"sop-terminal:recovery", r>> \in ReceiptId
      <4>1. r \in RunId
        BY <3>1, <3>2 DEF ReadOf, DispatchInv, StoreInv, TypeOK, ActivationRow
      <4> QED
        BY <3>1, <4>1, OutcomesAgree, ReceiptAssumption DEF ReadOf
    <3>4. PICK a \in Activation :
              ActivationResolve(a, m.note, <<"sop-terminal:recovery", r>>)
      BY <1>0, <2>3, <3>1, <3>2 DEF RecoverActivation, Call, ResolveRun, Linked
    <3> QED
      BY <3>3, <3>4 DEF Next
  <2>4. CASE Claim(p)
    <3>1. ConsumerOf[p] \in Consumer
      BY PassAssumption
    <3>2. PICK expired \in SUBSET Holding :
              \/ \E a \in Activation : ActivationClaim(ConsumerOf[p], expired, a)
              \/ ActivationClaimNothing(expired)
      BY <1>0, <2>4 DEF Claim, Call, Claimable
    <3>3. ClaimNext
      BY <3>1, <3>2 DEF ClaimNext
    <3> QED
      BY <3>3 DEF Next
  <2>5. CASE AdmitRun(p)
    <3>1. PICK m : m = pass[p]
      OBVIOUS
    <3>2. /\ m.item \in Activation /\ m.token \in 1..MaxLeases /\ m.note \in RunId
          /\ ConsumerOf[p] \in Consumer /\ <<"sop-admission", m.item>> \in ReceiptId
      BY <2>5, <3>1, AtClaimed, PassAssumption, ReceiptAssumption DEF AdmitRun, At, StartedFor
    <3>3. ActivationAdmitSop(m.item, ConsumerOf[p], m.token, m.note, <<"sop-admission", m.item>>)
      BY <1>0, <2>5, <3>1 DEF AdmitRun, Call, LeaseRanOut
    <3>4. HolderNext
      BY <3>2, <3>3 DEF HolderNext
    <3> QED
      BY <3>4 DEF Next
  <2>6. CASE GiveBack(p)
    <3>1. PICK m : m = pass[p]
      OBVIOUS
    <3>2. m.item \in Activation /\ m.token \in 1..MaxLeases /\ ConsumerOf[p] \in Consumer
      BY <2>6, <3>1, AtClaimed, PassAssumption DEF GiveBack, At
    <3>3. ActivationFail(m.item, ConsumerOf[p], m.token, TRUE)
      BY <1>0, <2>6, <3>1 DEF GiveBack, Call, LeaseRanOut
    <3>4. HolderNext
      BY <3>2, <3>3 DEF HolderNext
    <3> QED
      BY <3>4 DEF Next
  <2>7. CASE BeginPass(p) \/ LinkEvent(p) \/ AckEvent(p)
    BY <1>0, <2>7 DEF BeginPass, LinkEvent, AckEvent, Call
  <2>8. CASE BeginReconcile(p) \/ ReadStatus(p) \/ BeginClaims(p)
    BY <1>0, <2>8 DEF BeginReconcile, ReadStatus, BeginClaims, Call
  <2>9. CASE StartSop(p)
    BY <1>0, <2>9 DEF StartSop, Call
  <2> QED
    BY <1>1, <2>1, <2>2, <2>3, <2>4, <2>5, <2>6, <2>7, <2>8, <2>9 DEF PassStep
<1>2. CASE OthersNext
  <2>1. ASSUME NEW b \in BindingId, NEW status \in BindingStatus, NEW expired \in SUBSET Holding,
               BindingSetStatus(b, status, expired)
        PROVE  Next
    <3>1. BindingNext
      BY <2>1 DEF BindingNext
    <3> QED
      BY <3>1 DEF Next
  <2> QED
    BY <1>0, <1>2, <2>1, SeedAssumption DEF OthersNext, Next
<1> QED
  BY <1>0, <1>1, <1>2 DEF DispatchNext, PassDies, dispatchVars

\* What is proved of the store holds under the passes, however they overlap,
\* lose calls and die: one activation in flight per lane, leases that are
\* live or gone as a whole, and an audit trail that tells one story.
THEOREM StoreKeptUnderDispatch ==
    DispatchSpec => [](LaneExclusive /\ LeaseRecord /\ AuditTrail /\ Provenance)
<1>1. ASSUME DispatchInv PROVE LaneExclusive /\ LeaseRecord /\ AuditTrail /\ Provenance
  BY <1>1 DEF DispatchInv, StoreInv
<1> QED
  BY <1>1, DispatchAlways, PTL
\* Tokens stay fenced, and a pause governs what it governs, under the passes.
THEOREM FencedUnderDispatch == DispatchSpec => FencedTokens /\ PauseGoverns
<1>1. DispatchInv /\ [DispatchNext]_dispatchVars
          => [TokenFenced]_storeVars /\ [PauseGoverned]_storeVars
  BY DispatchCalls, FencedStep, PausedStep DEF DispatchInv, StoreInv
<1> QED
  BY <1>1, DispatchAlways, PTL DEF DispatchSpec, FencedTokens, PauseGoverns

\* The store, the SOP server and the dispatcher together implement the lanes:
\* a step of a pass is one step of ActivationLanes, or none.
THEOREM DispatchImplementsLanes == DispatchSpec => ImplementsLanes
<1>1. DispatchInit => Lanes!Init
  BY Stages DEF DispatchInit, Lanes!Init, NoActivation, LaneOf
<1>2. DispatchInv /\ [DispatchNext]_dispatchVars => [Lanes!Next]_(Lanes!vars)
  BY DispatchCalls, LanesStep DEF DispatchInv, StoreInv
<1> QED
  BY <1>1, <1>2, DispatchAlways, PTL DEF DispatchSpec, ImplementsLanes, Lanes!Spec
=============================================================================
