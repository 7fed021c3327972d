------------------------ MODULE ActivationStoreProofs ------------------------
(***************************************************************************)
(* What holds of ActivationStore for every choice of its constants: its    *)
(* type invariant, the four safety invariants, the two action properties,  *)
(* and the promise of ActivationLanes.                                     *)
(***************************************************************************)
EXTENDS ActivationStore, TLAPS

(***************************************************************************)
(* Rows.  Every row a call writes is one of these.                         *)
(***************************************************************************)

\* An activation is a binding and an event.
LEMMA ActivationPair ==
    \A a \in Activation : a[1] \in BindingId /\ a[2] \in EventId
BY DEF Activation

\* Giving a lease up (activation_admit_sop, activation_fail, the sweeps)
\* changes the status and the two lease columns.
LEMMA UnleasedRow ==
    ASSUME NEW row \in ActivationRow, NEW status \in ActivationStatus
    PROVE  /\ Unleased(row, status) \in ActivationRow
           /\ Unleased(row, status).status = status
           /\ Unleased(row, status).owner = None
           /\ Unleased(row, status).token = 0
           /\ Unleased(row, status).partition = row.partition
           /\ Unleased(row, status).target = row.target
           /\ Unleased(row, status).run = row.run
           /\ Unleased(row, status).outcome = row.outcome
           /\ Unleased(row, status).attempts = row.attempts
BY DEF Unleased, ActivationRow

\* What a pause writes.
LEMMA CancelledRow ==
    ASSUME NEW row \in ActivationRow
    PROVE  /\ Cancelled(row) \in ActivationRow
           /\ Cancelled(row).status = "terminal"
           /\ Cancelled(row).owner = None
           /\ Cancelled(row).token = 0
           /\ Cancelled(row).partition = row.partition
           /\ Cancelled(row).target = row.target
           /\ Cancelled(row).run = row.run
           /\ Cancelled(row).outcome = PausedOutcome
BY DEF Cancelled, Unleased, ActivationRow, ActivationStatus

\* What the sweep writes for a binding that is not paused.
LEMMA RequeuedRow ==
    ASSUME NEW row \in ActivationRow
    PROVE  /\ Requeued(row) \in ActivationRow
           /\ Requeued(row).status = "pending"
           /\ Requeued(row).owner = None
           /\ Requeued(row).token = 0
           /\ Requeued(row).partition = row.partition
           /\ Requeued(row).target = row.target
           /\ Requeued(row).run = row.run
           /\ Requeued(row).outcome = row.outcome
<1>1. /\ Unleased(row, "pending") \in ActivationRow
      /\ Unleased(row, "pending").attempts \in Nat
  BY UnleasedRow DEF ActivationRow, ActivationStatus
<1> QED
  BY <1>1, UnleasedRow DEF Requeued, ActivationRow, ActivationStatus

\* What a claim writes.
LEMMA LeasedRow ==
    ASSUME NEW row \in ActivationRow, NEW consumer \in Consumer, NEW token \in Nat
    PROVE  /\ Leased(row, consumer, token) \in ActivationRow
           /\ Leased(row, consumer, token).status = "leased"
           /\ Leased(row, consumer, token).owner = consumer
           /\ Leased(row, consumer, token).token = token
           /\ Leased(row, consumer, token).partition = row.partition
           /\ Leased(row, consumer, token).target = row.target
           /\ Leased(row, consumer, token).run = row.run
           /\ Leased(row, consumer, token).outcome = row.outcome
BY DEF Leased, ActivationRow, ActivationStatus

\* What activation_admit_sop writes.
LEMMA AdmittedRow ==
    ASSUME NEW row \in ActivationRow, NEW r \in RunId
    PROVE  /\ Admitted(row, r) \in ActivationRow
           /\ Admitted(row, r).status = "admitted"
           /\ Admitted(row, r).owner = None
           /\ Admitted(row, r).token = 0
           /\ Admitted(row, r).partition = row.partition
           /\ Admitted(row, r).target = row.target
           /\ Admitted(row, r).run = r
           /\ Admitted(row, r).outcome = row.outcome
<1>1. Unleased(row, "admitted") \in ActivationRow
  BY UnleasedRow DEF ActivationStatus
<1> QED
  BY <1>1, UnleasedRow DEF Admitted, ActivationRow, ActivationStatus

\* What activation_fail writes.
LEMMA FailedRow ==
    ASSUME NEW row \in ActivationRow, NEW retry \in BOOLEAN
    PROVE  /\ Failed(row, retry) \in ActivationRow
           /\ Failed(row, retry).status \in {"pending", "blocked"}
           /\ Failed(row, retry).owner = None
           /\ Failed(row, retry).token = 0
           /\ Failed(row, retry).partition = row.partition
           /\ Failed(row, retry).target = row.target
           /\ Failed(row, retry).run = row.run
           /\ Failed(row, retry).outcome = row.outcome
<1> DEFINE status == IF retry THEN "pending" ELSE "blocked"
           given == Unleased(row, status)
<1>1. status \in ActivationStatus /\ status \in {"pending", "blocked"}
  BY DEF ActivationStatus
<1>2. Failed(row, retry) = [given EXCEPT !.attempts = @ + 1]
  BY DEF Failed
<1> HIDE DEF status
<1>3. given \in ActivationRow /\ given.attempts \in Nat
  BY <1>1, UnleasedRow DEF ActivationRow
<1> QED
  BY <1>1, <1>2, <1>3, UnleasedRow DEF ActivationRow

\* What activation_resolve and activation_unblock write.
LEMMA ResolvedRow ==
    ASSUME NEW row \in ActivationRow, NEW outcome \in Outcome
    PROVE  /\ Resolved(row, outcome) \in ActivationRow
           /\ Resolved(row, outcome).status = "terminal"
           /\ Resolved(row, outcome).owner = row.owner
           /\ Resolved(row, outcome).token = row.token
           /\ Resolved(row, outcome).partition = row.partition
           /\ Resolved(row, outcome).target = row.target
           /\ Resolved(row, outcome).run = row.run
           /\ Resolved(row, outcome).outcome = outcome
BY DEF Resolved, ActivationRow, ActivationStatus

LEMMA UnblockedRow ==
    ASSUME NEW row \in ActivationRow
    PROVE  /\ Unblocked(row) \in ActivationRow
           /\ Unblocked(row).status = "pending"
           /\ Unblocked(row).owner = row.owner
           /\ Unblocked(row).token = row.token
           /\ Unblocked(row).partition = row.partition
           /\ Unblocked(row).target = row.target
           /\ Unblocked(row).run = row.run
           /\ Unblocked(row).outcome = row.outcome
BY DEF Unblocked, ActivationRow, ActivationStatus

\* What event_admit inserts.
LEMMA CreatedRow ==
    ASSUME NEW b \in BindingId, NEW c \in Content,
           binding[b].spec \in BindingSpec
    PROVE  /\ Created(b, c) \in ActivationRow
           /\ Created(b, c).status \in {"pending", "blocked"}
           /\ Created(b, c).owner = None
           /\ Created(b, c).token = 0
           /\ Created(b, c).partition \in PartitionKey
           /\ Created(b, c).target \in SopId
           /\ Created(b, c).run = None
           /\ Created(b, c).outcome = None
<1>1. binding[b].spec \in SpecType /\ c \in ContentType
  BY SpecAssumption, ContentAssumption
<1> QED
  BY <1>1 DEF Created, NoActivation, ActivationRow, ActivationStatus, PartitionKey,
              SpecType, ContentType

\* No row.
LEMMA NoRow == NoActivation \in ActivationRow
BY DEF NoActivation, ActivationRow, ActivationStatus

\* What a claim leaves of the activations before it takes one.
LEMMA SweptRows ==
    ASSUME TypeOK, NEW expired
    PROVE  /\ Swept(expired) \in [Activation -> ActivationRow]
           /\ \A a \in Activation :
                 \/ Swept(expired)[a] = activation[a]
                 \/ /\ activation[a].status = "leased"
                    /\ binding[a[1]].status = "paused"
                    /\ Swept(expired)[a] = Cancelled(activation[a])
                 \/ /\ activation[a].status = "leased"
                    /\ binding[a[1]].status # "paused"
                    /\ Swept(expired)[a] = Requeued(activation[a])
<1>1. \A a \in Activation : activation[a] \in ActivationRow
  BY DEF TypeOK
<1> QED
  BY <1>1, CancelledRow, RequeuedRow DEF Swept, Holding

-----------------------------------------------------------------------------
(* The type invariant *)

\* TypeOK survives every call.
LEMMA TypeStep == ASSUME TypeOK, [Next]_storeVars PROVE TypeOK'
<1>1. CASE UNCHANGED storeVars
  BY <1>1 DEF storeVars, TypeOK
<1>2. ASSUME NEW b \in BindingId, NEW spec \in BindingSpec, BindingUpsert(b, spec)
      PROVE  TypeOK'
  <2>1. CASE binding[b].status = "absent"
    <3>1. [status |-> "active", revision |-> 1, spec |-> spec] \in BindingRow
      BY DEF BindingRow, BindingStatus
    <3> QED
      BY <1>2, <2>1, <3>1 DEF BindingUpsert, TypeOK
  <2>2. CASE binding[b].status # "absent"
    <3>1. binding[b] \in [status : BindingStatus, revision : Nat \ {0}, spec : BindingSpec]
      BY <2>2 DEF TypeOK, BindingRow, NoBinding
    <3>2. Revised(binding[b], binding[b].status, spec) \in BindingRow
      BY <3>1 DEF BindingRow, Revised
    <3> QED
      BY <1>2, <2>2, <3>2 DEF BindingUpsert, TypeOK
  <2> QED
    BY <2>1, <2>2
<1>3. ASSUME NEW b \in BindingId, NEW status \in BindingStatus,
             NEW expired, BindingSetStatus(b, status, expired)
      PROVE  TypeOK'
  <2>1. binding[b] \in [status : BindingStatus, revision : Nat \ {0}, spec : BindingSpec]
    BY <1>3 DEF BindingSetStatus, TypeOK, BindingRow, NoBinding
  <2>2. Revised(binding[b], status, binding[b].spec) \in BindingRow
    BY <2>1 DEF BindingRow, Revised
  <2>4. activation' \in [Activation -> ActivationRow]
    BY <1>3, CancelledRow DEF BindingSetStatus, TypeOK
  <2> QED
    BY <1>3, <2>2, <2>4 DEF BindingSetStatus, TypeOK
<1>4. ASSUME NEW c \in Content, EventAdmit(c)
      PROVE  TypeOK'
  <2>1. \A b \in Triggered(c) : b \in BindingId /\ binding[b].spec \in BindingSpec
    BY DEF Triggered, TypeOK, BindingRow, NoBinding
  <2>2. activation' \in [Activation -> ActivationRow]
    BY <1>4, <2>1, CreatedRow, ActivationPair DEF EventAdmit, TypeOK
  <2> QED
    BY <1>4, <2>2 DEF EventAdmit, TypeOK
<1>5. ASSUME NEW consumer \in Consumer, NEW expired, NEW a \in Activation,
             ActivationClaim(consumer, expired, a)
      PROVE  TypeOK'
  BY <1>5, SweptRows, LeasedRow DEF ActivationClaim, TypeOK
<1>6. ASSUME NEW expired, ActivationClaimNothing(expired)
      PROVE  TypeOK'
  BY <1>6, SweptRows DEF ActivationClaimNothing, TypeOK
<1>7. ASSUME NEW a \in Activation, NEW consumer, NEW token, NEW r \in RunId,
             NEW id \in ReceiptId, ActivationAdmitSop(a, consumer, token, r, id)
      PROVE  TypeOK'
  <2>1. activation' \in [Activation -> ActivationRow]
    BY <1>7, AdmittedRow DEF ActivationAdmitSop, TypeOK
  <2> QED
    BY <1>7, <2>1 DEF ActivationAdmitSop, RecordReceipt, TypeOK, ReceiptKind
<1>8. ASSUME NEW a \in Activation, NEW consumer, NEW token, NEW retryable \in BOOLEAN,
             ActivationFail(a, consumer, token, retryable)
      PROVE  TypeOK'
  BY <1>8, FailedRow DEF ActivationFail, TypeOK
<1>9. ASSUME NEW a \in Activation, NEW outcome \in Outcome, NEW id \in ReceiptId,
             ActivationResolve(a, outcome, id)
      PROVE  TypeOK'
  <2>1. activation' \in [Activation -> ActivationRow]
    BY <1>9, ResolvedRow DEF ActivationResolve, TypeOK
  <2> QED
    BY <1>9, <2>1 DEF ActivationResolve, RecordReceipt, TypeOK, ReceiptKind
<1>10. ASSUME NEW a \in Activation, ActivationUnblock(a)
       PROVE  TypeOK'
  BY <1>10, UnblockedRow DEF ActivationUnblock, TypeOK
<1> QED
  BY <1>1, <1>2, <1>3, <1>4, <1>5, <1>6, <1>7, <1>8, <1>9, <1>10
     DEF Next, BindingNext, ClaimNext, HolderNext

\* The rows, the revisions and the token counter have their types after every
\* tool call: no call writes a column outside its range.
THEOREM TypeCorrect == Spec => []TypeOK
<1>1. Init => TypeOK
  BY NoRow DEF Init, TypeOK, BindingRow, NoBinding, NoReceipt
<1>2. TypeOK /\ [Next]_storeVars => TypeOK'
  BY TypeStep
<1> QED
  BY <1>1, <1>2, PTL DEF Spec

-----------------------------------------------------------------------------
(* Lanes are exclusive *)

\* A step that puts no activation in flight and moves none that stays in
\* flight to another lane cannot break exclusivity.
LEMMA LaneQuiet ==
    ASSUME LaneExclusive,
           \A a \in Activation : activation'[a].status \in InFlight =>
               /\ activation[a].status \in InFlight
               /\ activation'[a].partition = activation[a].partition
    PROVE  LaneExclusive'
BY DEF LaneExclusive, SameLane

\* LaneExclusive survives every call.
LEMMA LaneStep == ASSUME TypeOK, LaneExclusive, [Next]_storeVars PROVE LaneExclusive'
<1>0. \A a \in Activation : activation[a] \in ActivationRow
  BY DEF TypeOK
<1>1. CASE UNCHANGED storeVars
  BY <1>1, LaneQuiet DEF storeVars
<1>2. ASSUME NEW b \in BindingId, NEW spec \in BindingSpec, BindingUpsert(b, spec)
      PROVE  LaneExclusive'
  BY <1>2, LaneQuiet DEF BindingUpsert
<1>3. ASSUME NEW b \in BindingId, NEW status \in BindingStatus,
             NEW expired, BindingSetStatus(b, status, expired)
      PROVE  LaneExclusive'
  BY <1>0, <1>3, CancelledRow, LaneQuiet DEF BindingSetStatus, InFlight
<1>4. ASSUME NEW c \in Content, EventAdmit(c)
      PROVE  LaneExclusive'
  <2>1. \A b \in Triggered(c) : b \in BindingId /\ binding[b].spec \in BindingSpec
    BY DEF Triggered, TypeOK, BindingRow, NoBinding
  <2> QED
    BY <1>4, <2>1, CreatedRow, ActivationPair, LaneQuiet DEF EventAdmit, InFlight
<1>5. ASSUME NEW consumer \in Consumer, NEW expired, NEW a \in Activation,
             ActivationClaim(consumer, expired, a)
      PROVE  LaneExclusive'
  <2> DEFINE rows == Swept(expired)
  <2>1. /\ rows \in [Activation -> ActivationRow]
        /\ \A o \in Activation :
              /\ rows[o].partition = activation[o].partition
              /\ rows[o].status \in InFlight => activation[o].status \in InFlight
    BY <1>0, SweptRows, CancelledRow, RequeuedRow DEF InFlight
  <2>2. /\ a \in Claimable(rows)
        /\ activation' = [rows EXCEPT ![a] = Leased(rows[a], consumer, leases + 1)]
    BY <1>5 DEF ActivationClaim
  <2> HIDE DEF rows
  <2>3. activation'[a].partition = activation[a].partition
    BY <2>1, <2>2, LeasedRow DEF TypeOK
  <2>4. \A o \in Activation \ {a} : activation'[o] = rows[o]
    BY <2>1, <2>2
  <2>5. \A o \in Activation \ {a} :
           SameLane(a, o)' => activation'[o].status \notin InFlight
    BY <2>1, <2>2, <2>3, <2>4 DEF Claimable, SameLane
  <2>6. ASSUME NEW o \in Activation \ {a}, NEW p \in Activation \ {a}, o # p, SameLane(o, p)'
        PROVE  ~(activation'[o].status \in InFlight /\ activation'[p].status \in InFlight)
    BY <2>1, <2>4, <2>6 DEF LaneExclusive, SameLane
  <2> QED
    BY <2>5, <2>6 DEF LaneExclusive, SameLane
<1>6. ASSUME NEW expired, ActivationClaimNothing(expired)
      PROVE  LaneExclusive'
  BY <1>0, <1>6, SweptRows, CancelledRow, RequeuedRow, LaneQuiet
     DEF ActivationClaimNothing, InFlight
<1>7. ASSUME NEW a \in Activation, NEW consumer, NEW token, NEW r \in RunId,
             NEW id \in ReceiptId, ActivationAdmitSop(a, consumer, token, r, id)
      PROVE  LaneExclusive'
  BY <1>0, <1>7, AdmittedRow, LaneQuiet
     DEF ActivationAdmitSop, RequireLeased, InFlight, TypeOK
<1>8. ASSUME NEW a \in Activation, NEW consumer, NEW token, NEW retryable \in BOOLEAN,
             ActivationFail(a, consumer, token, retryable)
      PROVE  LaneExclusive'
  BY <1>0, <1>8, FailedRow, LaneQuiet DEF ActivationFail, InFlight, TypeOK
<1>9. ASSUME NEW a \in Activation, NEW outcome \in Outcome, NEW id \in ReceiptId,
             ActivationResolve(a, outcome, id)
      PROVE  LaneExclusive'
  BY <1>0, <1>9, ResolvedRow, LaneQuiet DEF ActivationResolve, InFlight, TypeOK
<1>10. ASSUME NEW a \in Activation, ActivationUnblock(a)
       PROVE  LaneExclusive'
  BY <1>0, <1>10, UnblockedRow, LaneQuiet DEF ActivationUnblock, InFlight, TypeOK
<1> QED
  BY <1>1, <1>2, <1>3, <1>4, <1>5, <1>6, <1>7, <1>8, <1>9, <1>10
     DEF Next, BindingNext, ClaimNext, HolderNext

\* No two activations of a lane are in flight together, for any number of
\* bindings, events, consumers and leases: scheduler_activation_claim is the
\* only call that brings one into flight, and it looks at the swept rows.
THEOREM LanesExclusive == Spec => []LaneExclusive
<1>1. Init => LaneExclusive
  BY DEF Init, LaneExclusive, NoActivation, InFlight
<1>2. TypeOK /\ LaneExclusive /\ [Next]_storeVars => LaneExclusive'
  BY LaneStep
<1> QED
  BY <1>1, <1>2, TypeCorrect, PTL DEF Spec

-----------------------------------------------------------------------------
(* Leases are whole and tokens unique *)

\* A step that leaves every lease as it is or clears it keeps LeaseRecord.
LEMMA LeaseQuiet ==
    ASSUME TypeOK, TypeOK', LeaseRecord, leases' = leases,
           \A a \in Activation :
               \/ /\ activation'[a].status = "leased" <=> activation[a].status = "leased"
                  /\ activation'[a].owner = activation[a].owner
                  /\ activation'[a].token = activation[a].token
               \/ /\ activation'[a].status # "leased"
                  /\ activation'[a].owner = None
                  /\ activation'[a].token = 0
    PROVE  LeaseRecord'
BY DEF LeaseRecord, TypeOK, ActivationRow

\* LeaseRecord survives every call.
LEMMA LeaseStep == ASSUME TypeOK, LeaseRecord, [Next]_storeVars PROVE LeaseRecord'
<1>0. /\ \A a \in Activation : activation[a] \in ActivationRow
      /\ TypeOK'
  BY TypeStep DEF TypeOK
<1>1. CASE UNCHANGED storeVars
  BY <1>0, <1>1, LeaseQuiet DEF storeVars
<1>2. ASSUME NEW b \in BindingId, NEW spec \in BindingSpec, BindingUpsert(b, spec)
      PROVE  LeaseRecord'
  BY <1>0, <1>2, LeaseQuiet DEF BindingUpsert
<1>3. ASSUME NEW b \in BindingId, NEW status \in BindingStatus,
             NEW expired, BindingSetStatus(b, status, expired)
      PROVE  LeaseRecord'
  BY <1>0, <1>3, CancelledRow, LeaseQuiet DEF BindingSetStatus
<1>4. ASSUME NEW c \in Content, EventAdmit(c)
      PROVE  LeaseRecord'
  <2>1. \A b \in Triggered(c) : b \in BindingId /\ binding[b].spec \in BindingSpec
    BY DEF Triggered, TypeOK, BindingRow, NoBinding
  <2> QED
    BY <1>0, <1>4, <2>1, CreatedRow, ActivationPair, LeaseQuiet DEF EventAdmit
<1>5. ASSUME NEW consumer \in Consumer, NEW expired, NEW a \in Activation,
             ActivationClaim(consumer, expired, a)
      PROVE  LeaseRecord'
  <2> DEFINE rows == Swept(expired)
  <2>1. /\ rows \in [Activation -> ActivationRow]
        /\ \A o \in Activation :
              \/ rows[o] = activation[o]
              \/ rows[o].status # "leased" /\ rows[o].owner = None /\ rows[o].token = 0
    BY <1>0, SweptRows, CancelledRow, RequeuedRow
  <2>2. /\ activation' = [rows EXCEPT ![a] = Leased(rows[a], consumer, leases + 1)]
        /\ leases' = leases + 1 /\ leases \in Nat
    BY <1>5 DEF ActivationClaim, TypeOK
  <2> HIDE DEF rows
  <2>3. /\ activation'[a].status = "leased"
        /\ activation'[a].owner = consumer
        /\ activation'[a].token = leases + 1
        /\ consumer # None
    BY <2>1, <2>2, LeasedRow, NoneAssumption
  <2>4. ASSUME NEW o \in Activation \ {a}
        PROVE  /\ activation'[o].status = "leased" <=> activation'[o].owner # None
               /\ activation'[o].status = "leased" <=> activation'[o].token # 0
               /\ activation'[o].token \in Nat /\ activation'[o].token <= leases
               /\ activation'[o].token \in {0, activation[o].token}
    BY <1>0, <2>1, <2>2 DEF LeaseRecord, ActivationRow
  <2>5. \A o, p \in Activation \ {a} :
            o # p /\ activation'[o].token = activation'[p].token => activation'[o].token = 0
    BY <1>0, <2>4 DEF LeaseRecord, ActivationRow
  <2> QED
    BY <2>2, <2>3, <2>4, <2>5 DEF LeaseRecord
<1>6. ASSUME NEW expired, ActivationClaimNothing(expired)
      PROVE  LeaseRecord'
  BY <1>0, <1>6, SweptRows, CancelledRow, RequeuedRow, LeaseQuiet
     DEF ActivationClaimNothing
<1>7. ASSUME NEW a \in Activation, NEW consumer, NEW token, NEW r \in RunId,
             NEW id \in ReceiptId, ActivationAdmitSop(a, consumer, token, r, id)
      PROVE  LeaseRecord'
  BY <1>0, <1>7, AdmittedRow, LeaseQuiet DEF ActivationAdmitSop, TypeOK
<1>8. ASSUME NEW a \in Activation, NEW consumer, NEW token, NEW retryable \in BOOLEAN,
             ActivationFail(a, consumer, token, retryable)
      PROVE  LeaseRecord'
  BY <1>0, <1>8, FailedRow, LeaseQuiet DEF ActivationFail, TypeOK
<1>9. ASSUME NEW a \in Activation, NEW outcome \in Outcome, NEW id \in ReceiptId,
             ActivationResolve(a, outcome, id)
      PROVE  LeaseRecord'
  BY <1>0, <1>9, ResolvedRow, LeaseQuiet DEF ActivationResolve, TypeOK
<1>10. ASSUME NEW a \in Activation, ActivationUnblock(a)
       PROVE  LeaseRecord'
  BY <1>0, <1>10, UnblockedRow, LeaseQuiet DEF ActivationUnblock, TypeOK
<1> QED
  BY <1>1, <1>2, <1>3, <1>4, <1>5, <1>6, <1>7, <1>8, <1>9, <1>10
     DEF Next, BindingNext, ClaimNext, HolderNext

\* An activation has an owner and a token exactly while it is leased, and no
\* two activations share a token: the three lease columns are written
\* together by every call, and a claim draws a new token.
THEOREM LeasesWhole == Spec => []LeaseRecord
<1>1. Init => LeaseRecord
  BY DEF Init, LeaseRecord, NoActivation
<1>2. TypeOK /\ LeaseRecord /\ [Next]_storeVars => LeaseRecord'
  BY LeaseStep
<1> QED
  BY <1>1, <1>2, TypeCorrect, PTL DEF Spec

-----------------------------------------------------------------------------
(* Runs, outcomes and receipts tell one story *)

\* A step that records no receipt keeps AuditTrail when each row keeps its run
\* and outcome and stays on its side of admission, or is cancelled before it.
LEMMA AuditQuiet ==
    ASSUME AuditTrail, receipt' = receipt,
           \A a \in Activation :
               /\ activation'[a].run = activation[a].run
               /\ \/ /\ activation'[a].status = activation[a].status
                     /\ activation'[a].outcome = activation[a].outcome
                  \/ /\ activation[a].status \notin {"admitted", "terminal"}
                     /\ activation'[a].status \notin {"admitted", "terminal"}
                     /\ activation'[a].outcome = activation[a].outcome
                  \/ /\ activation[a].status \notin {"admitted", "terminal"}
                     /\ activation'[a].status = "terminal"
                     /\ activation'[a].outcome = PausedOutcome
    PROVE  AuditTrail'
BY DEF AuditTrail

\* AuditTrail survives every call.
LEMMA AuditStep == ASSUME TypeOK, AuditTrail, [Next]_storeVars PROVE AuditTrail'
<1>0. \A a \in Activation : activation[a] \in ActivationRow
  BY DEF TypeOK
<1>1. CASE UNCHANGED storeVars
  BY <1>1, AuditQuiet DEF storeVars
<1>2. ASSUME NEW b \in BindingId, NEW spec \in BindingSpec, BindingUpsert(b, spec)
      PROVE  AuditTrail'
  BY <1>2, AuditQuiet DEF BindingUpsert
<1>3. ASSUME NEW b \in BindingId, NEW status \in BindingStatus,
             NEW expired, BindingSetStatus(b, status, expired)
      PROVE  AuditTrail'
  BY <1>0, <1>3, CancelledRow, AuditQuiet DEF BindingSetStatus, Quiesced, Holding
<1>4. ASSUME NEW c \in Content, EventAdmit(c)
      PROVE  AuditTrail'
  <2>1. \A b \in Triggered(c) :
            /\ b \in BindingId /\ binding[b].spec \in BindingSpec
            /\ activation[<<b, c.id>>].status = "absent"
    BY DEF Triggered, TypeOK, BindingRow, NoBinding
  <2>2. \A a \in Activation : a[1] \in Triggered(c) /\ a[2] = c.id =>
            /\ activation[a].status = "absent"
            /\ activation[a].run = None
            /\ activation[a].outcome = None
    BY <2>1 DEF AuditTrail, Activation
  <2> QED
    BY <1>0, <1>4, <2>1, <2>2, CreatedRow, ActivationPair, AuditQuiet DEF EventAdmit
<1>5. ASSUME NEW consumer \in Consumer, NEW expired, NEW a \in Activation,
             ActivationClaim(consumer, expired, a)
      PROVE  AuditTrail'
  <2> DEFINE rows == Swept(expired)
  <2>1. /\ rows \in [Activation -> ActivationRow]
        /\ \A o \in Activation :
              \/ rows[o] = activation[o]
              \/ /\ activation[o].status = "leased"
                 /\ \/ rows[o] = Cancelled(activation[o])
                    \/ rows[o] = Requeued(activation[o])
    BY SweptRows
  <2>2. /\ rows[a].status = "pending"
        /\ activation' = [rows EXCEPT ![a] = Leased(rows[a], consumer, leases + 1)]
        /\ leases + 1 \in Nat /\ receipt' = receipt
    BY <1>5 DEF ActivationClaim, Claimable, TypeOK
  <2> HIDE DEF rows
  <2>3. /\ activation'[a].status = "leased"
        /\ activation'[a].run = activation[a].run
        /\ activation'[a].outcome = activation[a].outcome
        /\ activation[a].status \notin {"admitted", "terminal"}
    BY <1>0, <2>1, <2>2, LeasedRow, RequeuedRow, CancelledRow
  <2>4. \A o \in Activation \ {a} : activation'[o] = rows[o]
    BY <2>1, <2>2
  <2> QED
    BY <1>0, <2>1, <2>2, <2>3, <2>4, CancelledRow, RequeuedRow, AuditQuiet
<1>6. ASSUME NEW expired, ActivationClaimNothing(expired)
      PROVE  AuditTrail'
  BY <1>0, <1>6, SweptRows, CancelledRow, RequeuedRow, AuditQuiet
     DEF ActivationClaimNothing
<1>7. ASSUME NEW a \in Activation, NEW consumer, NEW token, NEW r \in RunId,
             NEW id \in ReceiptId, ActivationAdmitSop(a, consumer, token, r, id)
      PROVE  AuditTrail'
  <2>1. /\ activation' = [activation EXCEPT ![a] = Admitted(@, r)]
        /\ activation[a].status = "leased"
        /\ \A other \in Activation \ {a} : activation[other].run # r
        /\ receipt' = [receipt EXCEPT ![a]["sop_admission"] = id]
        /\ receipt[a]["terminal"] = None
    BY <1>7 DEF ActivationAdmitSop, RequireLeased, RecordReceipt, AuditTrail
  <2>2. /\ activation'[a].status = "admitted"
        /\ activation'[a].run = r /\ r # None
        /\ activation'[a].outcome = None
        /\ receipt'[a]["sop_admission"] = id /\ id # None
        /\ receipt'[a]["terminal"] = None
    BY <1>0, <2>1, AdmittedRow, NoneAssumption DEF TypeOK, AuditTrail, ReceiptKind
  <2>3. \A o \in Activation \ {a} : activation'[o] = activation[o] /\ receipt'[o] = receipt[o]
    BY <2>1 DEF TypeOK
  <2> QED
    BY <2>1, <2>2, <2>3 DEF AuditTrail
<1>8. ASSUME NEW a \in Activation, NEW consumer, NEW token, NEW retryable \in BOOLEAN,
             ActivationFail(a, consumer, token, retryable)
      PROVE  AuditTrail'
  <2>1. PICK retry \in BOOLEAN : activation' = [activation EXCEPT ![a] = Failed(@, retry)]
    BY <1>8 DEF ActivationFail
  <2>2. /\ activation'[a].run = activation[a].run
        /\ activation'[a].outcome = activation[a].outcome
        /\ activation[a].status = "leased"
        /\ activation'[a].status \in {"pending", "blocked"}
    BY <1>0, <1>8, <2>1, FailedRow DEF ActivationFail, RequireLeased, TypeOK
  <2> QED
    BY <1>8, <2>1, <2>2, AuditQuiet DEF ActivationFail, TypeOK
<1>9. ASSUME NEW a \in Activation, NEW outcome \in Outcome, NEW id \in ReceiptId,
             ActivationResolve(a, outcome, id)
      PROVE  AuditTrail'
  <2>1. /\ activation' = [activation EXCEPT ![a] = Resolved(@, outcome)]
        /\ activation[a].status = "admitted"
        /\ receipt' = [receipt EXCEPT ![a]["terminal"] = id]
    BY <1>9 DEF ActivationResolve, RecordReceipt
  <2>2. /\ activation'[a].status = "terminal"
        /\ activation'[a].run = activation[a].run /\ activation[a].run # None
        /\ receipt'[a]["sop_admission"] = receipt[a]["sop_admission"]
        /\ receipt'[a]["terminal"] = id /\ id # None
    BY <1>0, <2>1, ResolvedRow, NoneAssumption DEF TypeOK, AuditTrail, ReceiptKind
  <2>3. \A o \in Activation \ {a} : activation'[o] = activation[o] /\ receipt'[o] = receipt[o]
    BY <2>1 DEF TypeOK
  <2>4. \A o \in Activation : activation'[o].run = activation[o].run
    BY <2>2, <2>3
  <2> QED
    BY <2>2, <2>3, <2>4 DEF AuditTrail
<1>10. ASSUME NEW a \in Activation, ActivationUnblock(a)
       PROVE  AuditTrail'
  BY <1>0, <1>10, UnblockedRow, AuditQuiet DEF ActivationUnblock, TypeOK
<1> QED
  BY <1>1, <1>2, <1>3, <1>4, <1>5, <1>6, <1>7, <1>8, <1>9, <1>10
     DEF Next, BindingNext, ClaimNext, HolderNext

\* Run, outcome and receipts of an activation agree, and a run belongs to one
\* activation, as scheduler_activation_admit_sop and _resolve record each
\* receipt with the row it is about.
THEOREM AuditTrailKept == Spec => []AuditTrail
<1>1. Init => AuditTrail
  BY DEF Init, AuditTrail, NoActivation, NoReceipt, ReceiptKind
<1>2. TypeOK /\ AuditTrail /\ [Next]_storeVars => AuditTrail'
  BY AuditStep
<1> QED
  BY <1>1, <1>2, TypeCorrect, PTL DEF Spec

-----------------------------------------------------------------------------
(* Every activation has its binding, its event and its lane *)

\* A step that removes no binding and no event, and touches only rows that
\* exist and keep their lane, keeps Provenance.
LEMMA ProvenanceQuiet ==
    ASSUME Provenance, event' = event,
           \A b \in BindingId : binding[b].status # "absent" => binding'[b].status # "absent",
           \A a \in Activation :
               \/ activation'[a] = activation[a]
               \/ /\ activation[a].status # "absent"
                  /\ activation'[a].status # "absent"
                  /\ activation'[a].partition = activation[a].partition
    PROVE  Provenance'
BY ActivationPair DEF Provenance

\* Provenance survives every call.
LEMMA ProvenanceStep == ASSUME TypeOK, Provenance, [Next]_storeVars PROVE Provenance'
<1>0. \A a \in Activation : activation[a] \in ActivationRow
  BY DEF TypeOK
<1>1. CASE UNCHANGED storeVars
  BY <1>1, ProvenanceQuiet DEF storeVars
<1>2. ASSUME NEW b \in BindingId, NEW spec \in BindingSpec, BindingUpsert(b, spec)
      PROVE  Provenance'
  BY <1>2, ProvenanceQuiet DEF BindingUpsert, Revised, TypeOK
<1>3. ASSUME NEW b \in BindingId, NEW status \in BindingStatus,
             NEW expired, BindingSetStatus(b, status, expired)
      PROVE  Provenance'
  <2>1. \A a \in Activation : activation'[a] # activation[a] =>
            activation[a].status # "absent" /\ activation'[a] = Cancelled(activation[a])
    BY <1>3 DEF BindingSetStatus, Quiesced, Holding, TypeOK
  <2>2. \A o \in BindingId : binding[o].status # "absent" => binding'[o].status # "absent"
    BY <1>3 DEF BindingSetStatus, BindingStatus, Revised, TypeOK
  <2> QED
    BY <1>0, <1>3, <2>1, <2>2, CancelledRow, ProvenanceQuiet DEF BindingSetStatus
<1>4. ASSUME NEW c \in Content, EventAdmit(c)
      PROVE  Provenance'
  <2>1. \A b \in Triggered(c) :
            /\ b \in BindingId /\ binding[b].spec \in BindingSpec
            /\ binding[b].status # "absent"
    BY DEF Triggered, TypeOK, BindingRow, NoBinding
  <2>2. c # None /\ \A p \in PartitionKey : p # None
    BY NoneAssumption
  <2>3. \A e \in EventId : (event[e] # None \/ e = c.id) => event'[e] # None
    BY <1>4, <2>2 DEF EventAdmit, TypeOK
  <2>4. ASSUME NEW a \in Activation, a[1] \in Triggered(c), a[2] = c.id
        PROVE  /\ activation'[a].status # "absent"
               /\ activation'[a].partition # None
               /\ event'[a[2]] # None
               /\ binding'[a[1]].status # "absent"
    <3>1. activation'[a] = Created(a[1], c) /\ binding' = binding
      BY <1>4, <2>4 DEF EventAdmit
    <3> QED
      BY <2>1, <2>2, <2>3, <2>4, <3>1, CreatedRow, ActivationPair
  <2>5. ASSUME NEW a \in Activation, ~(a[1] \in Triggered(c) /\ a[2] = c.id)
        PROVE  activation'[a] = activation[a] /\ binding' = binding
    BY <1>4, <2>5 DEF EventAdmit
  <2> QED
    BY <2>3, <2>4, <2>5, ActivationPair DEF Provenance
<1>5. ASSUME NEW consumer \in Consumer, NEW expired, NEW a \in Activation,
             ActivationClaim(consumer, expired, a)
      PROVE  Provenance'
  <2> DEFINE rows == Swept(expired)
  <2>1. /\ rows \in [Activation -> ActivationRow]
        /\ \A o \in Activation :
              \/ rows[o] = activation[o]
              \/ /\ activation[o].status # "absent"
                 /\ rows[o].status # "absent"
                 /\ rows[o].partition = activation[o].partition
    BY <1>0, SweptRows, CancelledRow, RequeuedRow
  <2>2. /\ rows[a].status = "pending"
        /\ activation' = [rows EXCEPT ![a] = Leased(rows[a], consumer, leases + 1)]
        /\ leases + 1 \in Nat /\ UNCHANGED <<binding, event>>
    BY <1>5 DEF ActivationClaim, Claimable, TypeOK
  <2> HIDE DEF rows
  <2> QED
    BY <2>1, <2>2, LeasedRow, ProvenanceQuiet
<1>6. ASSUME NEW expired, ActivationClaimNothing(expired)
      PROVE  Provenance'
  BY <1>0, <1>6, SweptRows, CancelledRow, RequeuedRow, ProvenanceQuiet
     DEF ActivationClaimNothing
<1>7. ASSUME NEW a \in Activation, NEW consumer, NEW token, NEW r \in RunId,
             NEW id \in ReceiptId, ActivationAdmitSop(a, consumer, token, r, id)
      PROVE  Provenance'
  BY <1>0, <1>7, AdmittedRow, ProvenanceQuiet
     DEF ActivationAdmitSop, RequireLeased, TypeOK
<1>8. ASSUME NEW a \in Activation, NEW consumer, NEW token, NEW retryable \in BOOLEAN,
             ActivationFail(a, consumer, token, retryable)
      PROVE  Provenance'
  <2>1. PICK retry \in BOOLEAN : activation' = [activation EXCEPT ![a] = Failed(@, retry)]
    BY <1>8 DEF ActivationFail
  <2>2. /\ activation'[a].partition = activation[a].partition
        /\ activation[a].status = "leased"
        /\ activation'[a].status \in {"pending", "blocked"}
    BY <1>0, <1>8, <2>1, FailedRow DEF ActivationFail, RequireLeased, TypeOK
  <2> QED
    BY <1>8, <2>1, <2>2, ProvenanceQuiet DEF ActivationFail, TypeOK
<1>9. ASSUME NEW a \in Activation, NEW outcome \in Outcome, NEW id \in ReceiptId,
             ActivationResolve(a, outcome, id)
      PROVE  Provenance'
  BY <1>0, <1>9, ResolvedRow, ProvenanceQuiet DEF ActivationResolve, TypeOK
<1>10. ASSUME NEW a \in Activation, ActivationUnblock(a)
       PROVE  Provenance'
  BY <1>0, <1>10, UnblockedRow, ProvenanceQuiet DEF ActivationUnblock, TypeOK
<1> QED
  BY <1>1, <1>2, <1>3, <1>4, <1>5, <1>6, <1>7, <1>8, <1>9, <1>10
     DEF Next, BindingNext, ClaimNext, HolderNext

\* An activation exists only for a configured binding and a recorded event,
\* and always in a lane: scheduler_event_admit creates it with all three, and
\* no call takes one of them away.
THEOREM ProvenanceKept == Spec => []Provenance
<1>1. Init => Provenance
  BY DEF Init, Provenance, NoActivation
<1>2. TypeOK /\ Provenance /\ [Next]_storeVars => Provenance'
  BY ProvenanceStep
<1> QED
  BY <1>1, <1>2, TypeCorrect, PTL DEF Spec

-----------------------------------------------------------------------------
(* What one call may do to a lease *)

\* The lease and the outcome of an activation after a call: as before, given
\* up, cancelled under a paused binding, resolved, or freshly granted under a
\* binding that is not paused.
LeaseMove(a) ==
    \/ /\ activation'[a].token = activation[a].token
       /\ activation'[a].outcome = activation[a].outcome
    \/ /\ activation'[a].token = 0
       /\ activation'[a].status # "leased"
       /\ activation'[a].outcome = activation[a].outcome
    \/ /\ activation'[a].token = 0
       /\ activation'[a].status # "leased"
       /\ activation[a].status # "admitted"
       /\ binding'[a[1]].status = "paused"
    \/ /\ activation'[a].token = activation[a].token
       /\ activation'[a].status # "leased"
       /\ activation'[a].outcome \in Outcome
    \/ /\ activation'[a].token = leases + 1
       /\ activation'[a].outcome = activation[a].outcome
       /\ binding[a[1]].status # "paused"

\* Every call moves every lease in one of these ways.
LEMMA LeaseMoves ==
    ASSUME TypeOK, AuditTrail, LeaseRecord, [Next]_storeVars, NEW o \in Activation
    PROVE  LeaseMove(o)
<1>0. /\ \A a \in Activation : activation[a] \in ActivationRow
      /\ \A a \in Activation : activation[a].status \in {"absent", "pending"} =>
             activation[a].token = 0 /\ activation[a].outcome = None
  BY DEF TypeOK, LeaseRecord, AuditTrail
<1>1. CASE UNCHANGED storeVars
  BY <1>1 DEF storeVars, LeaseMove
<1>2. ASSUME NEW b \in BindingId, NEW spec \in BindingSpec, BindingUpsert(b, spec)
      PROVE  LeaseMove(o)
  BY <1>2 DEF BindingUpsert, LeaseMove
<1>3. ASSUME NEW b \in BindingId, NEW status \in BindingStatus,
             NEW expired, BindingSetStatus(b, status, expired)
      PROVE  LeaseMove(o)
  <2>1. CASE activation'[o] = activation[o]
    BY <2>1 DEF LeaseMove
  <2>2. CASE activation'[o] # activation[o]
    <3>1. /\ activation'[o] = Cancelled(activation[o])
          /\ activation[o].status \in {"pending", "leased"}
          /\ o[1] = b /\ status = "paused"
      BY <1>3, <2>2 DEF BindingSetStatus, Quiesced, Holding, TypeOK
    <3>2. binding'[b].status = "paused"
      BY <1>3, <3>1 DEF BindingSetStatus, Revised, TypeOK
    <3> QED
      BY <1>0, <3>1, <3>2, CancelledRow DEF LeaseMove
  <2> QED
    BY <2>1, <2>2
<1>4. ASSUME NEW c \in Content, EventAdmit(c)
      PROVE  LeaseMove(o)
  <2>1. CASE o[1] \in Triggered(c) /\ o[2] = c.id
    <3>0. o = <<o[1], o[2]>>
      BY DEF Activation
    <3>1. /\ binding[o[1]].spec \in BindingSpec
          /\ activation[o].status = "absent"
      BY <2>1, <3>0 DEF Triggered, TypeOK, BindingRow, NoBinding
    <3>2. activation'[o] = Created(o[1], c)
      BY <1>4, <2>1 DEF EventAdmit
    <3> QED
      BY <1>0, <3>1, <3>2, CreatedRow, ActivationPair DEF LeaseMove
  <2>2. CASE ~(o[1] \in Triggered(c) /\ o[2] = c.id)
    BY <1>4, <2>2 DEF EventAdmit, LeaseMove
  <2> QED
    BY <2>1, <2>2
<1>5. ASSUME NEW consumer \in Consumer, NEW expired, NEW a \in Activation,
             ActivationClaim(consumer, expired, a)
      PROVE  LeaseMove(o)
  <2> DEFINE rows == Swept(expired)
  <2>1. /\ rows \in [Activation -> ActivationRow]
        /\ \/ rows[o] = activation[o]
           \/ /\ binding[o[1]].status = "paused"
              /\ activation[o].status = "leased"
              /\ rows[o] = Cancelled(activation[o])
           \/ rows[o] = Requeued(activation[o])
    BY SweptRows
  <2>2. /\ rows[a].status = "pending" /\ binding[a[1]].status # "paused"
        /\ activation' = [rows EXCEPT ![a] = Leased(rows[a], consumer, leases + 1)]
        /\ leases + 1 \in Nat /\ binding' = binding
    BY <1>5 DEF ActivationClaim, Claimable, TypeOK
  <2> HIDE DEF rows
  <2>3. CASE o = a
    BY <1>0, <2>1, <2>2, <2>3, LeasedRow, RequeuedRow, CancelledRow DEF LeaseMove
  <2>4. CASE o # a
    BY <1>0, <2>1, <2>2, <2>4, RequeuedRow, CancelledRow DEF LeaseMove
  <2> QED
    BY <2>3, <2>4
<1>6. ASSUME NEW expired, ActivationClaimNothing(expired)
      PROVE  LeaseMove(o)
  BY <1>0, <1>6, SweptRows, CancelledRow, RequeuedRow
     DEF ActivationClaimNothing, LeaseMove
<1>7. ASSUME NEW a \in Activation, NEW consumer, NEW token, NEW r \in RunId,
             NEW id \in ReceiptId, ActivationAdmitSop(a, consumer, token, r, id)
      PROVE  LeaseMove(o)
  BY <1>0, <1>7, AdmittedRow DEF ActivationAdmitSop, TypeOK, LeaseMove
<1>8. ASSUME NEW a \in Activation, NEW consumer, NEW token, NEW retryable \in BOOLEAN,
             ActivationFail(a, consumer, token, retryable)
      PROVE  LeaseMove(o)
  BY <1>0, <1>8, FailedRow DEF ActivationFail, TypeOK, LeaseMove
<1>9. ASSUME NEW a \in Activation, NEW outcome \in Outcome, NEW id \in ReceiptId,
             ActivationResolve(a, outcome, id)
      PROVE  LeaseMove(o)
  BY <1>0, <1>9, ResolvedRow DEF ActivationResolve, TypeOK, LeaseMove
<1>10. ASSUME NEW a \in Activation, ActivationUnblock(a)
       PROVE  LeaseMove(o)
  BY <1>0, <1>10, UnblockedRow DEF ActivationUnblock, TypeOK, LeaseMove
<1> QED
  BY <1>1, <1>2, <1>3, <1>4, <1>5, <1>6, <1>7, <1>8, <1>9, <1>10
     DEF Next, BindingNext, ClaimNext, HolderNext

\* No move of a lease brings an old token back.
LEMMA FencedStep ==
    ASSUME TypeOK, AuditTrail, LeaseRecord, [Next]_storeVars PROVE [TokenFenced]_storeVars
BY LeaseMoves DEF LeaseMove, TokenFenced, TypeOK

\* No move grants a lease, or cancels an activation, against a pause.
LEMMA PausedStep ==
    ASSUME TypeOK, AuditTrail, LeaseRecord, [Next]_storeVars PROVE [PauseGoverned]_storeVars
<1> SUFFICES ASSUME TypeOK, AuditTrail, LeaseRecord, [Next]_storeVars,
                    NEW a \in Activation
             PROVE  PauseGoverned!(a)
  BY DEF PauseGoverned
<1>1. LeaseMove(a)
  BY LeaseMoves
<1>2. activation[a].status # "terminal" => activation[a].outcome # PausedOutcome
  BY OutcomeAssumption DEF AuditTrail
<1> QED
  BY <1>1, <1>2, OutcomeAssumption DEF LeaseMove, LeaseRecord

\* A token that stopped being valid never becomes valid again, so
\* require_leased refuses a consumer that lost its lease for ever.
THEOREM TokensFenced == Spec => FencedTokens
BY FencedStep, TypeCorrect, AuditTrailKept, LeasesWhole, PTL DEF Spec, FencedTokens

\* Nothing is claimed under a paused binding, and an activation is cancelled
\* only under one: by scheduler_binding_set_status or by a claim's sweep.
THEOREM PauseRespected == Spec => PauseGoverns
BY PausedStep, TypeCorrect, AuditTrailKept, LeasesWhole, PTL DEF Spec, PauseGoverns

-----------------------------------------------------------------------------
(* The store keeps the promise of ActivationLanes *)


LEMMA Stages ==
    /\ StageOf("absent") = "absent"
    /\ StageOf("pending") = "waiting"
    /\ StageOf("blocked") = "waiting"
    /\ StageOf("leased") = "held"
    /\ StageOf("admitted") = "committed"
    /\ StageOf("terminal") = "done"
BY DEF StageOf

\* The stages after a sweep are those of the abstract recovery: the swept
\* leases of paused bindings are withdrawn, the others dropped.
LEMMA SweptStages ==
    ASSUME TypeOK, NEW expired
    PROVE  LET withdrawn == {a \in Holding \cap expired : binding[a[1]].status = "paused"}
               dropped == {a \in Holding \cap expired : binding[a[1]].status # "paused"}
           IN  /\ withdrawn \in SUBSET Lanes!Holder /\ dropped \in SUBSET Lanes!Holder
               /\ Lanes!Recovered(dropped, withdrawn)
                     = [a \in Activation |-> StageOf(Swept(expired)[a].status)]
               /\ \A a \in Activation :
                     /\ Swept(expired)[a].partition = activation[a].partition
                     /\ Swept(expired)[a].run = activation[a].run
                     /\ Swept(expired)[a].status = "absent" <=> activation[a].status = "absent"
<1> DEFINE withdrawn == {a \in Holding \cap expired : binding[a[1]].status = "paused"}
           dropped == {a \in Holding \cap expired : binding[a[1]].status # "paused"}
<1>0. \A a \in Activation : activation[a] \in ActivationRow
  BY DEF TypeOK
<1>1. withdrawn \in SUBSET Lanes!Holder /\ dropped \in SUBSET Lanes!Holder
  BY Stages DEF Lanes!Holder, Holding
<1>2. ASSUME NEW a \in Activation
      PROVE  StageOf(Swept(expired)[a].status) =
                 IF a \in withdrawn THEN "done"
                 ELSE IF a \in dropped THEN "waiting"
                 ELSE StageOf(activation[a].status)
  BY <1>0, Stages, CancelledRow, RequeuedRow DEF Swept, Holding
<1>3. Lanes!Recovered(dropped, withdrawn)
         = [a \in Activation |-> StageOf(Swept(expired)[a].status)]
  BY <1>2 DEF Lanes!Recovered
<1>4. \A a \in Activation :
         /\ Swept(expired)[a].partition = activation[a].partition
         /\ Swept(expired)[a].run = activation[a].run
         /\ Swept(expired)[a].status = "absent" <=> activation[a].status = "absent"
  BY <1>0, SweptRows, CancelledRow, RequeuedRow
<1> QED
  BY <1>1, <1>3, <1>4

\* Every call is a step of ActivationLanes or changes nothing it speaks of.
LEMMA LanesStep ==
    ASSUME TypeOK, Provenance, AuditTrail, [Next]_storeVars
    PROVE  [Lanes!Next]_(Lanes!vars)
<1>0. \A a \in Activation : activation[a] \in ActivationRow
  BY DEF TypeOK
<1>1. CASE UNCHANGED storeVars
  BY <1>1 DEF storeVars, Lanes!vars, LaneOf
<1>2. ASSUME NEW b \in BindingId, NEW spec \in BindingSpec, BindingUpsert(b, spec)
      PROVE  UNCHANGED Lanes!vars
  BY <1>2 DEF BindingUpsert, Lanes!vars, LaneOf
<1>3. ASSUME NEW b \in BindingId, NEW status \in BindingStatus,
             NEW expired, BindingSetStatus(b, status, expired)
      PROVE  [Lanes!Next]_(Lanes!vars)
  <2>1. CASE status # "paused"
    BY <1>3, <2>1 DEF BindingSetStatus, Lanes!vars, LaneOf
  <2>2. CASE status = "paused"
    <3> DEFINE gone == Quiesced(b, expired)
    <3>1. /\ \A a \in gone : a \in Activation /\ activation[a].status \in {"pending", "leased"}
          /\ \A a \in Activation :
                activation'[a] = IF a \in gone THEN Cancelled(activation[a]) ELSE activation[a]
      BY <1>3, <2>2 DEF BindingSetStatus, Quiesced, Holding
    <3> HIDE DEF gone
    <3>2. \A a \in Activation :
              /\ StageOf(activation'[a].status) =
                     IF a \in gone THEN "done" ELSE StageOf(activation[a].status)
              /\ activation'[a].run = activation[a].run
              /\ LaneOf(a)' = LaneOf(a)
      BY <1>0, <3>1, CancelledRow, Stages DEF LaneOf
    <3>3. gone \in SUBSET Activation
      BY <3>1
    <3>4. Lanes!Withdraw(gone)
      BY <3>1, <3>2, <3>3, Stages DEF Lanes!Withdraw
    <3> QED
      BY <3>3, <3>4 DEF Lanes!Next
  <2> QED
    BY <2>1, <2>2
<1>4. ASSUME NEW c \in Content, EventAdmit(c)
      PROVE  Lanes!Next
  <2> DEFINE new == {a \in Activation : a[1] \in Triggered(c) /\ a[2] = c.id}
  <2>1. \A a \in new : /\ activation[a].status = "absent"
                       /\ binding[a[1]].spec \in BindingSpec
    BY DEF Triggered, TypeOK, BindingRow, NoBinding, Activation
  <2>2. \A a \in Activation :
            activation'[a] = IF a \in new THEN Created(a[1], c) ELSE activation[a]
    BY <1>4 DEF EventAdmit
  <2>3. ASSUME NEW a \in new
        PROVE  /\ activation[a].run = None
               /\ activation'[a].run = None
               /\ StageOf(activation[a].status) = "absent"
               /\ StageOf(activation'[a].status) = "waiting"
               /\ LaneOf(a)' \in BindingId \X PartitionKey
    BY <2>1, <2>2, CreatedRow, ActivationPair, Stages DEF AuditTrail, LaneOf
  <2>4. ASSUME NEW a \in Activation \ new
        PROVE  /\ activation'[a] = activation[a]
               /\ LaneOf(a)' = LaneOf(a)
               /\ LaneOf(a) \in (BindingId \X PartitionKey) \cup {None}
    BY <1>0, <2>2, ActivationPair DEF LaneOf, Provenance, ActivationRow
  <2> HIDE DEF new
  <2>5. new \in SUBSET Activation
    BY DEF new
  <2>6. Lanes!Submit(new)
    BY <2>3, <2>4, <2>5 DEF Lanes!Submit
  <2> QED
    BY <2>5, <2>6 DEF Lanes!Next
<1>5. ASSUME NEW consumer \in Consumer, NEW expired, NEW a \in Activation,
             ActivationClaim(consumer, expired, a)
      PROVE  Lanes!Next
  <2> DEFINE withdrawn == {o \in Holding \cap expired : binding[o[1]].status = "paused"}
             dropped == {o \in Holding \cap expired : binding[o[1]].status # "paused"}
             rows == Swept(expired)
  <2>1. /\ withdrawn \in SUBSET Lanes!Holder /\ dropped \in SUBSET Lanes!Holder
        /\ Lanes!Recovered(dropped, withdrawn)
              = [o \in Activation |-> StageOf(rows[o].status)]
        /\ \A o \in Activation :
              /\ rows[o].partition = activation[o].partition
              /\ rows[o].run = activation[o].run
              /\ rows[o].status = "absent" <=> activation[o].status = "absent"
    BY SweptStages
  <2>2. rows \in [Activation -> ActivationRow]
    BY SweptRows
  <2>3. /\ a \in Claimable(rows)
        /\ activation' = [rows EXCEPT ![a] = Leased(rows[a], consumer, leases + 1)]
        /\ leases + 1 \in Nat
    BY <1>5 DEF ActivationClaim, TypeOK
  <2> HIDE DEF rows, withdrawn, dropped
  <2>4. /\ StageOf(rows[a].status) = "waiting"
        /\ StageOf(activation'[a].status) = "held"
        /\ activation[a].status # "absent"
        /\ activation'[a].run = activation[a].run
        /\ LaneOf(a)' = LaneOf(a)
        /\ LaneOf(a) = <<a[1], activation[a].partition>>
    <3>1. rows[a].status = "pending" /\ rows[a].status # "absent"
      BY <2>3 DEF Claimable
    <3>2. /\ activation'[a].status = "leased"
          /\ activation'[a].run = rows[a].run
          /\ activation'[a].partition = rows[a].partition
      BY <2>2, <2>3, LeasedRow
    <3> QED
      BY <2>1, <3>1, <3>2, Stages DEF LaneOf
  <2>5. ASSUME NEW o \in Activation \ {a}
        PROVE  /\ activation'[o] = rows[o]
               /\ activation'[o].run = activation[o].run
               /\ LaneOf(o)' = LaneOf(o)
               /\ LaneOf(o) = LaneOf(a) => StageOf(rows[o].status) \notin {"held", "committed"}
    <3>1. activation'[o] = rows[o]
      BY <2>2, <2>3
    <3>2. LaneOf(o)' = LaneOf(o)
      BY <2>1, <3>1 DEF LaneOf
    <3>3. ASSUME LaneOf(o) = LaneOf(a)
          PROVE  StageOf(rows[o].status) \notin {"held", "committed"}
      <4>1. CASE activation[o].status = "absent"
        BY <2>1, <4>1, Stages
      <4>2. CASE activation[o].status # "absent"
        <5>1. SameLane(a, o)
          BY <2>4, <3>3, <4>2 DEF LaneOf, SameLane
        <5>2. rows[o].status \notin InFlight /\ rows[o].status \in ActivationStatus
          BY <2>2, <2>3, <5>1 DEF Claimable, ActivationRow
        <5> QED
          BY <5>2, Stages DEF InFlight, ActivationStatus
      <4> QED
        BY <4>1, <4>2
    <3> QED
      BY <2>1, <3>1, <3>2, <3>3
  <2>6. Lanes!Take(a, dropped, withdrawn)
    BY <2>1, <2>4, <2>5 DEF Lanes!Take, Lanes!Busy
  <2> QED
    BY <2>1, <2>6 DEF Lanes!Next
<1>6. ASSUME NEW expired, ActivationClaimNothing(expired)
      PROVE  Lanes!Next
  <2> DEFINE withdrawn == {o \in Holding \cap expired : binding[o[1]].status = "paused"}
             dropped == {o \in Holding \cap expired : binding[o[1]].status # "paused"}
  <2>1. Lanes!Recover(dropped, withdrawn)
    BY <1>6, SweptStages DEF ActivationClaimNothing, Lanes!Recover, LaneOf
  <2> QED
    BY <2>1, SweptStages DEF Lanes!Next
<1>7. ASSUME NEW a \in Activation, NEW consumer, NEW token, NEW r \in RunId,
             NEW id \in ReceiptId, ActivationAdmitSop(a, consumer, token, r, id)
      PROVE  Lanes!Next
  <2>1. /\ activation[a].status = "leased"
        /\ activation' = [activation EXCEPT ![a] = Admitted(@, r)]
        /\ \A o \in Activation : activation[o].run # r
    BY <1>7, NoneAssumption DEF ActivationAdmitSop, RequireLeased, AuditTrail
  <2>2. /\ StageOf(activation[a].status) = "held"
        /\ StageOf(activation'[a].status) = "committed"
        /\ activation'[a].run = r
        /\ LaneOf(a)' = LaneOf(a)
    BY <1>0, <2>1, AdmittedRow, Stages DEF TypeOK, LaneOf
  <2>3. \A o \in Activation \ {a} : activation'[o] = activation[o] /\ LaneOf(o)' = LaneOf(o)
    BY <2>1 DEF TypeOK, LaneOf
  <2>4. \A o \in Activation :
           /\ activation'[o].run = IF o = a THEN r ELSE activation[o].run
           /\ StageOf(activation'[o].status)
                 = IF o = a THEN "committed" ELSE StageOf(activation[o].status)
           /\ LaneOf(o)' = LaneOf(o)
    BY <2>2, <2>3
  <2>5. Lanes!Commit(a, r)
    BY <2>1, <2>2, <2>4 DEF Lanes!Commit
  <2> QED
    BY <2>5 DEF Lanes!Next
<1>8. ASSUME NEW a \in Activation, NEW consumer, NEW token, NEW retryable \in BOOLEAN,
             ActivationFail(a, consumer, token, retryable)
      PROVE  Lanes!Next
  <2>1. PICK retry \in BOOLEAN : activation' = [activation EXCEPT ![a] = Failed(@, retry)]
    BY <1>8 DEF ActivationFail
  <2>2. /\ activation[a].status = "leased"
        /\ activation'[a].status \in {"pending", "blocked"}
        /\ activation'[a].run = activation[a].run
        /\ activation'[a].partition = activation[a].partition
    BY <1>0, <1>8, <2>1, FailedRow DEF ActivationFail, RequireLeased, TypeOK
  <2>3. /\ StageOf(activation[a].status) = "held"
        /\ StageOf(activation'[a].status) = "waiting"
        /\ LaneOf(a)' = LaneOf(a)
    BY <2>2, Stages DEF LaneOf
  <2>4. \A o \in Activation \ {a} : activation'[o] = activation[o] /\ LaneOf(o)' = LaneOf(o)
    BY <2>1 DEF TypeOK, LaneOf
  <2>5. Lanes!Release(a)
    BY <2>2, <2>3, <2>4 DEF Lanes!Release
  <2> QED
    BY <2>5 DEF Lanes!Next
<1>9. ASSUME NEW a \in Activation, NEW outcome \in Outcome, NEW id \in ReceiptId,
             ActivationResolve(a, outcome, id)
      PROVE  Lanes!Next
  <2>1. /\ activation[a].status = "admitted"
        /\ activation' = [activation EXCEPT ![a] = Resolved(@, outcome)]
    BY <1>9 DEF ActivationResolve
  <2>2. /\ StageOf(activation[a].status) = "committed"
        /\ StageOf(activation'[a].status) = "done"
        /\ activation'[a].run = activation[a].run
        /\ LaneOf(a)' = LaneOf(a)
    BY <1>0, <2>1, ResolvedRow, Stages DEF TypeOK, LaneOf
  <2>3. \A o \in Activation \ {a} : activation'[o] = activation[o] /\ LaneOf(o)' = LaneOf(o)
    BY <2>1 DEF TypeOK, LaneOf
  <2>4. Lanes!Finish(a)
    BY <2>2, <2>3 DEF Lanes!Finish
  <2> QED
    BY <2>4 DEF Lanes!Next
<1>10. ASSUME NEW a \in Activation, ActivationUnblock(a)
       PROVE  UNCHANGED Lanes!vars
  <2>1. /\ activation[a].status = "blocked"
        /\ activation' = [activation EXCEPT ![a] = Unblocked(@)]
    BY <1>10 DEF ActivationUnblock
  <2>2. /\ StageOf(activation'[a].status) = StageOf(activation[a].status)
        /\ activation'[a].run = activation[a].run
        /\ LaneOf(a)' = LaneOf(a)
    BY <1>0, <2>1, UnblockedRow, Stages DEF TypeOK, LaneOf
  <2>3. \A o \in Activation \ {a} : activation'[o] = activation[o] /\ LaneOf(o)' = LaneOf(o)
    BY <2>1 DEF TypeOK, LaneOf
  <2> QED
    BY <2>2, <2>3 DEF Lanes!vars
<1> QED
  BY <1>1, <1>2, <1>3, <1>4, <1>5, <1>6, <1>7, <1>8, <1>9, <1>10
     DEF Next, BindingNext, ClaimNext, HolderNext

\* The store implements ActivationLanes: every tool call maps to one of its
\* steps, a claim with its sweeps to one Take, a pause to one Withdraw.
THEOREM StoreImplementsLanes == Spec => ImplementsLanes
<1>1. Init => Lanes!Init
  BY Stages DEF Init, Lanes!Init, NoActivation, LaneOf
<1>2. TypeOK /\ Provenance /\ AuditTrail /\ [Next]_storeVars => [Lanes!Next]_(Lanes!vars)
  BY LanesStep
<1> QED
  BY <1>1, <1>2, TypeCorrect, ProvenanceKept, AuditTrailKept, PTL
     DEF Spec, ImplementsLanes, Lanes!Spec


\* The promise of the activation store: from scheduler_activation_claim to
\* scheduler_activation_resolve a lane is held by one activation, and
\* scheduler_activation_admit_sop never commits two to one run.
THEOREM LanesPromise == Lanes!Spec => [](Lanes!Exclusive /\ Lanes!RunsDistinct)
<1> DEFINE Promised == Lanes!Typed /\ Lanes!Exclusive /\ Lanes!RunsDistinct
<1>1. Lanes!Init => Promised
  BY DEF Lanes!Init, Lanes!Typed, Lanes!Stage, Lanes!Exclusive, Lanes!RunsDistinct, Lanes!Busy
<1>2. Promised /\ [Lanes!Next]_(Lanes!vars) => Promised'
  <2> SUFFICES ASSUME Promised, [Lanes!Next]_(Lanes!vars) PROVE Promised'
    OBVIOUS
  <2> USE DEF Lanes!Typed, Lanes!Stage, Lanes!Exclusive, Lanes!RunsDistinct, Lanes!Busy
  <2>1. CASE UNCHANGED Lanes!vars
    BY <2>1 DEF Lanes!vars
  <2>2. ASSUME NEW new \in SUBSET Activation, Lanes!Submit(new) PROVE Promised'
    BY <2>2 DEF Lanes!Submit
  <2>3. ASSUME NEW dropped \in SUBSET Lanes!Holder, NEW withdrawn \in SUBSET Lanes!Holder,
               Lanes!Recover(dropped, withdrawn)
        PROVE  Promised'
    BY <2>3 DEF Lanes!Recover, Lanes!Recovered
  <2>4. ASSUME NEW dropped \in SUBSET Lanes!Holder, NEW withdrawn \in SUBSET Lanes!Holder,
               NEW a \in Activation, Lanes!Take(a, dropped, withdrawn)
        PROVE  Promised'
    <3> DEFINE now == Lanes!Recovered(dropped, withdrawn)
    <3>1. /\ now \in [Activation -> Lanes!Stage]
          /\ \A o \in Activation : now[o] \in Lanes!Busy => StageOf(activation[o].status) \in Lanes!Busy
      BY DEF Lanes!Recovered, Lanes!Holder
    <3>2. /\ \A o \in Activation \ {a} :
                 LaneOf(o) = LaneOf(a) => now[o] \notin Lanes!Busy
          /\ [o \in Activation |-> StageOf(activation'[o].status)] = [now EXCEPT ![a] = "held"]
          /\ \A o \in Activation : activation'[o].run = activation[o].run
          /\ \A o \in Activation : LaneOf(o)' = LaneOf(o)
      BY <2>4 DEF Lanes!Take
    <3> HIDE DEF now
    <3>3. \A o \in Activation :
              StageOf(activation'[o].status) = IF o = a THEN "held" ELSE now[o]
      BY <3>1, <3>2
    <3>4. Lanes!Typed'
      BY <3>1, <3>2, <3>3
    <3>5. Lanes!Exclusive'
      BY <3>1, <3>2, <3>3
    <3>6. Lanes!RunsDistinct'
      BY <3>2
    <3> QED
      BY <3>4, <3>5, <3>6
  <2>5. ASSUME NEW a \in Activation, Lanes!Release(a) \/ Lanes!Finish(a) PROVE Promised'
    <3>1. Lanes!Typed'
      BY <2>5 DEF Lanes!Release, Lanes!Finish
    <3>2. Lanes!Exclusive'
      BY <2>5 DEF Lanes!Release, Lanes!Finish
    <3>3. Lanes!RunsDistinct'
      BY <2>5 DEF Lanes!Release, Lanes!Finish
    <3> QED
      BY <3>1, <3>2, <3>3
  <2>6. ASSUME NEW a \in Activation, NEW r \in RunId, Lanes!Commit(a, r) PROVE Promised'
    <3>1. /\ StageOf(activation[a].status) = "held"
          /\ \A o \in Activation : activation[o].run # r
          /\ \A o \in Activation : StageOf(activation'[o].status) =
                 IF o = a THEN "committed" ELSE StageOf(activation[o].status)
          /\ \A o \in Activation :
                 activation'[o].run = IF o = a THEN r ELSE activation[o].run
          /\ \A o \in Activation : LaneOf(o)' = LaneOf(o)
      BY <2>6 DEF Lanes!Commit
    <3>2. Lanes!Typed'
      BY <3>1
    <3>3. Lanes!Exclusive'
      BY <3>1
    <3>4. Lanes!RunsDistinct'
      BY <3>1
    <3> QED
      BY <3>2, <3>3, <3>4
  <2>7. ASSUME NEW gone \in SUBSET Activation, Lanes!Withdraw(gone) PROVE Promised'
    <3>1. Lanes!Typed'
      BY <2>7 DEF Lanes!Withdraw
    <3>2. Lanes!Exclusive'
      BY <2>7 DEF Lanes!Withdraw
    <3>3. Lanes!RunsDistinct'
      BY <2>7 DEF Lanes!Withdraw
    <3> QED
      BY <3>1, <3>2, <3>3
  <2> QED
    BY <2>1, <2>2, <2>3, <2>4, <2>5, <2>6, <2>7 DEF Lanes!Next
<1> QED
  BY <1>1, <1>2, PTL DEF Lanes!Spec
=============================================================================
