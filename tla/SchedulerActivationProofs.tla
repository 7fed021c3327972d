---------------------- MODULE SchedulerActivationProofs ----------------------
(***************************************************************************)
(* With its clock the store is still the store, so every theorem of        *)
(* ActivationStoreProofs holds of it; and what its clock is for: nothing   *)
(* in flight before it is due, and no good lease taken away.               *)
(***************************************************************************)
EXTENDS SchedulerActivation, ActivationStoreProofs

\* The leases a call sees expired are leases.
LEMMA ExpiredHeld == \A now : Expired(now) \in SUBSET Holding
BY DEF Expired

\* Every timed call is a call of the store, with the leases its reading of
\* the clock finds expired.
LEMMA TimedStep == [TimedNext]_timedVars => [Next]_storeVars
<1> SUFFICES ASSUME [TimedNext]_timedVars PROVE [Next]_storeVars
  OBVIOUS
<1>1. CASE UNCHANGED timedVars
  BY <1>1 DEF timedVars, storeVars
<1>2. ASSUME NEW b \in BindingId, NEW spec \in BindingSpec, BindingUpsertNow(b, spec)
      PROVE  Next
  BY <1>2 DEF BindingUpsertNow, Next, BindingNext
<1>3. ASSUME NEW b \in BindingId, NEW status \in BindingStatus, BindingSetStatusNow(b, status)
      PROVE  Next
  BY <1>3, ExpiredHeld DEF BindingSetStatusNow, Next, BindingNext
<1>4. ASSUME NEW c \in Content, EventAdmitNow(c)
      PROVE  Next
  BY <1>4 DEF EventAdmitNow, Next
<1>5. ASSUME NEW consumer \in Consumer, NEW length \in LeaseLength,
             ActivationClaimNow(consumer, length)
      PROVE  Next
  <2>1. PICK now \in Reading :
            \/ \E a \in Earliest(now) : ActivationClaim(consumer, Expired(now), a)
            \/ ActivationClaimNothing(Expired(now))
    BY <1>5 DEF ActivationClaimNow
  <2>2. Expired(now) \in SUBSET Holding /\ Earliest(now) \subseteq Activation
    BY ExpiredHeld DEF Earliest, Ready, Claimable
  <2>3. ClaimNext
    BY <2>1, <2>2 DEF ClaimNext
  <2> QED
    BY <2>3 DEF Next
<1>6. ASSUME NEW a \in Activation, NEW consumer \in Consumer, NEW token \in 1..MaxLeases,
             NEW r \in RunId, NEW id \in ReceiptId,
             ActivationAdmitSopNow(a, consumer, token, r, id)
      PROVE  Next
  BY <1>6 DEF ActivationAdmitSopNow, Next, HolderNext
<1>7. ASSUME NEW a \in Activation, NEW consumer \in Consumer, NEW token \in 1..MaxLeases,
             NEW retryable \in BOOLEAN, ActivationFailNow(a, consumer, token, retryable)
      PROVE  Next
  BY <1>7 DEF ActivationFailNow, Next, HolderNext
<1>8. ASSUME NEW a \in Activation, NEW outcome \in Outcome, NEW id \in ReceiptId,
             ActivationResolveNow(a, outcome, id)
      PROVE  Next
  BY <1>8 DEF ActivationResolveNow, Next
<1>9. ASSUME NEW a \in Activation, NEW at, ActivationUnblockNow(a, at)
      PROVE  Next
  BY <1>9 DEF ActivationUnblockNow, Next
<1>10. CASE Tick
  BY <1>10 DEF Tick, storeVars
<1> QED
  BY <1>1, <1>2, <1>3, <1>4, <1>5, <1>6, <1>7, <1>8, <1>9, <1>10 DEF TimedNext

\* Each timed call is written as a call of the store with a set of expired
\* leases, so what is proved of the store holds of it with its clock.
LEMMA TimedImplementsStore == TimedSpec => Spec
<1>1. TimedInit => Init
  BY DEF TimedInit
<1> QED
  BY <1>1, TimedStep, PTL DEF TimedSpec, Spec

\* Lanes stay exclusive whatever the clock does, and however old the reading
\* is that scheduler_activation_claim sweeps with.
THEOREM TimedLanesExclusive == TimedSpec => []LaneExclusive
BY TimedImplementsStore, LanesExclusive, PTL

-----------------------------------------------------------------------------
(* Types *)

\* The backoff of a binding is a time.
LEMMA BackoffType ==
    ASSUME NEW timing \in Timing, NEW attempt \in Nat
    PROVE  Backoff(timing, attempt) \in Int
<1> DEFINE exponent == IF attempt < 1 THEN 0 ELSE Smaller(attempt - 1, 30)
<1>1. exponent \in Nat
  BY DEF Smaller
<1>2. Backoff(timing, attempt) = Smaller(timing.base * 2^exponent, timing.cap)
  BY DEF Backoff
<1> HIDE DEF exponent
<1>3. 2^exponent \in Int
  BY <1>1
<1>4. timing.base \in Int /\ timing.cap \in Int
  BY TimingAssumption
<1>5. timing.base * 2^exponent \in Int
  BY <1>3, <1>4
<1> QED
  BY <1>2, <1>4, <1>5 DEF Smaller

\* So is the delay of an event.
LEMMA DelayType ==
    ASSUME NEW timing \in Timing, NEW c \in ContentType
    PROVE  c.data.occurred + DelayFor(timing, c) \in Int
<1>1. c.data.occurred \in Nat /\ c.data.attempt \in Nat /\ c.outcome \in EventOutcome
  BY DataAssumption DEF ContentType
<1>2. Backoff(timing, c.data.attempt) \in Int /\ timing.delay[c.outcome] \in Nat
  BY <1>1, BackoffType, TimingAssumption
<1>3. DelayFor(timing, c) \in Int
  BY <1>2 DEF DelayFor
<1> QED
  BY <1>1, <1>3

\* The timing of a configured binding.
LEMMA TimingType ==
    ASSUME TypeOK, NEW b \in BindingId, binding[b].status # "absent"
    PROVE  binding[b].spec.timing \in Timing
BY SpecAssumption DEF TypeOK, BindingRow, NoBinding, SpecType

\* The typing of the clock, the due times and the expiries is kept.
LEMMA TimedTypeStep ==
    ASSUME TimedTypeOK, Provenance, [TimedNext]_timedVars PROVE TimedTypeOK'
<1>0. TypeOK'
  BY TimedStep, TypeStep DEF TimedTypeOK
<1> USE <1>0 DEF TimedTypeOK
<1>a. ClearExpires => expires' \in [Activation -> Nat]
  BY DEF ClearExpires
<1>1. CASE UNCHANGED timedVars
  BY <1>1 DEF timedVars
<1>2. ASSUME NEW b \in BindingId, NEW spec \in BindingSpec, BindingUpsertNow(b, spec)
      PROVE  TimedTypeOK'
  BY <1>2 DEF BindingUpsertNow
<1>3. ASSUME NEW b \in BindingId, NEW status \in BindingStatus, BindingSetStatusNow(b, status)
      PROVE  TimedTypeOK'
  BY <1>a, <1>3 DEF BindingSetStatusNow
<1>4. ASSUME NEW c \in Content, EventAdmitNow(c)
      PROVE  TimedTypeOK'
  <2>1. \A b \in Triggered(c) : c.data.occurred + DelayFor(binding[b].spec.timing, c) \in Int
    BY ContentAssumption, TimingType, DelayType DEF Triggered
  <2>2. due' \in [Activation -> Int]
    BY <1>4, <2>1 DEF EventAdmitNow
  <2> QED
    BY <1>4, <2>2 DEF EventAdmitNow
<1>5. ASSUME NEW consumer \in Consumer, NEW length \in LeaseLength,
             ActivationClaimNow(consumer, length)
      PROVE  TimedTypeOK'
  <2>1. PICK now \in Reading :
            \/ /\ expires' \in [Activation -> {LeaseUntil(now, length), 0} \cup Nat]
               /\ UNCHANGED <<clock, due>>
            \/ ClearExpires /\ UNCHANGED <<clock, due>>
    <3>1. PICK now \in Reading :
              \/ \E a \in Earliest(now) :
                    /\ expires' = [o \in Activation |->
                                      IF o = a THEN LeaseUntil(now, length)
                                      ELSE IF o \in Expired(now) THEN 0
                                      ELSE expires[o]]
                    /\ UNCHANGED <<clock, due>>
              \/ ClearExpires /\ UNCHANGED <<clock, due>>
      BY <1>5 DEF ActivationClaimNow
    <3> QED
      BY <3>1
  <2>2. now + length \in Nat
    BY ClockAssumption DEF Reading
  <2> QED
    BY <1>a, <2>1, <2>2 DEF LeaseUntil
<1>6. ASSUME NEW a \in Activation, NEW consumer, NEW token, NEW r, NEW id,
             ActivationAdmitSopNow(a, consumer, token, r, id)
      PROVE  TimedTypeOK'
  BY <1>a, <1>6 DEF ActivationAdmitSopNow
<1>7. ASSUME NEW a \in Activation, NEW consumer, NEW token, NEW retryable,
             ActivationFailNow(a, consumer, token, retryable)
      PROVE  TimedTypeOK'
  <2>1. activation[a].attempts + 1 \in Nat
    BY DEF TypeOK, ActivationRow
  <2>2. binding[a[1]].spec.timing \in Timing
    BY <1>7, TimingType, ActivationPair
       DEF Provenance, ActivationFailNow, ActivationFail, RequireLeased
  <2>3. PICK now \in Reading :
            due' = [due EXCEPT ![a] =
                       now + Backoff(binding[a[1]].spec.timing, activation[a].attempts + 1)]
    BY <1>7 DEF ActivationFailNow
  <2>4. now + Backoff(binding[a[1]].spec.timing, activation[a].attempts + 1) \in Int
    BY <2>1, <2>2, BackoffType DEF Reading
  <2> QED
    BY <1>a, <1>7, <2>3, <2>4 DEF ActivationFailNow
<1>8. ASSUME NEW a \in Activation, NEW outcome, NEW id, ActivationResolveNow(a, outcome, id)
      PROVE  TimedTypeOK'
  BY <1>8 DEF ActivationResolveNow
<1>9. ASSUME NEW a \in Activation, NEW at \in 0..MaxClock, ActivationUnblockNow(a, at)
      PROVE  TimedTypeOK'
  BY <1>9 DEF ActivationUnblockNow
<1>10. CASE Tick
  BY <1>10 DEF Tick
<1> QED
  BY <1>1, <1>2, <1>3, <1>4, <1>5, <1>6, <1>7, <1>8, <1>9, <1>10 DEF TimedNext

\* Clock, due_at and lease_expires_at have their types: the delay of an event
\* and the backoff of a failure are always numbers.
THEOREM TimedTypeCorrect == TimedSpec => []TimedTypeOK
<1>1. TimedInit => TimedTypeOK
  BY NoRow DEF TimedInit, TimedTypeOK, Init, TypeOK, BindingRow, NoBinding, NoReceipt
<1>2. TimedTypeOK /\ Provenance /\ [TimedNext]_timedVars => TimedTypeOK'
  BY TimedTypeStep
<1>3. TimedSpec => []Provenance
  BY TimedImplementsStore, ProvenanceKept, PTL
<1> QED
  BY <1>1, <1>2, <1>3, PTL DEF TimedSpec

-----------------------------------------------------------------------------
(* Due times *)

\* A call that leaves the due times alone and takes nothing in flight starts
\* nothing early.
LEMMA EarlyQuiet ==
    ASSUME NotEarly, clock \in Nat, clock' \in Nat, clock <= clock',
           due \in [Activation -> Int],
           \A o \in Activation : activation'[o].status \in InFlight =>
               activation[o].status \in InFlight /\ due'[o] = due[o]
    PROVE  NotEarly'
BY DEF NotEarly

\* NotEarly survives every timed call: a claim takes what is due at its own
\* reading of the clock, which is never ahead of the clock.
LEMMA EarlyStep == ASSUME TimedTypeOK, NotEarly, [TimedNext]_timedVars PROVE NotEarly'
<1>0. /\ \A o \in Activation : activation[o] \in ActivationRow
      /\ activation \in [Activation -> ActivationRow]
      /\ due \in [Activation -> Int]
      /\ TypeOK /\ clock \in Nat
  BY DEF TimedTypeOK, TypeOK
<1>1. CASE UNCHANGED timedVars
  BY <1>0, <1>1, EarlyQuiet DEF timedVars
<1>2. ASSUME NEW b \in BindingId, NEW spec \in BindingSpec, BindingUpsertNow(b, spec)
      PROVE  NotEarly'
  BY <1>0, <1>2, EarlyQuiet DEF BindingUpsertNow, BindingUpsert
<1>3. ASSUME NEW b \in BindingId, NEW status \in BindingStatus, BindingSetStatusNow(b, status)
      PROVE  NotEarly'
  <2>1. PICK expired : BindingSetStatus(b, status, expired)
    BY <1>3 DEF BindingSetStatusNow
  <2>2. \A o \in Activation : \/ activation'[o] = activation[o]
                              \/ activation'[o].status = "terminal"
    BY <1>0, <2>1, CancelledRow DEF BindingSetStatus
  <2> QED
    BY <1>0, <1>3, <2>2, EarlyQuiet DEF BindingSetStatusNow, InFlight
<1>4. ASSUME NEW c \in Content, EventAdmitNow(c)
      PROVE  NotEarly'
  <2>1. \A o \in Activation :
            \/ activation'[o] = activation[o] /\ due'[o] = due[o]
            \/ activation'[o].status \in {"pending", "blocked"}
    BY <1>4 DEF EventAdmitNow, EventAdmit, Created, NoActivation
  <2> QED
    BY <1>0, <1>4, <2>1, EarlyQuiet DEF EventAdmitNow, InFlight
<1>5. ASSUME NEW consumer \in Consumer, NEW length \in LeaseLength,
             ActivationClaimNow(consumer, length)
      PROVE  NotEarly'
  <2>1. PICK now \in Reading :
            \/ \E a \in Earliest(now) : ActivationClaim(consumer, Expired(now), a)
            \/ ActivationClaimNothing(Expired(now))
    BY <1>5 DEF ActivationClaimNow
  <2>2. UNCHANGED <<clock, due>>
    BY <1>5 DEF ActivationClaimNow
  <2>3. /\ Swept(Expired(now)) \in [Activation -> ActivationRow]
        /\ \A o \in Activation : Swept(Expired(now))[o].status \in InFlight =>
               activation[o].status \in InFlight
    BY <1>0, SweptRows, CancelledRow, RequeuedRow DEF InFlight
  <2>4. CASE ActivationClaimNothing(Expired(now))
    BY <1>0, <2>2, <2>3, <2>4, EarlyQuiet DEF ActivationClaimNothing
  <2>5. ASSUME NEW a \in Earliest(now), ActivationClaim(consumer, Expired(now), a)
        PROVE  NotEarly'
    <3>1. a \in Activation /\ due[a] <= now /\ now <= clock /\ now \in Int
      BY <1>0 DEF Earliest, Ready, Claimable, Reading
    <3>2. \A o \in Activation \ {a} : activation'[o] = Swept(Expired(now))[o]
      BY <2>3, <2>5 DEF ActivationClaim
    <3>3. due[a] <= clock
      BY <1>0, <3>1
    <3> QED
      BY <2>2, <2>3, <3>2, <3>3 DEF NotEarly
  <2> QED
    BY <2>1, <2>4, <2>5
<1>6. ASSUME NEW a \in Activation, NEW consumer, NEW token, NEW r, NEW id,
             ActivationAdmitSopNow(a, consumer, token, r, id)
      PROVE  NotEarly'
  <2>1. activation[a].status \in InFlight
    BY <1>6 DEF ActivationAdmitSopNow, ActivationAdmitSop, RequireLeased, InFlight
  <2>2. \A o \in Activation \ {a} : activation'[o] = activation[o]
    BY <1>0, <1>6 DEF ActivationAdmitSopNow, ActivationAdmitSop
  <2> QED
    BY <1>0, <1>6, <2>1, <2>2, EarlyQuiet DEF ActivationAdmitSopNow
<1>7. ASSUME NEW a \in Activation, NEW consumer, NEW token, NEW retryable \in BOOLEAN,
             ActivationFailNow(a, consumer, token, retryable)
      PROVE  NotEarly'
  <2>1. \E retry \in BOOLEAN : activation' = [activation EXCEPT ![a] = Failed(@, retry)]
    BY <1>7 DEF ActivationFailNow, ActivationFail
  <2>2. /\ activation'[a].status \notin InFlight
        /\ \A o \in Activation \ {a} : activation'[o] = activation[o]
    BY <1>0, <2>1, FailedRow DEF InFlight
  <2>3. \A o \in Activation \ {a} : due'[o] = due[o]
    BY <1>0, <1>7 DEF ActivationFailNow
  <2> QED
    BY <1>0, <1>7, <2>2, <2>3, EarlyQuiet DEF ActivationFailNow
<1>8. ASSUME NEW a \in Activation, NEW outcome \in Outcome, NEW id,
             ActivationResolveNow(a, outcome, id)
      PROVE  NotEarly'
  <2>1. /\ activation'[a].status \notin InFlight
        /\ \A o \in Activation \ {a} : activation'[o] = activation[o]
    BY <1>0, <1>8, ResolvedRow DEF ActivationResolveNow, ActivationResolve, InFlight
  <2> QED
    BY <1>0, <1>8, <2>1, EarlyQuiet DEF ActivationResolveNow
<1>9. ASSUME NEW a \in Activation, NEW at, ActivationUnblockNow(a, at)
      PROVE  NotEarly'
  <2>1. /\ activation'[a].status \notin InFlight
        /\ \A o \in Activation \ {a} : activation'[o] = activation[o]
    BY <1>0, <1>9, UnblockedRow DEF ActivationUnblockNow, ActivationUnblock, InFlight
  <2>2. \A o \in Activation \ {a} : due'[o] = due[o]
    BY <1>0, <1>9 DEF ActivationUnblockNow
  <2> QED
    BY <1>0, <1>9, <2>1, <2>2, EarlyQuiet DEF ActivationUnblockNow
<1>10. CASE Tick
  BY <1>0, <1>10, EarlyQuiet DEF Tick
<1> QED
  BY <1>1, <1>2, <1>3, <1>4, <1>5, <1>6, <1>7, <1>8, <1>9, <1>10 DEF TimedNext

\* Nothing is leased or runs before it is due (due_at <= now in
\* activation_claim), however long the claim waited for the lock.
THEOREM NothingEarly == TimedSpec => []NotEarly
<1>1. TimedInit => NotEarly
  BY DEF TimedInit, Init, NotEarly, NoActivation, InFlight
<1>2. TimedTypeOK /\ NotEarly /\ [TimedNext]_timedVars => NotEarly'
  BY EarlyStep
<1> QED
  BY <1>1, <1>2, TimedTypeCorrect, PTL DEF TimedSpec

-----------------------------------------------------------------------------
(* Leases that are still good *)

\* A call that leaves every row with a good lease alone, or takes it out of
\* the lease by its holder, keeps the lease.
KeepsLease(o) ==
    \/ activation'[o] = activation[o] /\ (activation[o].status = "leased" => expires'[o] = expires[o])
    \/ activation'[o].status \in {"pending", "blocked", "admitted"}
    \/ activation[o].status # "leased"
    \/ expires[o] <= clock

\* That is what LeaseKept asks.
LEMMA KeepingLeases ==
    ASSUME TimedTypeOK, \A o \in Activation : KeepsLease(o)
    PROVE  LeaseKept
BY DEF KeepsLease, LeaseKept, TimedTypeOK

\* Every timed call keeps every good lease: a sweep at `now` finds expired
\* only what has expired by the clock.
LEMMA LeaseKeptStep == ASSUME TimedTypeOK, [TimedNext]_timedVars PROVE LeaseKept
<1>0. /\ \A o \in Activation : activation[o] \in ActivationRow
      /\ activation \in [Activation -> ActivationRow]
      /\ expires \in [Activation -> Nat]
      /\ TypeOK /\ clock \in Nat
  BY DEF TimedTypeOK, TypeOK
<1> SUFFICES ASSUME NEW o \in Activation PROVE KeepsLease(o)
  BY KeepingLeases
<1>e. \A now \in Reading : o \in Expired(now) => expires[o] <= clock
  BY <1>0 DEF Expired, Reading
<1>c. ClearExpires /\ activation'[o] = activation[o] => KeepsLease(o)
  BY <1>0 DEF ClearExpires, KeepsLease
<1>1. CASE UNCHANGED timedVars
  BY <1>1 DEF timedVars, KeepsLease
<1>2. ASSUME NEW b \in BindingId, NEW spec \in BindingSpec, BindingUpsertNow(b, spec)
      PROVE  KeepsLease(o)
  BY <1>2 DEF BindingUpsertNow, BindingUpsert, KeepsLease
<1>3. ASSUME NEW b \in BindingId, NEW status \in BindingStatus, BindingSetStatusNow(b, status)
      PROVE  KeepsLease(o)
  <2>1. PICK now \in Reading : BindingSetStatus(b, status, Expired(now))
    BY <1>3 DEF BindingSetStatusNow
  <2>2. \/ activation'[o] = activation[o]
        \/ activation[o].status = "pending"
        \/ o \in Expired(now)
    BY <1>0, <2>1 DEF BindingSetStatus, Quiesced
  <2> QED
    BY <1>3, <1>e, <1>c, <2>2 DEF BindingSetStatusNow, KeepsLease
<1>4. ASSUME NEW c \in Content, EventAdmitNow(c)
      PROVE  KeepsLease(o)
  BY <1>4 DEF EventAdmitNow, EventAdmit, Created, NoActivation, KeepsLease
<1>5. ASSUME NEW consumer \in Consumer, NEW length \in LeaseLength,
             ActivationClaimNow(consumer, length)
      PROVE  KeepsLease(o)
  <2>1. PICK now \in Reading :
            \/ \E a \in Earliest(now) :
                   /\ ActivationClaim(consumer, Expired(now), a)
                   /\ expires' = [x \in Activation |->
                                     IF x = a THEN LeaseUntil(now, length)
                                     ELSE IF x \in Expired(now) THEN 0
                                     ELSE expires[x]]
            \/ ActivationClaimNothing(Expired(now)) /\ ClearExpires
    BY <1>5 DEF ActivationClaimNow
  <2>2. /\ Swept(Expired(now)) \in [Activation -> ActivationRow]
        /\ o \in Expired(now) \/ Swept(Expired(now))[o] = activation[o]
    BY <1>0, SweptRows DEF Swept
  <2>3. CASE ActivationClaimNothing(Expired(now)) /\ ClearExpires
    BY <1>e, <1>c, <2>2, <2>3 DEF ActivationClaimNothing, KeepsLease
  <2>4. ASSUME NEW a \in Earliest(now), ActivationClaim(consumer, Expired(now), a),
               expires' = [x \in Activation |->
                              IF x = a THEN LeaseUntil(now, length)
                              ELSE IF x \in Expired(now) THEN 0
                              ELSE expires[x]]
        PROVE  KeepsLease(o)
    <3>1. Swept(Expired(now))[a].status = "pending"
      BY DEF Earliest, Ready, Claimable
    <3>2. CASE o = a
      BY <1>e, <2>2, <3>1, <3>2 DEF KeepsLease
    <3>3. CASE o # a
      BY <1>e, <2>2, <2>4, <3>3 DEF ActivationClaim, KeepsLease
    <3> QED
      BY <3>2, <3>3
  <2> QED
    BY <2>1, <2>3, <2>4
<1>6. ASSUME NEW a \in Activation, NEW consumer, NEW token, NEW r \in RunId, NEW id,
             ActivationAdmitSopNow(a, consumer, token, r, id)
      PROVE  KeepsLease(o)
  <2>1. activation' = [activation EXCEPT ![a] = Admitted(@, r)]
    BY <1>6 DEF ActivationAdmitSopNow, ActivationAdmitSop
  <2>2. o # a => activation'[o] = activation[o]
    BY <1>0, <2>1
  <2>3. o = a => activation'[o].status = "admitted"
    BY <1>0, <2>1, AdmittedRow
  <2> QED
    BY <1>6, <1>c, <2>2, <2>3 DEF ActivationAdmitSopNow, KeepsLease
<1>7. ASSUME NEW a \in Activation, NEW consumer, NEW token, NEW retryable \in BOOLEAN,
             ActivationFailNow(a, consumer, token, retryable)
      PROVE  KeepsLease(o)
  <2>1. \E retry \in BOOLEAN : activation' = [activation EXCEPT ![a] = Failed(@, retry)]
    BY <1>7 DEF ActivationFailNow, ActivationFail
  <2>2. o # a => activation'[o] = activation[o]
    BY <1>0, <2>1
  <2>3. o = a => activation'[o].status \in {"pending", "blocked"}
    BY <1>0, <2>1, FailedRow
  <2> QED
    BY <1>7, <1>c, <2>2, <2>3 DEF ActivationFailNow, KeepsLease
<1>8. ASSUME NEW a \in Activation, NEW outcome \in Outcome, NEW id,
             ActivationResolveNow(a, outcome, id)
      PROVE  KeepsLease(o)
  BY <1>0, <1>8 DEF ActivationResolveNow, ActivationResolve, KeepsLease
<1>9. ASSUME NEW a \in Activation, NEW at, ActivationUnblockNow(a, at)
      PROVE  KeepsLease(o)
  BY <1>0, <1>9 DEF ActivationUnblockNow, ActivationUnblock, KeepsLease
<1>10. CASE Tick
  BY <1>10 DEF Tick, KeepsLease
<1> QED
  BY <1>1, <1>2, <1>3, <1>4, <1>5, <1>6, <1>7, <1>8, <1>9, <1>10 DEF TimedNext

\* A lease that is still good is neither taken over nor cancelled by the
\* sweeps of activation_claim and binding_set_status.
THEOREM LiveLeasesKept == TimedSpec => LiveLeaseKept
<1>1. TimedTypeOK /\ [TimedNext]_timedVars => [LeaseKept]_timedVars
  BY LeaseKeptStep
<1> QED
  BY <1>1, TimedTypeCorrect, PTL DEF TimedSpec, LiveLeaseKept

-----------------------------------------------------------------------------
(* Leases as they are granted *)

\* A row that is leased has the lease it had, or one that is still good.
GrantsWell(o) ==
    activation'[o].status = "leased" =>
        activation'[o].token = activation[o].token \/ expires'[o] > clock

\* A claim that waited for the lock wrote a lease from the clock as it was
\* before the wait; a wait shorter than the lease leaves it good.
\* No other call grants one.
LEMMA GrantStep ==
    ASSUME TimedTypeOK, [TimedNext]_timedVars, \A length \in LeaseLength : length > MaxWait
    PROVE  LeaseUsableWhenGranted
<1>0. /\ \A o \in Activation : activation[o] \in ActivationRow
      /\ activation \in [Activation -> ActivationRow]
      /\ TypeOK /\ clock \in Nat
  BY DEF TimedTypeOK, TypeOK
<1> SUFFICES ASSUME NEW o \in Activation PROVE GrantsWell(o)
  BY DEF GrantsWell, LeaseUsableWhenGranted
<1>1. ASSUME activation'[o] = activation[o] \/ activation'[o].status # "leased"
      PROVE  GrantsWell(o)
  BY <1>1 DEF GrantsWell
<1>2. CASE UNCHANGED timedVars
  BY <1>1, <1>2 DEF timedVars
<1>3. ASSUME NEW b \in BindingId, NEW spec \in BindingSpec, BindingUpsertNow(b, spec)
      PROVE  GrantsWell(o)
  BY <1>1, <1>3 DEF BindingUpsertNow, BindingUpsert
<1>4. ASSUME NEW b \in BindingId, NEW status \in BindingStatus, BindingSetStatusNow(b, status)
      PROVE  GrantsWell(o)
  BY <1>0, <1>1, <1>4, CancelledRow DEF BindingSetStatusNow, BindingSetStatus
<1>5. ASSUME NEW c \in Content, EventAdmitNow(c)
      PROVE  GrantsWell(o)
  <2>1. Created(o[1], c).status # "leased"
    BY DEF Created, NoActivation
  <2>2. activation'[o] = activation[o] \/ activation'[o] = Created(o[1], c)
    BY <1>5 DEF EventAdmitNow, EventAdmit
  <2> QED
    BY <1>1, <2>1, <2>2
<1>6. ASSUME NEW consumer \in Consumer, NEW length \in LeaseLength,
             ActivationClaimNow(consumer, length)
      PROVE  GrantsWell(o)
  <2>1. PICK now \in Reading :
            \/ \E a \in Earliest(now) :
                   /\ ActivationClaim(consumer, Expired(now), a)
                   /\ expires' = [x \in Activation |->
                                     IF x = a THEN LeaseUntil(now, length)
                                     ELSE IF x \in Expired(now) THEN 0
                                     ELSE expires[x]]
            \/ ActivationClaimNothing(Expired(now))
    BY <1>6 DEF ActivationClaimNow
  <2>2. \/ Swept(Expired(now))[o] = activation[o]
        \/ Swept(Expired(now))[o].status # "leased"
    BY <1>0, SweptRows, CancelledRow, RequeuedRow
  <2>3. CASE ActivationClaimNothing(Expired(now))
    BY <1>1, <2>2, <2>3 DEF ActivationClaimNothing
  <2>4. ASSUME NEW a \in Earliest(now), ActivationClaim(consumer, Expired(now), a),
               expires' = [x \in Activation |->
                              IF x = a THEN LeaseUntil(now, length)
                              ELSE IF x \in Expired(now) THEN 0
                              ELSE expires[x]]
        PROVE  GrantsWell(o)
    <3>1. CASE o # a
      <4>1. activation'[o] = Swept(Expired(now))[o]
        BY <1>0, <2>4, <3>1, SweptRows DEF ActivationClaim
      <4> QED
        BY <1>1, <2>2, <4>1
    <3>2. CASE o = a
      <4>1. expires'[o] = now + length
        BY <2>4, <3>2 DEF LeaseUntil
      <4>2. now \in Nat /\ clock - now <= MaxWait
        BY <1>0 DEF Reading
      <4>3. length \in Nat /\ length > MaxWait /\ MaxWait \in Nat
        BY ClockAssumption
      <4>4. expires'[o] > clock
        BY <1>0, <4>1, <4>2, <4>3
      <4> QED
        BY <4>4 DEF GrantsWell
    <3> QED
      BY <3>1, <3>2
  <2> QED
    BY <2>1, <2>3, <2>4
<1>7. ASSUME NEW a \in Activation, NEW consumer, NEW token, NEW r \in RunId, NEW id,
             ActivationAdmitSopNow(a, consumer, token, r, id)
      PROVE  GrantsWell(o)
  BY <1>0, <1>1, <1>7, AdmittedRow DEF ActivationAdmitSopNow, ActivationAdmitSop
<1>8. ASSUME NEW a \in Activation, NEW consumer, NEW token, NEW retryable \in BOOLEAN,
             ActivationFailNow(a, consumer, token, retryable)
      PROVE  GrantsWell(o)
  <2>1. \E retry \in BOOLEAN : activation' = [activation EXCEPT ![a] = Failed(@, retry)]
    BY <1>8 DEF ActivationFailNow, ActivationFail
  <2> QED
    BY <1>0, <1>1, <2>1, FailedRow
<1>9. ASSUME NEW a \in Activation, NEW outcome \in Outcome, NEW id,
             ActivationResolveNow(a, outcome, id)
      PROVE  GrantsWell(o)
  BY <1>0, <1>1, <1>9, ResolvedRow DEF ActivationResolveNow, ActivationResolve
<1>10. ASSUME NEW a \in Activation, NEW at, ActivationUnblockNow(a, at)
       PROVE  GrantsWell(o)
  BY <1>0, <1>1, <1>10, UnblockedRow DEF ActivationUnblockNow, ActivationUnblock
<1>11. CASE Tick
  BY <1>1, <1>11 DEF Tick
<1> QED
  BY <1>2, <1>3, <1>4, <1>5, <1>6, <1>7, <1>8, <1>9, <1>10, <1>11 DEF TimedNext

\* A lease is still good when the caller gets it, if every lease asked for is
\* longer than the busy timeout, as the dispatcher's are (60 s against 30 s).
\* activation_claim does not enforce that: it also grants shorter leases, which
\* a caller who waited may get when they are over.
THEOREM GrantedLeasesUsable ==
    ASSUME \A length \in LeaseLength : length > MaxWait
    PROVE  TimedSpec => LeaseUsable
<1>1. TimedTypeOK /\ [TimedNext]_timedVars => [LeaseUsableWhenGranted]_timedVars
  BY GrantStep
<1> QED
  BY <1>1, TimedTypeCorrect, PTL DEF TimedSpec, LeaseUsable

=============================================================================
