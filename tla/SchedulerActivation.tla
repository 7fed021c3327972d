------------------------- MODULE SchedulerActivation -------------------------
(***************************************************************************)
(* The activation store with its clock: due times, lease expiry, backoff,  *)
(* and the time a call spends waiting for the write lock.                  *)
(*                                                                         *)
(* A call reads the clock once, before `begin immediate`, and may then     *)
(* wait for the lock up to the busy timeout: what it writes and compares   *)
(* is that earlier reading.  Only require_leased reads the clock inside    *)
(* the transaction.                                                        *)
(***************************************************************************)
EXTENDS ActivationStore

CONSTANTS
    LeaseLength,  \* the lease lengths consumers ask for
    MaxWait,      \* how long a call may wait for the lock (busy_timeout)
    MaxClock      \* bound: the time at which the model stops

ASSUME TimingAssumption ==
    \A t \in Timing :
        /\ t.base \in Nat /\ t.cap \in Nat /\ t.base <= t.cap
        /\ \A o \in EventOutcome : t.delay[o] \in Nat
ASSUME DataAssumption == \A d \in Data : d.occurred \in Nat /\ d.attempt \in Nat
ASSUME ClockAssumption ==
    LeaseLength \subseteq Nat \ {0} /\ MaxWait \in Nat /\ MaxClock \in Nat

VARIABLES
    clock,
    due,     \* due_at of every activation
    expires  \* lease_expires_at of the leased ones, 0 for the others

timedVars == <<binding, event, activation, receipt, leases, clock, due, expires>>

\* The readings of the clock a call that commits now may have made.
Reading == {t \in 0..clock : clock - t <= MaxWait}

Smaller(i, j) == IF i < j THEN i ELSE j

\* base * 2^(attempt - 1), at most 2^30 times the base, and never above the
\* cap.
Backoff(timing, attempt) ==
    LET exponent == IF attempt < 1 THEN 0 ELSE Smaller(attempt - 1, 30)
    IN  Smaller(timing.base * 2^exponent, timing.cap)

\* How long after its event an activation is due.
DelayFor(timing, c) ==
    IF c.outcome = "retryable_failure"
    THEN Backoff(timing, c.data.attempt)
    ELSE timing.delay[c.outcome]

\* Fault: a lease is given up while it is still good.
NotYetExpired(now) == {a \in Holding : expires[a] >= now}

Expired(now) == {a \in Holding : expires[a] <= now}

\* lease_expires_at is cleared with the rest of the lease.
ClearExpires == expires' = [a \in Activation |-> IF activation'[a].status = "leased"
                                                 THEN expires[a] ELSE 0]

TimedInit ==
    /\ Init
    /\ clock = 0
    /\ due = [a \in Activation |-> 0]
    /\ expires = [a \in Activation |-> 0]

-----------------------------------------------------------------------------

BindingUpsertNow(b, spec) ==
    /\ BindingUpsert(b, spec)
    /\ UNCHANGED <<clock, due, expires>>

BindingSetStatusNow(b, status) ==
    /\ \E now \in Reading : BindingSetStatus(b, status, Expired(now))
    /\ ClearExpires
    /\ UNCHANGED <<clock, due>>

EventAdmitNow(c) ==
    /\ EventAdmit(c)
    /\ due' = [a \in Activation |->
                  IF a[2] = c.id /\ a[1] \in Triggered(c)
                  THEN c.data.occurred + DelayFor(binding[a[1]].spec.timing, c)
                  ELSE due[a]]
    /\ UNCHANGED <<clock, expires>>

\* What a claim at `now` may take: the activations due by then.
Ready(now) == {a \in Claimable(Swept(Expired(now))) : due[a] <= now}

\* Fault: the due time is not compared.
EarliestIgnoringDue(now) ==
    {a \in Claimable(Swept(Expired(now))) :
        \A o \in Claimable(Swept(Expired(now))) : due[a] <= due[o]}

\* `order by due_at, activation_id limit 1`: ids are hashes, so any of the
\* activations due earliest may come first.
Earliest(now) == {a \in Ready(now) : \A o \in Ready(now) : due[a] <= due[o]}

\* Fault: the length of the lease is subtracted.
LeaseBefore(now, length) == now - length

LeaseUntil(now, length) == now + length

ActivationClaimNow(consumer, length) ==
    \E now \in Reading :
        \/ \E a \in Earliest(now) :
               /\ ActivationClaim(consumer, Expired(now), a)
               /\ expires' = [o \in Activation |->
                                 IF o = a THEN LeaseUntil(now, length)
                                 ELSE IF o \in Expired(now) THEN 0
                                 ELSE expires[o]]
               /\ UNCHANGED <<clock, due>>
        \/ /\ Earliest(now) = {}
           /\ ActivationClaimNothing(Expired(now))
           /\ ClearExpires
           /\ UNCHANGED <<clock, due>>

\* The lease a holder shows has not expired, by the clock as it is now.
LeaseGood(a) == expires[a] > clock

ActivationAdmitSopNow(a, consumer, token, r, id) ==
    /\ LeaseGood(a)
    /\ ActivationAdmitSop(a, consumer, token, r, id)
    /\ ClearExpires
    /\ UNCHANGED <<clock, due>>

ActivationFailNow(a, consumer, token, retryable) ==
    /\ LeaseGood(a)
    /\ ActivationFail(a, consumer, token, retryable)
    /\ \E now \in Reading :
           due' = [due EXCEPT ![a] =
                      now + Backoff(binding[a[1]].spec.timing, activation[a].attempts + 1)]
    /\ ClearExpires
    /\ UNCHANGED clock

ActivationResolveNow(a, outcome, id) ==
    /\ ActivationResolve(a, outcome, id)
    /\ UNCHANGED <<clock, due, expires>>

\* Due at the time the operator gives, or at once.
ActivationUnblockNow(a, at) ==
    /\ ActivationUnblock(a)
    /\ due' = [due EXCEPT ![a] = at]
    /\ UNCHANGED <<clock, expires>>

Tick ==
    /\ clock < MaxClock
    /\ clock' = clock + 1
    /\ UNCHANGED <<binding, event, activation, receipt, leases, due, expires>>

TimedNext ==
    \/ \E b \in BindingId, spec \in BindingSpec : BindingUpsertNow(b, spec)
    \/ \E b \in BindingId, status \in BindingStatus : BindingSetStatusNow(b, status)
    \/ \E c \in Content : EventAdmitNow(c)
    \/ \E consumer \in Consumer, length \in LeaseLength : ActivationClaimNow(consumer, length)
    \/ \E a \in Activation, consumer \in Consumer, token \in 1..MaxLeases :
           \/ \E r \in RunId, id \in ReceiptId : ActivationAdmitSopNow(a, consumer, token, r, id)
           \/ \E retryable \in BOOLEAN : ActivationFailNow(a, consumer, token, retryable)
    \/ \E a \in Activation, outcome \in Outcome, id \in ReceiptId :
           ActivationResolveNow(a, outcome, id)
    \/ \E a \in Activation, at \in 0..MaxClock : ActivationUnblockNow(a, at)
    \/ Tick

TimedSpec == TimedInit /\ [][TimedNext]_timedVars

-----------------------------------------------------------------------------

TimedTypeOK ==
    /\ TypeOK
    /\ clock \in Nat
    /\ due \in [Activation -> Int]
    /\ expires \in [Activation -> Nat]

\* Nothing is in flight before it is due: the delay of a completion, the
\* backoff of a retry and the time an operator gives are all respected, also
\* by a claim that waited for the lock.
NotEarly ==
    \A a \in Activation : activation[a].status \in InFlight => due[a] <= clock

LeaseKept ==
    \A a \in Activation :
        activation[a].status = "leased" /\ expires[a] > clock =>
            /\ activation'[a].status # "terminal"
            /\ activation'[a].status = "leased" =>
                   /\ activation'[a].token = activation[a].token
                   /\ expires'[a] = expires[a]

\* A lease that is still good is not taken over and its activation is not
\* cancelled, whatever other consumers claim and operators pause, and however
\* long they waited for the lock.
LiveLeaseKept == [][LeaseKept]_timedVars

LeaseUsableWhenGranted ==
    \A a \in Activation :
        activation'[a].status = "leased" /\ activation'[a].token # activation[a].token =>
            expires'[a] > clock

\* A lease is still good when it is granted, provided the shortest lease is
\* longer than the longest wait for the lock.
LeaseUsable == [][LeaseUsableWhenGranted]_timedVars

=============================================================================
