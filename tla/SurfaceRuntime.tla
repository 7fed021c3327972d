--------------------------- MODULE SurfaceRuntime ---------------------------
(***************************************************************************)
(* The engine that runs surfaces for carrier sessions.  A session acquires *)
(* a handle on a logical instance, which is started for the first and      *)
(* shared by the others; calls go through handles to the worker of the     *)
(* instance's generation; a replacement starts the worker of the next      *)
(* generation, stops new calls at a barrier while the old worker drains,   *)
(* and swaps; the release of the last handle drains the worker and         *)
(* disposes of the instance; close does it for all.                        *)
(*                                                                         *)
(* One thread runs all of these.  A step of the model is what happens from *)
(* one wait on a worker, a timer or a caller to the next: promises that    *)
(* are resolved on the way wake their waiters within the step.             *)
(*                                                                         *)
(* Left out: what is in a binding, its checks (which refuse a call before  *)
(* it changes anything), the state reported by status, which the engine    *)
(* never reads, and the crash of a worker, all of whose calls then fail.   *)
(***************************************************************************)
EXTENDS Naturals, Sequences

CONSTANTS
    Surface,        \* instance ids, derived from binding, authority and session
    Handle,         \* handles there can be at one time
    Invocation,     \* calls there can be at one time
    MaxInstances,   \* bound: instances started
    MaxGenerations  \* bound: workers started

ASSUME SurfaceAssumption == MaxInstances \in Nat /\ MaxGenerations \in Nat

VARIABLES
    registered,  \* #instances: the instance of each id, 0 without one
    instance,    \* every instance there ever was
    handle,      \* #handles, and the acquires and releases under way
    call,        \* the invocations under way
    workers,     \* how many were started; a worker's number is its generation
    running,     \* workers started and not closed
    engine       \* open, or how far its close is

surfaceVars == <<registered, instance, handle, call, workers, running, engine>>

(***************************************************************************)
(* Instances.  "starting" is in #starting; "candidate", "draining" and     *)
(* "closing" are a replacement in progress: its candidate starts and is    *)
(* assessed, the barrier is up, the generation before it is closed.        *)
(***************************************************************************)
Stage == {"starting", "failed", "ready", "candidate", "draining", "closing"}

Replacing(i) == instance[i].stage \in {"candidate", "draining", "closing"}

Starting(s) == {i \in 1..Len(instance) : instance[i].id = s /\ instance[i].stage = "starting"}

Set(i, r) == instance' = [instance EXCEPT ![i] = r]

Free == [pc |-> "free", of |-> 0, gen |-> 0]

Held(i) == [pc |-> "held", of |-> i, gen |-> 0]

\* The handles an instance knows.  close forgets the handles, not who has them.
Holders(i) == {h \in Handle : handle[h].pc \in {"held", "cleared"} /\ handle[h].of = i}

Quiet == [pc |-> "idle", of |-> 0, gen |-> 0]

Inflight(g) == {c \in Invocation : call[c].pc \in {"running", "health"} /\ call[c].gen = g}

Unregister(s) == registered' = [registered EXCEPT ![s] = 0]

\* A release that need not wait for a replacement, or no longer: with calls in
\* flight it watches them, on the generation of this moment; without any it
\* disposes of the instance, unless somebody holds it again.
Drains(i, gen, holders) ==
    IF Inflight(gen) # {} THEN [pc |-> "drain", of |-> i, gen |-> gen]
    ELSE IF holders # {} THEN Free
    ELSE [pc |-> "closing", of |-> i, gen |-> gen]

\* A replacement completes: the releases that waited for it go on.
Completed(i, r) ==
    LET waiting == {h \in Handle : handle[h].pc = "completion" /\ handle[h].of = i} IN
    /\ Set(i, r)
    /\ handle' = [h \in Handle |-> IF h \in waiting THEN Drains(i, r.gen, Holders(i)) ELSE handle[h]]
    /\ IF \E h \in waiting : handle'[h].pc = "closing" THEN Unregister(r.id) ELSE UNCHANGED registered

\* The barrier is released: the calls that waited go to the generation there
\* is now, or are refused by an engine that was closed meanwhile.
Resumed(i, gen) ==
    call' = [c \in Invocation |->
        IF call[c].pc # "barrier" \/ call[c].of # i THEN call[c]
        ELSE IF engine.pc = "open" THEN [pc |-> "running", of |-> i, gen |-> gen]
        ELSE Quiet]

(***************************************************************************)
(* acquire.                                                                *)
(***************************************************************************)
Start(h, s) ==
    /\ engine.pc = "open"
    /\ handle[h] = Free
    /\ registered[s] = 0 /\ Starting(s) = {}
    /\ Len(instance) < MaxInstances /\ workers < MaxGenerations
    /\ instance' = Append(instance, [id |-> s, gen |-> workers + 1, stage |-> "starting", next |-> 0])
    /\ workers' = workers + 1
    /\ running' = running \cup {workers + 1}
    /\ handle' = [handle EXCEPT ![h] = [pc |-> "starting", of |-> Len(instance) + 1, gen |-> 0]]
    /\ UNCHANGED <<registered, call, engine>>

Join(h, s) ==
    /\ engine.pc = "open"
    /\ handle[h] = Free
    /\ registered[s] = 0
    /\ \E i \in Starting(s) : handle' = [handle EXCEPT ![h] = [pc |-> "starting", of |-> i, gen |-> 0]]
    /\ UNCHANGED <<registered, instance, call, workers, running, engine>>

Reuse(h, s) ==
    /\ engine.pc = "open"
    /\ handle[h] = Free
    /\ registered[s] # 0
    /\ handle' = [handle EXCEPT ![h] = Held(registered[s])]
    /\ UNCHANGED <<registered, instance, call, workers, running, engine>>

Awaiting(h, i) == handle[h].pc = "starting" /\ handle[h].of = i

Started(i) ==
    /\ engine.pc = "open"
    /\ instance[i].stage = "starting"
    /\ registered' = [registered EXCEPT ![instance[i].id] = i]
    /\ Set(i, [instance[i] EXCEPT !.stage = "ready"])
    /\ handle' = [h \in Handle |-> IF Awaiting(h, i) THEN Held(i) ELSE handle[h]]
    /\ UNCHANGED <<call, workers, running, engine>>

\* The worker does not start, is not healthy, or the engine was closed meanwhile.
StartFails(i) ==
    /\ instance[i].stage = "starting"
    /\ Set(i, [instance[i] EXCEPT !.stage = "failed"])
    /\ running' = running \ {instance[i].gen}
    /\ handle' = [h \in Handle |-> IF Awaiting(h, i) THEN Free ELSE handle[h]]
    /\ UNCHANGED <<registered, call, workers, engine>>

(***************************************************************************)
(* invoke.  A call counts as in flight until it is answered or, when it    *)
(* fails, until the health of its worker was looked up.                    *)
(***************************************************************************)
Invoke(c, h) ==
    LET i == handle[h].of IN
    /\ engine.pc = "open"
    /\ call[c] = Quiet
    /\ handle[h].pc = "held"
    /\ call' = [call EXCEPT ![c] =
          IF instance[i].stage = "draining" THEN [pc |-> "barrier", of |-> i, gen |-> 0]
          ELSE [pc |-> "running", of |-> i, gen |-> instance[i].gen]]
    /\ UNCHANGED <<registered, instance, handle, workers, running, engine>>

Answer(c) ==
    /\ call[c].pc = "running"
    /\ call[c].gen \in running
    /\ call' = [call EXCEPT ![c] = Quiet]
    /\ UNCHANGED <<registered, instance, handle, workers, running, engine>>

Fail(c) ==
    /\ call[c].pc = "running"
    /\ call' = [call EXCEPT ![c].pc = "health"]
    /\ UNCHANGED <<registered, instance, handle, workers, running, engine>>

Failed(c) ==
    /\ call[c].pc = "health"
    /\ call' = [call EXCEPT ![c] = Quiet]
    /\ UNCHANGED <<registered, instance, handle, workers, running, engine>>

(***************************************************************************)
(* replace, by a caller who names the generation there is.                 *)
(***************************************************************************)
Replace(h) ==
    LET i == handle[h].of IN
    /\ engine.pc = "open"
    /\ handle[h].pc = "held"
    /\ instance[i].stage = "ready"
    /\ workers < MaxGenerations
    /\ Set(i, [instance[i] EXCEPT !.stage = "candidate", !.next = workers + 1])
    /\ workers' = workers + 1
    /\ running' = running \cup {workers + 1}
    /\ UNCHANGED <<registered, handle, call, engine>>

Settled(i) == [instance[i] EXCEPT !.stage = "ready", !.next = 0]

CandidateRefused(i) ==
    /\ instance[i].stage = "candidate"
    /\ running' = running \ {instance[i].next}
    /\ Completed(i, Settled(i))
    /\ UNCHANGED <<call, workers, engine>>

Barrier(i) ==
    /\ instance[i].stage = "candidate"
    /\ Inflight(instance[i].gen) # {}
    /\ Set(i, [instance[i] EXCEPT !.stage = "draining"])
    /\ UNCHANGED <<registered, handle, call, workers, running, engine>>

\* With nothing in flight the barrier is gone as soon as it is there.
Swap(i) ==
    /\ instance[i].stage \in {"candidate", "draining"}
    /\ Inflight(instance[i].gen) = {}
    /\ Set(i, [instance[i] EXCEPT !.stage = "closing", !.gen = instance[i].next, !.next = instance[i].gen])
    /\ Resumed(i, instance[i].next)
    /\ UNCHANGED <<registered, handle, workers, running, engine>>

\* Fault: the barrier stays up when the drain runs out of time.
DrainTimeoutUnderBarrier(i) ==
    /\ instance[i].stage = "draining"
    /\ Inflight(instance[i].gen) # {}
    /\ running' = running \ {instance[i].next}
    /\ Completed(i, Settled(i))
    /\ UNCHANGED <<call, workers, engine>>

DrainTimeout(i) ==
    /\ instance[i].stage = "draining"
    /\ Inflight(instance[i].gen) # {}
    /\ running' = running \ {instance[i].next}
    /\ Resumed(i, instance[i].gen)
    /\ Completed(i, Settled(i))
    /\ UNCHANGED <<workers, engine>>

Replaced(i) ==
    /\ instance[i].stage = "closing"
    /\ running' = running \ {instance[i].next}
    /\ Completed(i, Settled(i))
    /\ UNCHANGED <<call, workers, engine>>

(***************************************************************************)
(* release.                                                                *)
(***************************************************************************)
Release(h) ==
    LET i == handle[h].of IN
    /\ handle[h].pc = "held"
    /\ handle' = [handle EXCEPT ![h] =
          IF Holders(i) # {h} THEN Free
          ELSE IF Replacing(i) THEN [pc |-> "completion", of |-> i, gen |-> 0]
          ELSE Drains(i, instance[i].gen, {})]
    /\ IF handle'[h].pc = "closing" THEN Unregister(instance[i].id) ELSE UNCHANGED registered
    /\ UNCHANGED <<instance, call, workers, running, engine>>

Drained(h) == handle[h].pc = "drain" /\ Inflight(handle[h].gen) = {}

\* Fault: the handles are not looked at again after the drain.
DisposeUnchecked(h) ==
    /\ Drained(h)
    /\ Unregister(instance[handle[h].of].id)
    /\ handle' = [handle EXCEPT ![h].pc = "closing", ![h].gen = instance[handle[h].of].gen]
    /\ UNCHANGED <<instance, call, workers, running, engine>>

\* Whoever has the id is unregistered; the generation of now is closed.
Dispose(h) ==
    /\ Drained(h)
    /\ Holders(handle[h].of) = {}
    /\ Unregister(instance[handle[h].of].id)
    /\ handle' = [handle EXCEPT ![h].pc = "closing", ![h].gen = instance[handle[h].of].gen]
    /\ UNCHANGED <<instance, call, workers, running, engine>>

Kept(h) ==
    /\ Drained(h)
    /\ Holders(handle[h].of) # {}
    /\ handle' = [handle EXCEPT ![h] = Free]
    /\ UNCHANGED <<registered, instance, call, workers, running, engine>>

\* The release fails; the instance stays, with nobody to release it again.
ReleaseTimeout(h) ==
    /\ handle[h].pc = "drain"
    /\ Inflight(handle[h].gen) # {}
    /\ handle' = [handle EXCEPT ![h] = Free]
    /\ UNCHANGED <<registered, instance, call, workers, running, engine>>

Disposed(h) ==
    /\ handle[h].pc = "closing"
    /\ running' = running \ {handle[h].gen}
    /\ handle' = [handle EXCEPT ![h] = Free]
    /\ UNCHANGED <<registered, instance, call, workers, engine>>

(***************************************************************************)
(* close.                                                                  *)
(***************************************************************************)
Registered == {i \in 1..Len(instance) : registered[instance[i].id] = i}

Close ==
    /\ engine.pc = "open"
    /\ engine' = [pc |-> "starts", of |-> {}]
    /\ handle' = [h \in Handle |-> IF handle[h].pc = "held" THEN [handle[h] EXCEPT !.pc = "cleared"] ELSE handle[h]]
    /\ UNCHANGED <<registered, instance, call, workers, running>>

CloseAfterStarts ==
    /\ engine.pc = "starts"
    /\ \A s \in Surface : Starting(s) = {}
    /\ engine' = [pc |-> "completions", of |-> {i \in Registered : Replacing(i)}]
    /\ UNCHANGED <<registered, instance, handle, call, workers, running>>

CloseAfterCompletions ==
    /\ engine.pc = "completions"
    /\ \A i \in engine.of : ~Replacing(i)
    /\ engine' = [pc |-> "drain", of |-> Registered]
    /\ registered' = [s \in Surface |-> 0]
    /\ UNCHANGED <<instance, handle, call, workers, running>>

\* Every worker has drained, or its ten seconds are over.
CloseWorkers ==
    /\ engine.pc = "drain"
    /\ engine' = [pc |-> "closed", of |-> {}]
    /\ running' = running \ {instance[i].gen : i \in engine.of}
    /\ UNCHANGED <<registered, instance, handle, call, workers>>

(***************************************************************************)
(* The specification.  Sessions and operators do as they like.  What is    *)
(* under way ends: workers answer, exit or run into the timeouts of their  *)
(* adapter, and drains have a deadline.                                    *)
(***************************************************************************)
SurfaceInit ==
    /\ registered = [s \in Surface |-> 0]
    /\ instance = <<>>
    /\ handle = [h \in Handle |-> Free]
    /\ call = [c \in Invocation |-> Quiet]
    /\ workers = 0 /\ running = {}
    /\ engine = [pc |-> "open", of |-> {}]

Sessions ==
    \/ \E h \in Handle :
           \/ \E s \in Surface : Start(h, s) \/ Join(h, s) \/ Reuse(h, s)
           \/ \E c \in Invocation : Invoke(c, h)
           \/ Replace(h) \/ Release(h)
    \/ Close

InstanceGoesOn(i) ==
    \/ Started(i) \/ StartFails(i) \/ CandidateRefused(i) \/ Barrier(i)
    \/ Swap(i) \/ DrainTimeout(i) \/ Replaced(i)

CallGoesOn(c) == Answer(c) \/ Fail(c) \/ Failed(c)

ReleaseGoesOn(h) == Dispose(h) \/ Kept(h) \/ ReleaseTimeout(h) \/ Disposed(h)

CloseGoesOn == CloseAfterStarts \/ CloseAfterCompletions \/ CloseWorkers

SurfaceNext ==
    \/ Sessions
    \/ \E i \in 1..Len(instance) : InstanceGoesOn(i)
    \/ \E c \in Invocation : CallGoesOn(c)
    \/ \E h \in Handle : ReleaseGoesOn(h)
    \/ CloseGoesOn

SurfaceFairness ==
    /\ \A i \in 1..MaxInstances : WF_surfaceVars(i <= Len(instance) /\ InstanceGoesOn(i))
    /\ \A c \in Invocation : WF_surfaceVars(CallGoesOn(c))
    /\ \A h \in Handle : WF_surfaceVars(ReleaseGoesOn(h))
    /\ WF_surfaceVars(CloseGoesOn)

SurfaceSpec == SurfaceInit /\ [][SurfaceNext]_surfaceVars /\ SurfaceFairness

(***************************************************************************)
(* Properties.                                                             *)
(***************************************************************************)

\* Handles, calls and ids lead to instances and workers that were started.
SurfaceTypeOK ==
    /\ registered \in [Surface -> 0..Len(instance)]
    /\ \A i \in 1..Len(instance) :
           /\ instance[i].id \in Surface /\ instance[i].stage \in Stage
           /\ instance[i].gen \in 1..workers /\ instance[i].next \in 0..workers
           /\ Replacing(i) <=> instance[i].next # 0
    /\ \A h \in Handle :
           handle[h] = Free \/ /\ handle[h].pc \in {"starting", "held", "cleared", "completion", "drain", "closing"}
                               /\ handle[h].of \in 1..Len(instance)
                               /\ handle[h].gen \in 0..workers
    /\ \A c \in Invocation :
           call[c] = Quiet \/ /\ call[c].pc \in {"barrier", "running", "health"}
                              /\ call[c].of \in 1..Len(instance)
                              /\ call[c].gen \in 0..workers
    /\ workers \in 0..MaxGenerations /\ running \subseteq 1..workers
    /\ engine.pc \in {"open", "starts", "completions", "drain", "closed"}
    /\ engine.of \subseteq 1..Len(instance)

\* A session that has a handle has a worker, whatever is released, replaced
\* or fails beside it; and no call is on a worker that has been swapped out.
ServedByCurrent ==
    /\ \A h \in Handle : handle[h].pc = "held" => instance[handle[h].of].gen \in running
    /\ \A c \in Invocation : call[c].pc \in {"running", "health"} => call[c].gen = instance[call[c].of].gen

\* Nobody waits for ever, though a release waits for a replacement, a
\* replacement for calls, calls for its barrier, and close for them all.
WaitsEnd ==
    /\ \A c \in Invocation : call[c].pc = "barrier" ~> call[c].pc # "barrier"
    /\ \A h \in Handle : handle[h].pc \in {"starting", "completion", "drain", "closing"} ~>
                             handle[h].pc \in {"free", "held", "cleared"}
    /\ engine.pc = "starts" ~> engine.pc = "closed"

\* The last release disposes of an instance when what is under way on it is
\* over: no call loses its worker to it.
ReleaseWaits ==
    engine.pc = "open" => \A c \in Invocation : call[c].pc = "running" => call[c].gen \in running

=============================================================================
