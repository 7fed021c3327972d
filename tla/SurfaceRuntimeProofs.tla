------------------------ MODULE SurfaceRuntimeProofs ------------------------
(***************************************************************************)
(* What the surface engine guarantees for any number of ids, sessions and  *)
(* calls: a held handle has a running worker, and no call is on a          *)
(* generation that was swapped out.                                        *)
(***************************************************************************)
EXTENDS SurfaceRuntime, SequenceTheorems, TLAPS

(***************************************************************************)
(* The inductive invariant.  Workers have one instance each, which has one *)
(* or, while it is replaced, two of them.  What somebody wants is running: *)
(* the worker of an instance that starts, has an id or is held, and the    *)
(* candidate that is to become its worker.  A release that closes a worker *)
(* closes one of an instance nobody wants, or will want again: it has no   *)
(* holders, and no id to be acquired by.                                   *)
(***************************************************************************)
InstanceRow == [id : Surface, gen : Nat, stage : Stage, next : Nat]

HandleRow ==
    [pc : {"free", "starting", "held", "cleared", "completion", "drain", "closing"},
     of : Nat, gen : Nat]

CallRow == [pc : {"idle", "barrier", "running", "health"}, of : Nat, gen : Nat]

EngineRow == [pc : {"open", "starts", "completions", "drain", "closed"}, of : SUBSET Nat]

Rows ==
    /\ registered \in [Surface -> Nat]
    /\ instance \in Seq(InstanceRow)
    /\ handle \in [Handle -> HandleRow]
    /\ call \in [Invocation -> CallRow]
    /\ workers \in Nat
    /\ engine \in EngineRow

WorkersApart ==
    \A i \in 1..Len(instance) :
        /\ instance[i].next # instance[i].gen
        /\ \A j \in 1..Len(instance) \ {i} :
               /\ instance[i].gen # instance[j].gen
               /\ instance[i].gen # instance[j].next
               /\ instance[i].next # 0 => instance[i].next # instance[j].next

Registry ==
    \A s \in Surface : registered[s] # 0 =>
        instance[registered[s]].id = s /\ instance[registered[s]].stage # "starting"

Wanted(i) ==
    \/ instance[i].stage = "starting"
    \/ registered[instance[i].id] = i
    \/ \E h \in Handle : handle[h].pc = "held" /\ handle[h].of = i

WantedRuns ==
    engine.pc = "open" => \A i \in 1..Len(instance) : Wanted(i) =>
        /\ instance[i].gen \in running
        /\ instance[i].stage \in {"candidate", "draining"} => instance[i].next \in running

Acquired ==
    \A h \in Handle :
        handle[h].pc \in {"held", "cleared", "completion", "drain", "closing"} =>
            instance[handle[h].of].stage # "starting"

Unwanted(h) ==
    LET i == handle[h].of IN
    /\ registered[instance[i].id] # i
    /\ Holders(i) = {}
    /\ handle[h].gen # 0
    /\ \A j \in 1..Len(instance) \ {i} :
           handle[h].gen # instance[j].gen /\ handle[h].gen # instance[j].next

ClosesUnwanted == \A h \in Handle : handle[h].pc = "closing" => Unwanted(h)

ClosedForgets == engine.pc # "open" => \A h \in Handle : handle[h].pc # "held"

CallsOnCurrent ==
    \A c \in Invocation : call[c].pc \in {"running", "health"} => call[c].gen = instance[call[c].of].gen

SurfaceInv ==
    /\ Rows /\ SurfaceTypeOK
    /\ WorkersApart /\ Registry /\ WantedRuns
    /\ Acquired /\ ClosesUnwanted /\ ClosedForgets /\ CallsOnCurrent


(***************************************************************************)
(* Steps that leave the instances, their ids and the workers alone.        *)
(***************************************************************************)

\* An answer, a failed call, and the end of one.
LEMMA CallEndsSafe ==
    ASSUME SurfaceInv, NEW c \in Invocation, CallGoesOn(c)
    PROVE  SurfaceInv'
<1> USE DEF SurfaceInv
<1>0. call \in [Invocation -> CallRow]
  BY DEF Rows
<1>1. /\ UNCHANGED <<registered, instance, handle, workers, running, engine>>
      /\ call' \in [Invocation -> CallRow]
      /\ \A d \in Invocation : \/ call'[d] = call[d]
                               \/ call'[d] = Quiet
                               \/ /\ call[d].pc = "running" /\ call'[d].pc = "health"
                                  /\ call'[d].of = call[d].of /\ call'[d].gen = call[d].gen
  <2>1. CASE Answer(c)
    BY <1>0, <2>1 DEF Answer, Quiet, CallRow
  <2>2. CASE Fail(c)
    BY <1>0, <2>2 DEF Fail, CallRow
  <2>3. CASE Failed(c)
    BY <1>0, <2>3 DEF Failed, Quiet, CallRow
  <2> QED
    BY <2>1, <2>2, <2>3 DEF CallGoesOn
<1>2. Rows' /\ SurfaceTypeOK'
  BY <1>1 DEF Rows, SurfaceTypeOK, CallRow, Quiet, Replacing
<1>3. WorkersApart' /\ Registry' /\ WantedRuns' /\ Acquired' /\ ClosesUnwanted' /\ ClosedForgets'
  BY <1>1 DEF WorkersApart, Registry, WantedRuns, Wanted, Acquired, ClosesUnwanted, Unwanted, Holders, ClosedForgets
<1>4. CallsOnCurrent'
  BY <1>1 DEF CallsOnCurrent, Rows, CallRow, Quiet
<1> QED
  BY <1>2, <1>3, <1>4


\* A call goes to the generation there is, or waits at the barrier.
LEMMA InvokeSafe ==
    ASSUME SurfaceInv, NEW c \in Invocation, NEW h \in Handle, Invoke(c, h)
    PROVE  SurfaceInv'
<1> USE DEF SurfaceInv
<1> DEFINE i == handle[h].of
<1>1. /\ UNCHANGED <<registered, instance, handle, workers, running, engine>>
      /\ handle[h].pc = "held"
  BY DEF Invoke
<1>2. /\ i \in 1..Len(instance)
      /\ instance[i] \in InstanceRow
      /\ instance[i].gen \in 1..workers
      /\ workers \in Nat
  BY <1>1 DEF SurfaceTypeOK, Rows, Free
<1>3. /\ call' \in [Invocation -> CallRow]
      /\ call'[c].pc \in {"barrier", "running"} /\ call'[c].of = i
      /\ call'[c].gen \in 0..workers
      /\ call'[c].pc = "running" => call'[c].gen = instance[i].gen
      /\ \A d \in Invocation \ {c} : call'[d] = call[d]
  <2> DEFINE barrier == [pc |-> "barrier", of |-> i, gen |-> 0]
             run == [pc |-> "running", of |-> i, gen |-> instance[i].gen]
  <2>1. /\ call' = [call EXCEPT ![c] = barrier] \/ call' = [call EXCEPT ![c] = run]
        /\ call \in [Invocation -> CallRow]
    BY DEF Invoke, Rows
  <2>2. /\ i \in Nat /\ instance[i].gen \in Nat /\ instance[i].gen \in 0..workers /\ 0 \in 0..workers
    BY <1>2 DEF InstanceRow
  <2>3. /\ barrier \in CallRow /\ barrier.pc = "barrier" /\ barrier.of = i /\ barrier.gen \in 0..workers
        /\ run \in CallRow /\ run.pc = "running" /\ run.of = i
        /\ run.gen \in 0..workers /\ run.gen = instance[i].gen
    BY <2>2 DEF CallRow
  <2> HIDE DEF barrier, run
  <2>4. CASE call' = [call EXCEPT ![c] = barrier]
    BY <2>1, <2>3, <2>4
  <2>5. CASE call' = [call EXCEPT ![c] = run]
    BY <2>1, <2>3, <2>5
  <2> QED
    BY <2>1, <2>4, <2>5
<1>4. Rows' /\ SurfaceTypeOK'
  BY <1>1, <1>2, <1>3 DEF Rows, SurfaceTypeOK, Replacing
<1>5. WorkersApart' /\ Registry' /\ WantedRuns' /\ Acquired' /\ ClosesUnwanted' /\ ClosedForgets'
  BY <1>1 DEF WorkersApart, Registry, WantedRuns, Wanted, Acquired, ClosesUnwanted, Unwanted, Holders, ClosedForgets
<1>6. CallsOnCurrent'
  BY <1>1, <1>3 DEF CallsOnCurrent
<1> QED
  BY <1>4, <1>5, <1>6

\* What a step that only moves handles has to show of them.
HandleMoves(h, row) ==
    /\ handle' = [handle EXCEPT ![h] = row]
    /\ UNCHANGED <<instance, call, workers, engine>>

\* It shows the rest of the invariant but for ids and workers.
LEMMA HandleMoved ==
    ASSUME SurfaceInv, NEW h \in Handle, NEW row \in HandleRow, HandleMoves(h, row),
           row = Free \/ (row.pc # "free" /\ row.of \in 1..Len(instance) /\ row.gen \in 0..workers),
           row.pc \in {"held", "cleared", "completion", "drain", "closing"} =>
               instance[row.of].stage # "starting",
           row.pc = "held" => engine.pc = "open"
    PROVE  /\ handle' \in [Handle -> HandleRow]
           /\ handle'[h] = row
           /\ \A o \in Handle \ {h} : handle'[o] = handle[o]
           /\ \A o \in Handle :
                  handle'[o] = Free \/ /\ handle'[o].pc \in {"starting", "held", "cleared", "completion", "drain", "closing"}
                                       /\ handle'[o].of \in 1..Len(instance)
                                       /\ handle'[o].gen \in 0..workers
           /\ WorkersApart' /\ Acquired' /\ ClosedForgets' /\ CallsOnCurrent'
<1> USE DEF SurfaceInv
<1>1. /\ handle' \in [Handle -> HandleRow]
      /\ handle'[h] = row
      /\ \A o \in Handle \ {h} : handle'[o] = handle[o]
  BY DEF HandleMoves, Rows
<1>2. \A o \in Handle :
          handle'[o] = Free \/ /\ handle'[o].pc \in {"starting", "held", "cleared", "completion", "drain", "closing"}
                               /\ handle'[o].of \in 1..Len(instance)
                               /\ handle'[o].gen \in 0..workers
  BY <1>1 DEF SurfaceTypeOK, HandleRow
<1>3. UNCHANGED <<instance, call, workers, engine>>
  BY DEF HandleMoves
<1>4. WorkersApart' /\ CallsOnCurrent'
  BY <1>3 DEF WorkersApart, CallsOnCurrent
<1>5. Acquired'
  BY <1>1, <1>3 DEF Acquired
<1>6. ClosedForgets'
  BY <1>1, <1>3 DEF ClosedForgets
<1> QED
  BY <1>1, <1>2, <1>4, <1>5, <1>6


\* A handle is taken by its id, given up, or on its way to either.
LEMMA QuietMoveSafe ==
    ASSUME SurfaceInv, NEW h \in Handle, NEW row \in HandleRow, HandleMoves(h, row),
           UNCHANGED <<registered, running>>,
           row = Free \/ (row.pc # "free" /\ row.of \in 1..Len(instance) /\ row.gen \in 0..workers),
           row.pc \in {"completion", "drain"} => instance[row.of].stage # "starting",
           row.pc = "held" => engine.pc = "open" /\ registered[instance[row.of].id] = row.of,
           row.pc \notin {"cleared", "closing"}
    PROVE  SurfaceInv'
<1> USE DEF SurfaceInv
<1>1. row.pc = "held" => instance[row.of].stage # "starting"
  <2> SUFFICES ASSUME row.pc = "held" PROVE instance[row.of].stage # "starting"
    OBVIOUS
  <2>1. row.of \in 1..Len(instance)
    BY DEF Free
  <2>2. instance[row.of].id \in Surface /\ registered[instance[row.of].id] = row.of
    BY <2>1 DEF SurfaceTypeOK
  <2> QED
    BY <2>1, <2>2 DEF Registry
<1>2. /\ handle' \in [Handle -> HandleRow]
      /\ handle'[h] = row
      /\ \A o \in Handle \ {h} : handle'[o] = handle[o]
      /\ \A o \in Handle :
             handle'[o] = Free \/ /\ handle'[o].pc \in {"starting", "held", "cleared", "completion", "drain", "closing"}
                                  /\ handle'[o].of \in 1..Len(instance)
                                  /\ handle'[o].gen \in 0..workers
      /\ WorkersApart' /\ Acquired' /\ ClosedForgets' /\ CallsOnCurrent'
  BY <1>1, HandleMoved
<1>3. UNCHANGED <<registered, instance, call, workers, running, engine>>
  BY DEF HandleMoves
<1>4. Rows' /\ SurfaceTypeOK'
  BY <1>2, <1>3 DEF Rows, SurfaceTypeOK, Replacing
<1>5. Registry'
  BY <1>3 DEF Registry
<1>6. WantedRuns'
  BY <1>2, <1>3 DEF WantedRuns, Wanted
<1>7. ClosesUnwanted'
  <2> SUFFICES ASSUME NEW o \in Handle, handle'[o].pc = "closing" PROVE Unwanted(o)'
    BY DEF ClosesUnwanted
  <2>1. o # h /\ handle'[o] = handle[o] /\ Unwanted(o)
    BY <1>2 DEF ClosesUnwanted
  <2>2. Holders(handle[o].of)' = {}
    BY <2>1, <1>2, <1>3 DEF Unwanted, Holders
  <2> QED
    BY <2>1, <2>2, <1>3 DEF Unwanted
<1> QED
  BY <1>2, <1>4, <1>5, <1>6, <1>7

\* The last holder's handle goes, and with it the id.
LEMMA DisposalSafe ==
    ASSUME SurfaceInv, NEW h \in Handle, NEW i \in 1..Len(instance),
           HandleMoves(h, [pc |-> "closing", of |-> i, gen |-> instance[i].gen]),
           Unregister(instance[i].id), UNCHANGED running,
           instance[i].stage # "starting",
           Holders(i) \subseteq {h}
    PROVE  SurfaceInv'
<1> USE DEF SurfaceInv
<1> DEFINE row == [pc |-> "closing", of |-> i, gen |-> instance[i].gen]
<1>1. /\ instance[i] \in InstanceRow
      /\ instance[i].gen \in 1..workers
      /\ instance[i].id \in Surface
      /\ workers \in Nat
  BY DEF SurfaceTypeOK, Rows
<1>2. row \in HandleRow /\ row.gen \in 0..workers
  BY <1>1 DEF HandleRow, InstanceRow
<1>3. /\ handle' \in [Handle -> HandleRow]
      /\ handle'[h] = row
      /\ \A o \in Handle \ {h} : handle'[o] = handle[o]
      /\ \A o \in Handle :
             handle'[o] = Free \/ /\ handle'[o].pc \in {"starting", "held", "cleared", "completion", "drain", "closing"}
                                  /\ handle'[o].of \in 1..Len(instance)
                                  /\ handle'[o].gen \in 0..workers
      /\ WorkersApart' /\ Acquired' /\ ClosedForgets' /\ CallsOnCurrent'
  BY <1>2, HandleMoved
<1>4. /\ UNCHANGED <<instance, call, workers, running, engine>>
      /\ registered' \in [Surface -> Nat]
      /\ registered' \in [Surface -> 0..Len(instance)]
      /\ registered'[instance[i].id] = 0
      /\ \A s \in Surface \ {instance[i].id} : registered'[s] = registered[s]
  <2>1. /\ UNCHANGED <<instance, call, workers, running, engine>>
        /\ registered \in [Surface -> Nat] /\ registered \in [Surface -> 0..Len(instance)]
        /\ registered' = [registered EXCEPT ![instance[i].id] = 0]
    BY DEF HandleMoves, Unregister, Rows, SurfaceTypeOK
  <2>2. 0 \in 0..Len(instance)
    OBVIOUS
  <2> QED
    BY <1>1, <2>1, <2>2
<1>5. Rows' /\ SurfaceTypeOK'
  <2>1. Rows'
    BY <1>3, <1>4 DEF Rows
  <2>2. SurfaceTypeOK'
    BY <1>3, <1>4 DEF SurfaceTypeOK, Replacing
  <2> QED
    BY <2>1, <2>2
<1>6. Registry'
  BY <1>4 DEF Registry
<1>7. WantedRuns'
  <2>1. ASSUME NEW j \in 1..Len(instance), Wanted(j)' PROVE Wanted(j)
    <3>1. instance[j].id \in Surface
      BY DEF SurfaceTypeOK
    <3> QED
      BY <2>1, <3>1, <1>3, <1>4 DEF Wanted
  <2> QED
    BY <2>1, <1>4 DEF WantedRuns
<1>8. ClosesUnwanted'
  <2> SUFFICES ASSUME NEW o \in Handle, handle'[o].pc = "closing" PROVE Unwanted(o)'
    BY DEF ClosesUnwanted
  <2>1. CASE o = h
    <3>1. Holders(i)' = {}
      BY <1>3, <1>4 DEF Holders
    <3>2. \A j \in 1..Len(instance) \ {i} :
              instance[i].gen # instance[j].gen /\ instance[i].gen # instance[j].next
      BY DEF WorkersApart
    <3>3. handle'[o].of = i /\ handle'[o].gen = instance[i].gen
      BY <2>1, <1>3
    <3>4. registered'[instance[i].id] # i /\ instance[i].gen # 0
      BY <1>1, <1>4
    <3> QED
      BY <3>1, <3>2, <3>3, <3>4, <1>4 DEF Unwanted
  <2>2. CASE o # h
    <3>1. handle'[o] = handle[o] /\ Unwanted(o)
      BY <2>2, <1>3 DEF ClosesUnwanted
    <3>2. handle[o].of \in 1..Len(instance) /\ instance[handle[o].of].id \in Surface
      BY <2>2, <1>3 DEF SurfaceTypeOK, Free
    <3>3. Holders(handle[o].of)' = {}
      BY <3>1, <1>3, <1>4 DEF Unwanted, Holders
    <3>4. registered'[instance[handle[o].of].id] # handle[o].of
      BY <3>1, <3>2, <1>4 DEF Unwanted
    <3> QED
      BY <3>1, <3>3, <3>4, <1>4 DEF Unwanted
  <2> QED
    BY <2>1, <2>2
<1> QED
  BY <1>3, <1>5, <1>6, <1>7, <1>8

\* Facts about a handle that is not free.
LEMMA HandleLeads ==
    ASSUME SurfaceInv, NEW h \in Handle, handle[h].pc # "free"
    PROVE  /\ handle[h].of \in 1..Len(instance)
           /\ handle[h].gen \in 0..workers /\ workers \in Nat
           /\ instance[handle[h].of] \in InstanceRow
           /\ instance[handle[h].of].gen \in 1..workers
           /\ handle[h].pc # "starting" => instance[handle[h].of].stage # "starting"
<1> USE DEF SurfaceInv
<1>1. /\ handle[h].pc \in {"starting", "held", "cleared", "completion", "drain", "closing"}
      /\ handle[h].of \in 1..Len(instance)
      /\ handle[h].gen \in 0..workers
  BY DEF SurfaceTypeOK, Free
<1>2. instance[handle[h].of] \in InstanceRow /\ workers \in Nat
  BY <1>1 DEF Rows
<1>3. instance[handle[h].of].gen \in 1..workers
  BY <1>1 DEF SurfaceTypeOK
<1> QED
  BY <1>1, <1>2, <1>3 DEF Acquired

\* A session joins the start of an instance, or takes it from its id.
LEMMA AcquireSafe ==
    ASSUME SurfaceInv, NEW h \in Handle, NEW s \in Surface, Join(h, s) \/ Reuse(h, s)
    PROVE  SurfaceInv'
<1>1. CASE Join(h, s)
  <2>1. PICK i \in Starting(s) : handle' = [handle EXCEPT ![h] = [pc |-> "starting", of |-> i, gen |-> 0]]
    BY <1>1 DEF Join
  <2>2. i \in 1..Len(instance) /\ i \in Nat /\ workers \in Nat
    BY <2>1 DEF Starting, SurfaceInv, Rows
  <2> DEFINE row == [pc |-> "starting", of |-> i, gen |-> 0]
  <2>3. row \in HandleRow /\ row.gen \in 0..workers
    BY <2>2 DEF HandleRow
  <2>4. HandleMoves(h, row) /\ UNCHANGED <<registered, running>>
    BY <1>1, <2>1 DEF Join, HandleMoves
  <2> QED
    BY <2>2, <2>3, <2>4, QuietMoveSafe
<1>2. CASE Reuse(h, s)
  <2> DEFINE row == Held(registered[s])
  <2>1. /\ registered[s] # 0 /\ engine.pc = "open"
        /\ HandleMoves(h, row) /\ UNCHANGED <<registered, running>>
    BY <1>2 DEF Reuse, HandleMoves
  <2>2. registered[s] \in 1..Len(instance) /\ registered[s] \in Nat /\ workers \in Nat
    BY <2>1 DEF SurfaceInv, SurfaceTypeOK, Rows
  <2>3. registered[instance[registered[s]].id] = registered[s]
    BY <2>1 DEF SurfaceInv, Registry
  <2>4. row \in HandleRow /\ row.gen \in 0..workers /\ row.of = registered[s] /\ row.pc = "held"
    BY <2>2 DEF HandleRow, Held
  <2> HIDE DEF row
  <2> QED
    BY <2>1, <2>2, <2>3, <2>4, QuietMoveSafe
<1> QED
  BY <1>1, <1>2

\* A handle is released: others are left, or a replacement or calls are
\* waited for, or the instance is disposed of.
LEMMA ReleaseSafe ==
    ASSUME SurfaceInv, NEW h \in Handle, Release(h)
    PROVE  SurfaceInv'
<1> DEFINE i == handle[h].of
           Row == IF Holders(i) # {h} THEN Free
                  ELSE IF Replacing(i) THEN [pc |-> "completion", of |-> i, gen |-> 0]
                  ELSE Drains(i, instance[i].gen, {})
<1>1. /\ handle[h].pc = "held"
      /\ handle' = [handle EXCEPT ![h] = Row]
      /\ IF handle'[h].pc = "closing" THEN Unregister(instance[i].id) ELSE UNCHANGED registered
      /\ UNCHANGED <<instance, call, workers, running, engine>>
  BY DEF Release
<1>2. /\ i \in 1..Len(instance) /\ i \in Nat
      /\ instance[i].gen \in 1..workers /\ instance[i].gen \in Nat /\ workers \in Nat
      /\ instance[i].stage # "starting"
  BY <1>1, HandleLeads DEF SurfaceInv, Rows
<1>3. \/ Row = Free
      \/ Row = [pc |-> "completion", of |-> i, gen |-> 0]
      \/ Row = [pc |-> "drain", of |-> i, gen |-> instance[i].gen]
      \/ Row = [pc |-> "closing", of |-> i, gen |-> instance[i].gen] /\ Holders(i) = {h}
  BY DEF Drains
<1> HIDE DEF Row
<1>4. handle'[h] = Row
  BY <1>1 DEF SurfaceInv, Rows
<1>5. HandleMoves(h, Row)
  BY <1>1 DEF HandleMoves
<1>6. CASE Row.pc = "closing"
  <2>1. Row = [pc |-> "closing", of |-> i, gen |-> instance[i].gen] /\ Holders(i) \subseteq {h}
    BY <1>3, <1>6 DEF Free
  <2> QED
    BY <1>1, <1>2, <1>4, <1>5, <1>6, <2>1, DisposalSafe
<1>7. CASE Row.pc # "closing"
  <2>1. /\ Row = Free \/ (Row.pc \in {"completion", "drain"} /\ Row.of = i /\ Row.gen \in 0..workers)
        /\ Row \in HandleRow
    BY <1>2, <1>3, <1>7 DEF HandleRow, Free
  <2>2. UNCHANGED <<registered, running>>
    BY <1>1, <1>4, <1>7
  <2>3. /\ Row = Free \/ (Row.pc # "free" /\ Row.of \in 1..Len(instance) /\ Row.gen \in 0..workers)
        /\ Row.pc \in {"completion", "drain"} => instance[Row.of].stage # "starting"
        /\ Row.pc \notin {"held", "cleared", "closing"}
    BY <1>2, <2>1 DEF Free
  <2> QED
    BY <1>5, <2>1, <2>2, <2>3, QuietMoveSafe
<1> QED
  BY <1>6, <1>7

\* The row of a release that closes its worker.
LEMMA RowOf ==
    ASSUME NEW r \in HandleRow, NEW g \in Nat
    PROVE  [r EXCEPT !.pc = "closing", !.gen = g] = [pc |-> "closing", of |-> r.of, gen |-> g]
<1> DEFINE e == [r EXCEPT !.pc = "closing", !.gen = g]
<1>1. e \in HandleRow /\ e.pc = "closing" /\ e.of = r.of /\ e.gen = g
  BY DEF HandleRow
<1>2. SUFFICES e = [pc |-> "closing", of |-> r.of, gen |-> g]
  OBVIOUS
<1> HIDE DEF e
<1>3. e = [pc |-> e.pc, of |-> e.of, gen |-> e.gen]
  BY <1>1 DEF HandleRow
<1> QED
  BY <1>1, <1>3

\* A release goes on after its drain, or gives up.
LEMMA DrainEndsSafe ==
    ASSUME SurfaceInv, NEW h \in Handle, Dispose(h) \/ Kept(h) \/ ReleaseTimeout(h)
    PROVE  SurfaceInv'
<1> DEFINE i == handle[h].of
<1>1. handle[h].pc = "drain"
  BY DEF Dispose, Kept, ReleaseTimeout, Drained
<1>2. /\ i \in 1..Len(instance)
      /\ instance[i].stage # "starting"
      /\ handle[h] \in HandleRow /\ Handle = DOMAIN handle
      /\ instance[i].gen \in Nat
  BY <1>1, HandleLeads DEF SurfaceInv, Rows
<1>3. CASE Dispose(h)
  <2> DEFINE row == [pc |-> "closing", of |-> i, gen |-> instance[i].gen]
  <2>1. handle' = [handle EXCEPT ![h].pc = "closing", ![h].gen = instance[i].gen]
    BY <1>3 DEF Dispose
  <2>2. [handle[h] EXCEPT !.pc = "closing", !.gen = instance[i].gen] = row
    BY <1>2, RowOf
  <2>3. handle' = [handle EXCEPT ![h] = row]
    BY <2>1, <2>2, <1>2
  <2>4. HandleMoves(h, row) /\ Unregister(instance[i].id) /\ UNCHANGED running /\ Holders(i) = {}
    BY <2>3, <1>3 DEF Dispose, HandleMoves
  <2> QED
    BY <1>2, <2>4, DisposalSafe
<1>4. CASE Kept(h) \/ ReleaseTimeout(h)
  <2>1. HandleMoves(h, Free) /\ UNCHANGED <<registered, running>>
    BY <1>4 DEF Kept, ReleaseTimeout, HandleMoves
  <2>2. Free \in HandleRow /\ Free.pc = "free"
    BY DEF Free, HandleRow
  <2> QED
    BY <2>1, <2>2, QuietMoveSafe
<1> QED
  BY <1>3, <1>4

\* The worker that is closed at the end of a release is nobody's.
LEMMA DisposedSafe ==
    ASSUME SurfaceInv, NEW h \in Handle, Disposed(h)
    PROVE  SurfaceInv'
<1> USE DEF SurfaceInv
<1> DEFINE i == handle[h].of
           g == handle[h].gen
<1>1. /\ handle[h].pc = "closing" /\ Unwanted(h)
      /\ HandleMoves(h, Free)
      /\ running' = running \ {g}
      /\ UNCHANGED <<registered, instance, call, workers, engine>>
  BY DEF Disposed, ClosesUnwanted, HandleMoves
<1>2. Free \in HandleRow /\ Free.pc = "free"
  BY DEF Free, HandleRow
<1>3. /\ handle' \in [Handle -> HandleRow]
      /\ handle'[h] = Free
      /\ \A o \in Handle \ {h} : handle'[o] = handle[o]
      /\ \A o \in Handle :
             handle'[o] = Free \/ /\ handle'[o].pc \in {"starting", "held", "cleared", "completion", "drain", "closing"}
                                  /\ handle'[o].of \in 1..Len(instance)
                                  /\ handle'[o].gen \in 0..workers
      /\ WorkersApart' /\ Acquired' /\ ClosedForgets' /\ CallsOnCurrent'
  BY <1>1, <1>2, HandleMoved
<1>4. Rows' /\ SurfaceTypeOK'
  BY <1>1, <1>3 DEF Rows, SurfaceTypeOK, Replacing
<1>5. Registry'
  BY <1>1 DEF Registry
<1>6. WantedRuns'
  <2>1. i \in 1..Len(instance) /\ instance[i].stage # "starting"
    BY <1>1, HandleLeads
  <2>2. ~Wanted(i)
    BY <1>1, <2>1 DEF Unwanted, Wanted, Holders
  <2>3. SUFFICES ASSUME engine.pc = "open", NEW j \in 1..Len(instance), Wanted(j)'
                 PROVE  /\ instance[j].gen \in running'
                        /\ instance[j].stage \in {"candidate", "draining"} => instance[j].next \in running'
    BY <1>1 DEF WantedRuns
  <2>4. Wanted(j)
    BY <2>3, <1>1, <1>2, <1>3 DEF Wanted
  <2>5. j # i
    BY <2>2, <2>4
  <2>6. g # instance[j].gen /\ g # instance[j].next
    BY <2>5, <1>1 DEF Unwanted
  <2> QED
    BY <2>3, <2>4, <2>6, <1>1 DEF WantedRuns
<1>7. ClosesUnwanted'
  <2> SUFFICES ASSUME NEW o \in Handle, handle'[o].pc = "closing" PROVE Unwanted(o)'
    BY DEF ClosesUnwanted
  <2>1. handle'[o] = handle[o] /\ Unwanted(o)
    BY <1>2, <1>3 DEF ClosesUnwanted
  <2>2. Holders(handle[o].of)' = {}
    BY <2>1, <1>1, <1>2, <1>3 DEF Unwanted, Holders
  <2> QED
    BY <2>1, <2>2, <1>1 DEF Unwanted
<1> QED
  BY <1>3, <1>4, <1>5, <1>6, <1>7

(***************************************************************************)
(* close.                                                                  *)
(***************************************************************************)

\* The engine forgets its handles, and nobody gets one any more.
LEMMA CloseSafe ==
    ASSUME SurfaceInv, Close
    PROVE  SurfaceInv'
<1> USE DEF SurfaceInv
<1>1. /\ UNCHANGED <<registered, instance, call, workers, running>>
      /\ engine' = [pc |-> "starts", of |-> {}] /\ engine'.pc = "starts" /\ engine'.of = {}
      /\ engine' \in EngineRow
  BY DEF Close, EngineRow
<1>2. \A h \in Handle :
          /\ handle[h].pc # "held" => handle'[h] = handle[h]
          /\ handle[h].pc = "held" => /\ handle'[h].pc = "cleared"
                                      /\ handle'[h].of = handle[h].of /\ handle'[h].gen = handle[h].gen
  BY DEF Close, Rows, HandleRow
<1>3. handle' \in [Handle -> HandleRow]
  BY DEF Close, Rows, HandleRow
<1>4. Rows'
  BY <1>1, <1>3 DEF Rows
<1>5. SurfaceTypeOK'
  <2>1. \A h \in Handle :
            handle'[h] = Free \/ /\ handle'[h].pc \in {"starting", "held", "cleared", "completion", "drain", "closing"}
                                 /\ handle'[h].of \in 1..Len(instance)
                                 /\ handle'[h].gen \in 0..workers
    BY <1>2 DEF SurfaceTypeOK, Free
  <2> QED
    BY <1>1, <2>1 DEF SurfaceTypeOK, Replacing
<1>6. WorkersApart' /\ Registry' /\ WantedRuns' /\ CallsOnCurrent'
  BY <1>1 DEF WorkersApart, Registry, WantedRuns, CallsOnCurrent
<1>7. Acquired' /\ ClosedForgets'
  BY <1>1, <1>2 DEF Acquired, ClosedForgets
<1>8. ClosesUnwanted'
  <2> SUFFICES ASSUME NEW o \in Handle, handle'[o].pc = "closing" PROVE Unwanted(o)'
    BY DEF ClosesUnwanted
  <2>1. handle'[o] = handle[o] /\ Unwanted(o)
    BY <1>2 DEF ClosesUnwanted
  <2>2. Holders(handle[o].of)' = {}
    BY <2>1, <1>2 DEF Unwanted, Holders
  <2> QED
    BY <2>1, <2>2, <1>1 DEF Unwanted
<1> QED
  BY <1>4, <1>5, <1>6, <1>7, <1>8

\* The rest of close, where no worker is wanted any more.
LEMMA CloseGoesOnSafe ==
    ASSUME SurfaceInv, CloseGoesOn
    PROVE  SurfaceInv'
<1> USE DEF SurfaceInv
<1>1. /\ engine.pc # "open" /\ engine'.pc # "open"
      /\ UNCHANGED <<instance, handle, call, workers>>
      /\ running' \subseteq running
      /\ engine' \in EngineRow
      /\ engine'.pc \in {"completions", "drain", "closed"} /\ engine'.of \subseteq 1..Len(instance)
  <2>1. 1..Len(instance) \subseteq Nat
    OBVIOUS
  <2>2. CASE CloseAfterStarts
    BY <2>1, <2>2 DEF CloseAfterStarts, EngineRow, Registered
  <2>3. CASE CloseAfterCompletions
    BY <2>1, <2>3 DEF CloseAfterCompletions, EngineRow, Registered
  <2>4. CASE CloseWorkers
    BY <2>4 DEF CloseWorkers, EngineRow
  <2> QED
    BY <2>2, <2>3, <2>4 DEF CloseGoesOn
<1>2. \/ registered' = registered
      \/ registered' = [s \in Surface |-> 0]
  BY DEF CloseGoesOn, CloseAfterStarts, CloseAfterCompletions, CloseWorkers
<1>3. /\ registered' \in [Surface -> Nat] /\ registered' \in [Surface -> 0..Len(instance)]
      /\ \A s \in Surface : registered'[s] # 0 => registered'[s] = registered[s]
  <2>1. registered \in [Surface -> Nat] /\ registered \in [Surface -> 0..Len(instance)] /\ 0 \in 0..Len(instance)
    BY DEF Rows, SurfaceTypeOK
  <2> QED
    BY <1>2, <2>1
<1>4. Rows'
  BY <1>1, <1>3 DEF Rows
<1>5. SurfaceTypeOK'
  BY <1>1, <1>3 DEF SurfaceTypeOK, Replacing
<1>6. WorkersApart' /\ Registry' /\ WantedRuns' /\ CallsOnCurrent' /\ Acquired' /\ ClosedForgets'
  BY <1>1, <1>3 DEF WorkersApart, Registry, WantedRuns, CallsOnCurrent, Acquired, ClosedForgets
<1>7. ClosesUnwanted'
  <2> SUFFICES ASSUME NEW o \in Handle, handle[o].pc = "closing" PROVE Unwanted(o)'
    BY <1>1 DEF ClosesUnwanted
  <2>1. Unwanted(o)
    BY DEF ClosesUnwanted
  <2>2. handle[o].of \in 1..Len(instance) /\ instance[handle[o].of].id \in Surface
    BY DEF SurfaceTypeOK, Free
  <2>3. registered'[instance[handle[o].of].id] # handle[o].of
    BY <2>1, <2>2, <1>3 DEF Unwanted
  <2>4. Holders(handle[o].of)' = {}
    BY <2>1, <1>1 DEF Unwanted, Holders
  <2> QED
    BY <2>1, <2>3, <2>4, <1>1 DEF Unwanted
<1> QED
  BY <1>4, <1>5, <1>6, <1>7

(***************************************************************************)
(* Steps of an instance: its row changes, and its workers are among those  *)
(* it had and a new one.                                                   *)
(***************************************************************************)
LEMMA RowMoved ==
    ASSUME SurfaceInv, NEW i \in 1..Len(instance), NEW r \in InstanceRow, Set(i, r),
           r.id = instance[i].id,
           r.gen \in {instance[i].gen, instance[i].next}, r.gen # 0, r.gen # r.next,
           r.next \in {0, instance[i].gen, instance[i].next, workers + 1},
           r.stage \in {"candidate", "draining", "closing"} <=> r.next # 0,
           workers' \in {workers, workers + 1}, workers' \in 0..MaxGenerations,
           r.next = workers + 1 => workers' = workers + 1
    PROVE  /\ instance' \in Seq(InstanceRow) /\ Len(instance') = Len(instance)
           /\ instance'[i] = r
           /\ \A j \in 1..Len(instance) \ {i} : instance'[j] = instance[j]
           /\ \A j \in 1..Len(instance) :
                  /\ instance'[j].id \in Surface /\ instance'[j].stage \in Stage
                  /\ instance'[j].gen \in 1..workers' /\ instance'[j].next \in 0..workers'
                  /\ instance'[j].stage \in {"candidate", "draining", "closing"} <=> instance'[j].next # 0
           /\ WorkersApart'
           /\ \A h \in Handle : handle[h].pc = "closing" =>
                  \A j \in 1..Len(instance) \ {handle[h].of} :
                      handle[h].gen # instance'[j].gen /\ handle[h].gen # instance'[j].next
<1> USE DEF SurfaceInv
<1>1. /\ instance' \in Seq(InstanceRow) /\ Len(instance') = Len(instance)
      /\ instance'[i] = r
      /\ \A j \in 1..Len(instance) \ {i} : instance'[j] = instance[j]
  BY DEF Set, Rows
<1>2. /\ workers \in Nat
      /\ \A j \in 1..Len(instance) :
             /\ instance[j].id \in Surface /\ instance[j].stage \in Stage
             /\ instance[j].gen \in 1..workers /\ instance[j].next \in 0..workers
             /\ instance[j].stage \in {"candidate", "draining", "closing"} <=> instance[j].next # 0
  BY DEF Rows, SurfaceTypeOK, Replacing
<1>3. \A j \in 1..Len(instance) :
          /\ instance'[j].id \in Surface /\ instance'[j].stage \in Stage
          /\ instance'[j].gen \in 1..workers' /\ instance'[j].next \in 0..workers'
          /\ instance'[j].stage \in {"candidate", "draining", "closing"} <=> instance'[j].next # 0
  <2> SUFFICES ASSUME NEW j \in 1..Len(instance)
               PROVE  /\ instance'[j].id \in Surface /\ instance'[j].stage \in Stage
                      /\ instance'[j].gen \in 1..workers' /\ instance'[j].next \in 0..workers'
                      /\ instance'[j].stage \in {"candidate", "draining", "closing"} <=> instance'[j].next # 0
    OBVIOUS
  <2>1. CASE j = i
    BY <2>1, <1>1, <1>2 DEF InstanceRow
  <2>2. CASE j # i
    BY <2>2, <1>1, <1>2
  <2> QED
    BY <2>1, <2>2
<1>4. WorkersApart'
  <2> SUFFICES ASSUME NEW j \in 1..Len(instance)
               PROVE  /\ instance'[j].next # instance'[j].gen
                      /\ \A k \in 1..Len(instance) \ {j} :
                             /\ instance'[j].gen # instance'[k].gen
                             /\ instance'[j].gen # instance'[k].next
                             /\ instance'[j].next # 0 => instance'[j].next # instance'[k].next
    BY <1>1 DEF WorkersApart
  <2>1. \A k \in 1..Len(instance) \ {i} :
            /\ r.gen # instance[k].gen /\ r.gen # instance[k].next
            /\ r.next # 0 => r.next # instance[k].next
            /\ r.next # instance[k].gen
    BY <1>2 DEF WorkersApart
  <2>2. CASE j = i
    BY <2>1, <2>2, <1>1
  <2>3. CASE j # i
    <3>1. ASSUME NEW k \in 1..Len(instance) \ {j}
          PROVE  /\ instance[j].gen # instance'[k].gen
                 /\ instance[j].gen # instance'[k].next
                 /\ instance[j].next # 0 => instance[j].next # instance'[k].next
      <4>1. CASE k = i
        BY <2>1, <2>3, <4>1, <1>1
      <4>2. CASE k # i
        BY <4>2, <1>1, <2>3 DEF WorkersApart
      <4> QED
        BY <4>1, <4>2
    <3> QED
      BY <3>1, <2>3, <1>1 DEF WorkersApart
  <2> QED
    BY <2>2, <2>3
<1>5. ASSUME NEW h \in Handle, handle[h].pc = "closing",
             NEW j \in 1..Len(instance) \ {handle[h].of}
      PROVE  handle[h].gen # instance'[j].gen /\ handle[h].gen # instance'[j].next
  <2>1. /\ handle[h].gen # 0 /\ handle[h].gen \in 0..workers
        /\ handle[h].gen # instance[j].gen /\ handle[h].gen # instance[j].next
    BY <1>5, HandleLeads DEF ClosesUnwanted, Unwanted
  <2>2. CASE j = i
    BY <2>1, <2>2, <1>1, <1>2
  <2>3. CASE j # i
    BY <2>1, <2>3, <1>1
  <2> QED
    BY <2>2, <2>3
<1> QED
  BY <1>1, <1>3, <1>4, <1>5

\* What the invariant says of one instance.
LEMMA RowFacts ==
    ASSUME SurfaceInv, NEW i \in 1..Len(instance)
    PROVE  /\ instance[i] \in InstanceRow /\ instance[i].id \in Surface
           /\ instance[i].stage \in Stage /\ i \in Nat
           /\ instance[i].gen \in 1..workers /\ instance[i].gen \in Nat /\ instance[i].gen # 0
           /\ instance[i].next \in 0..workers /\ instance[i].next \in Nat
           /\ instance[i].gen # instance[i].next
           /\ instance[i].stage \in {"candidate", "draining", "closing"} <=> instance[i].next # 0
           /\ workers \in Nat /\ workers \in 0..MaxGenerations
<1> USE DEF SurfaceInv
<1>1. instance[i] \in InstanceRow /\ workers \in Nat /\ i \in Nat
  BY DEF Rows
<1>2. /\ instance[i].id \in Surface /\ instance[i].stage \in Stage
      /\ instance[i].gen \in 1..workers
      /\ instance[i].next \in 0..workers
      /\ instance[i].stage \in {"candidate", "draining", "closing"} <=> instance[i].next # 0
      /\ workers \in 0..MaxGenerations
  BY DEF SurfaceTypeOK, Replacing
<1>3. instance[i].gen # instance[i].next
  BY DEF WorkersApart
<1> QED
  BY <1>1, <1>2, <1>3

\* Whoever waited for the start has the instance.
LEMMA StartedSafe ==
    ASSUME SurfaceInv, NEW i \in 1..Len(instance), Started(i)
    PROVE  SurfaceInv'
<1> USE DEF SurfaceInv
<1> DEFINE r == [instance[i] EXCEPT !.stage = "ready"]
<1>1. /\ instance[i] \in InstanceRow /\ instance[i].id \in Surface
      /\ instance[i].gen \in 1..workers /\ instance[i].next = 0
      /\ instance[i].stage = "starting" /\ engine.pc = "open"
      /\ workers \in Nat /\ workers \in 0..MaxGenerations
      /\ UNCHANGED <<call, workers, running, engine>>
      /\ Set(i, r)
  BY RowFacts DEF Started
<1>2. /\ r \in InstanceRow /\ r.stage = "ready"
      /\ r.id = instance[i].id /\ r.gen = instance[i].gen /\ r.next = 0
  BY <1>1 DEF InstanceRow, Stage
<1>3. /\ instance' \in Seq(InstanceRow) /\ Len(instance') = Len(instance)
      /\ instance'[i] = r
      /\ \A j \in 1..Len(instance) \ {i} : instance'[j] = instance[j]
      /\ \A j \in 1..Len(instance) :
             /\ instance'[j].id \in Surface /\ instance'[j].stage \in Stage
             /\ instance'[j].gen \in 1..workers' /\ instance'[j].next \in 0..workers'
             /\ instance'[j].stage \in {"candidate", "draining", "closing"} <=> instance'[j].next # 0
      /\ WorkersApart'
      /\ \A h \in Handle : handle[h].pc = "closing" =>
             \A j \in 1..Len(instance) \ {handle[h].of} :
                 handle[h].gen # instance'[j].gen /\ handle[h].gen # instance'[j].next
  <2>1. r.gen # 0 /\ r.gen # r.next
    BY <1>1, <1>2
  <2> HIDE DEF r
  <2> QED
    BY <1>1, <1>2, <2>1, RowMoved
<1> HIDE DEF r
<1>4. /\ registered' \in [Surface -> Nat] /\ registered' \in [Surface -> 0..Len(instance)]
      /\ registered'[instance[i].id] = i
      /\ \A s \in Surface \ {instance[i].id} : registered'[s] = registered[s]
  <2>1. /\ registered' = [registered EXCEPT ![instance[i].id] = i]
        /\ registered \in [Surface -> Nat] /\ registered \in [Surface -> 0..Len(instance)]
        /\ i \in Nat /\ i \in 0..Len(instance)
    BY DEF Started, Rows, SurfaceTypeOK
  <2> QED
    BY <2>1, <1>1
<1>5. \A h \in Handle :
          \/ handle'[h] = handle[h] /\ ~Awaiting(h, i)
          \/ Awaiting(h, i) /\ handle'[h].pc = "held" /\ handle'[h].of = i /\ handle'[h].gen = 0
  BY DEF Started, Held
<1>6. handle' \in [Handle -> HandleRow]
  <2>1. Held(i) \in HandleRow
    BY DEF Held, HandleRow
  <2> QED
    BY <2>1 DEF Started, Rows
<1>7. Rows'
  BY <1>1, <1>3, <1>4, <1>6 DEF Rows
<1>8. SurfaceTypeOK'
  <2>1. \A h \in Handle :
            handle'[h] = Free \/ /\ handle'[h].pc \in {"starting", "held", "cleared", "completion", "drain", "closing"}
                                 /\ handle'[h].of \in 1..Len(instance)
                                 /\ handle'[h].gen \in 0..workers
    BY <1>1, <1>5 DEF SurfaceTypeOK
  <2> QED
    BY <1>1, <1>3, <1>4, <2>1 DEF SurfaceTypeOK, Replacing
<1>9. Registry'
  <2> SUFFICES ASSUME NEW s \in Surface, registered'[s] # 0
               PROVE  instance'[registered'[s]].id = s /\ instance'[registered'[s]].stage # "starting"
    BY DEF Registry
  <2>1. CASE s = instance[i].id
    BY <2>1, <1>2, <1>3, <1>4
  <2>2. CASE s # instance[i].id
    <3>1. /\ registered'[s] = registered[s] /\ registered[s] \in 1..Len(instance)
          /\ instance[registered[s]].id = s /\ instance[registered[s]].stage # "starting"
      BY <2>2, <1>4 DEF Registry, SurfaceTypeOK
    <3> QED
      BY <3>1, <2>2, <1>3
  <2> QED
    BY <2>1, <2>2
<1>10. WantedRuns'
  <2> SUFFICES ASSUME NEW j \in 1..Len(instance), Wanted(j)'
               PROVE  /\ instance'[j].gen \in running
                      /\ instance'[j].stage \in {"candidate", "draining"} => instance'[j].next \in running
    BY <1>1, <1>3 DEF WantedRuns
  <2>1. CASE j = i
    <3>1. instance[i].gen \in running
      BY <1>1 DEF WantedRuns, Wanted
    <3> QED
      BY <2>1, <3>1, <1>2, <1>3
  <2>2. CASE j # i
    <3>1. instance'[j] = instance[j] /\ instance[j].id \in Surface
      BY <2>2, <1>3 DEF SurfaceTypeOK
    <3>2. registered'[instance[j].id] = j => registered[instance[j].id] = j
      BY <2>2, <3>1, <1>4
    <3>3. \A h \in Handle : handle'[h].pc = "held" /\ handle'[h].of = j => handle[h] = handle'[h]
      BY <2>2, <1>5
    <3>4. Wanted(j)
      BY <3>1, <3>2, <3>3 DEF Wanted
    <3> QED
      BY <3>1, <3>4, <1>1 DEF WantedRuns
  <2> QED
    BY <2>1, <2>2
<1>11. Acquired' /\ ClosedForgets'
  <2>1. ClosedForgets'
    BY <1>1 DEF ClosedForgets
  <2>2. ASSUME NEW h \in Handle, handle'[h].pc \in {"held", "cleared", "completion", "drain", "closing"}
        PROVE  instance'[handle'[h].of].stage # "starting"
    <3>1. CASE Awaiting(h, i)
      BY <3>1, <1>2, <1>3, <1>5
    <3>2. CASE ~Awaiting(h, i)
      <4>1. handle'[h] = handle[h] /\ handle[h].pc # "free" /\ handle[h].pc # "starting"
        BY <2>2, <3>2, <1>5
      <4>2. handle[h].of \in 1..Len(instance) /\ instance[handle[h].of].stage # "starting"
        BY <4>1, HandleLeads
      <4> QED
        BY <4>1, <4>2, <1>2, <1>3
    <3> QED
      BY <3>1, <3>2
  <2> QED
    BY <2>1, <2>2 DEF Acquired
<1>12. ClosesUnwanted'
  <2> SUFFICES ASSUME NEW o \in Handle, handle'[o].pc = "closing" PROVE Unwanted(o)'
    BY DEF ClosesUnwanted
  <2> DEFINE k == handle[o].of
  <2>1. handle'[o] = handle[o] /\ handle[o].pc = "closing" /\ Unwanted(o)
    BY <1>5 DEF ClosesUnwanted
  <2>2. k \in 1..Len(instance) /\ k # i /\ instance[k].id \in Surface
    BY <2>1, <1>1, HandleLeads DEF SurfaceTypeOK
  <2>3. instance'[k] = instance[k] /\ registered'[instance[k].id] # k
    BY <2>1, <2>2, <1>3, <1>4 DEF Unwanted
  <2>4. Holders(k)' = {}
    BY <2>1, <2>2, <1>5 DEF Unwanted, Holders
  <2> QED
    BY <2>1, <2>2, <2>3, <2>4, <1>3 DEF Unwanted
<1>13. CallsOnCurrent'
  <2> SUFFICES ASSUME NEW c \in Invocation, call[c].pc \in {"running", "health"}
               PROVE  call[c].gen = instance'[call[c].of].gen
    BY <1>1 DEF CallsOnCurrent
  <2>1. call[c].of \in 1..Len(instance) /\ call[c].gen = instance[call[c].of].gen
    BY DEF CallsOnCurrent, SurfaceTypeOK, Quiet
  <2> QED
    BY <2>1, <1>2, <1>3
<1> QED
  BY <1>3, <1>7, <1>8, <1>9, <1>10, <1>11, <1>12, <1>13

\* Nobody holds an instance that does not start, and no id leads to it.
LEMMA StartFailsSafe ==
    ASSUME SurfaceInv, NEW i \in 1..Len(instance), StartFails(i)
    PROVE  SurfaceInv'
<1> USE DEF SurfaceInv
<1> DEFINE r == [instance[i] EXCEPT !.stage = "failed"]
<1>1. /\ instance[i] \in InstanceRow /\ instance[i].id \in Surface
      /\ instance[i].gen \in 1..workers /\ instance[i].gen # 0 /\ instance[i].next = 0
      /\ instance[i].stage = "starting"
      /\ workers \in Nat /\ workers \in 0..MaxGenerations
      /\ UNCHANGED <<registered, call, workers, engine>>
      /\ running' = running \ {instance[i].gen}
      /\ Set(i, r)
  BY RowFacts DEF StartFails
<1>2. /\ r \in InstanceRow /\ r.stage = "failed"
      /\ r.id = instance[i].id /\ r.gen = instance[i].gen /\ r.next = 0
  BY <1>1 DEF InstanceRow, Stage
<1> HIDE DEF r
<1>3. /\ instance' \in Seq(InstanceRow) /\ Len(instance') = Len(instance)
      /\ instance'[i] = r
      /\ \A j \in 1..Len(instance) \ {i} : instance'[j] = instance[j]
      /\ \A j \in 1..Len(instance) :
             /\ instance'[j].id \in Surface /\ instance'[j].stage \in Stage
             /\ instance'[j].gen \in 1..workers' /\ instance'[j].next \in 0..workers'
             /\ instance'[j].stage \in {"candidate", "draining", "closing"} <=> instance'[j].next # 0
      /\ WorkersApart'
      /\ \A h \in Handle : handle[h].pc = "closing" =>
             \A j \in 1..Len(instance) \ {handle[h].of} :
                 handle[h].gen # instance'[j].gen /\ handle[h].gen # instance'[j].next
  BY <1>1, <1>2, RowMoved
<1>4. \A h \in Handle :
          \/ handle'[h] = handle[h] /\ ~Awaiting(h, i)
          \/ Awaiting(h, i) /\ handle'[h] = Free
  BY DEF StartFails
<1>5. handle' \in [Handle -> HandleRow]
  <2>1. Free \in HandleRow
    BY DEF Free, HandleRow
  <2> QED
    BY <2>1 DEF StartFails, Rows
<1>6. Free.pc = "free"
  BY DEF Free
<1>7. Rows'
  BY <1>1, <1>3, <1>5 DEF Rows
<1>8. SurfaceTypeOK'
  <2>1. \A h \in Handle :
            handle'[h] = Free \/ /\ handle'[h].pc \in {"starting", "held", "cleared", "completion", "drain", "closing"}
                                 /\ handle'[h].of \in 1..Len(instance)
                                 /\ handle'[h].gen \in 0..workers
    BY <1>4 DEF SurfaceTypeOK
  <2> QED
    BY <1>1, <1>3, <2>1 DEF SurfaceTypeOK, Replacing
<1>9. \A s \in Surface : registered[s] # 0 => registered[s] \in 1..Len(instance) /\ registered[s] # i
  BY <1>1 DEF Registry, SurfaceTypeOK
<1>10. Registry'
  BY <1>1, <1>3, <1>9 DEF Registry
<1>11. WantedRuns'
  <2> SUFFICES ASSUME engine.pc = "open", NEW j \in 1..Len(instance), Wanted(j)'
               PROVE  /\ instance'[j].gen \in running'
                      /\ instance'[j].stage \in {"candidate", "draining"} => instance'[j].next \in running'
    BY <1>1, <1>3 DEF WantedRuns
  <2>1. \A h \in Handle : handle'[h].pc = "held" => handle[h] = handle'[h] /\ handle'[h].of # i
    BY <1>1, <1>4, <1>6 DEF Acquired
  <2>2. j # i
    BY <2>1, <1>1, <1>2, <1>3, <1>9 DEF Wanted
  <2>3. instance'[j] = instance[j] /\ Wanted(j)
    BY <2>1, <2>2, <1>1, <1>3 DEF Wanted
  <2>4. instance[i].gen # instance[j].gen /\ instance[i].gen # instance[j].next
    BY <2>2 DEF WorkersApart
  <2> QED
    BY <2>3, <2>4, <1>1 DEF WantedRuns
<1>12. Acquired' /\ ClosedForgets'
  <2>1. ClosedForgets'
    BY <1>1, <1>4, <1>6 DEF ClosedForgets
  <2>2. ASSUME NEW h \in Handle, handle'[h].pc \in {"held", "cleared", "completion", "drain", "closing"}
        PROVE  instance'[handle'[h].of].stage # "starting"
    <3>1. handle'[h] = handle[h] /\ handle[h].pc # "free" /\ handle[h].pc # "starting"
      BY <2>2, <1>4, <1>6
    <3>2. handle[h].of \in 1..Len(instance) /\ instance[handle[h].of].stage # "starting"
      BY <3>1, HandleLeads
    <3> QED
      BY <3>1, <3>2, <1>2, <1>3
  <2> QED
    BY <2>1, <2>2 DEF Acquired
<1>13. ClosesUnwanted'
  <2> SUFFICES ASSUME NEW o \in Handle, handle'[o].pc = "closing" PROVE Unwanted(o)'
    BY DEF ClosesUnwanted
  <2> DEFINE k == handle[o].of
  <2>1. handle'[o] = handle[o] /\ handle[o].pc = "closing" /\ Unwanted(o)
    BY <1>4, <1>6 DEF ClosesUnwanted
  <2>2. k \in 1..Len(instance) /\ k # i
    BY <2>1, <1>1, HandleLeads
  <2>3. instance'[k] = instance[k] /\ registered'[instance[k].id] # k
    BY <2>1, <2>2, <1>1, <1>3 DEF Unwanted
  <2>4. Holders(k)' = {}
    BY <2>1, <1>4, <1>6 DEF Unwanted, Holders
  <2> QED
    BY <2>1, <2>2, <2>3, <2>4, <1>3 DEF Unwanted
<1>14. CallsOnCurrent'
  <2> SUFFICES ASSUME NEW c \in Invocation, call[c].pc \in {"running", "health"}
               PROVE  call[c].gen = instance'[call[c].of].gen
    BY <1>1 DEF CallsOnCurrent
  <2>1. call[c].of \in 1..Len(instance) /\ call[c].gen = instance[call[c].of].gen
    BY DEF CallsOnCurrent, SurfaceTypeOK, Quiet
  <2> QED
    BY <2>1, <1>2, <1>3
<1> QED
  BY <1>3, <1>7, <1>8, <1>10, <1>11, <1>12, <1>13, <1>14

\* A replacement goes on: handles and ids stay, and so does what is wanted.
LEMMA ReplacementSafe ==
    ASSUME SurfaceInv, NEW i \in 1..Len(instance), NEW r \in InstanceRow, Set(i, r),
           r.id = instance[i].id,
           r.gen \in {instance[i].gen, instance[i].next}, r.gen # 0, r.gen # r.next,
           r.next \in {0, instance[i].gen, instance[i].next, workers + 1},
           r.stage \in {"candidate", "draining", "closing"} <=> r.next # 0,
           r.stage # "starting", instance[i].stage # "starting",
           workers' \in {workers, workers + 1}, workers' \in 0..MaxGenerations,
           r.next = workers + 1 => workers' = workers + 1,
           running \subseteq running', running' \subseteq 1..workers',
           engine.pc = "open" /\ Wanted(i) =>
               /\ r.gen \in running'
               /\ r.stage \in {"candidate", "draining"} => r.next \in running',
           UNCHANGED <<registered, handle, engine>>,
           call' \in [Invocation -> CallRow],
           \A c \in Invocation :
               \/ call'[c] = Quiet
               \/ call'[c] = call[c] /\ (call[c].pc = "barrier" \/ call[c].of # i \/ r.gen = instance[i].gen)
               \/ call'[c].pc = "running" /\ call'[c].of = i /\ call'[c].gen = r.gen
    PROVE  SurfaceInv'
<1> USE DEF SurfaceInv
<1>1. /\ instance' \in Seq(InstanceRow) /\ Len(instance') = Len(instance)
      /\ instance'[i] = r
      /\ \A j \in 1..Len(instance) \ {i} : instance'[j] = instance[j]
      /\ \A j \in 1..Len(instance) :
             /\ instance'[j].id \in Surface /\ instance'[j].stage \in Stage
             /\ instance'[j].gen \in 1..workers' /\ instance'[j].next \in 0..workers'
             /\ instance'[j].stage \in {"candidate", "draining", "closing"} <=> instance'[j].next # 0
      /\ WorkersApart'
      /\ \A h \in Handle : handle[h].pc = "closing" =>
             \A j \in 1..Len(instance) \ {handle[h].of} :
                 handle[h].gen # instance'[j].gen /\ handle[h].gen # instance'[j].next
  BY RowMoved
<1>2. /\ workers \in Nat /\ workers' \in Nat /\ workers <= workers'
      /\ r.gen \in 0..workers'
      /\ \A j \in 1..Len(instance) : instance'[j].id = instance[j].id
  <2>1. workers \in Nat
    BY DEF Rows
  <2>2. instance'[i].gen \in 1..workers'
    BY <1>1
  <2> QED
    BY <2>1, <2>2, <1>1
<1>3. Rows'
  BY <1>1, <1>2 DEF Rows
<1>4. SurfaceTypeOK'
  <2>1. \A h \in Handle :
            handle[h] = Free \/ /\ handle[h].pc \in {"starting", "held", "cleared", "completion", "drain", "closing"}
                                /\ handle[h].of \in 1..Len(instance)
                                /\ handle[h].gen \in 0..workers'
    BY <1>2 DEF SurfaceTypeOK
  <2>2. ASSUME NEW c \in Invocation, call'[c] # Quiet
        PROVE  /\ call'[c].pc \in {"barrier", "running", "health"}
               /\ call'[c].of \in 1..Len(instance)
               /\ call'[c].gen \in 0..workers'
    <3>1. CASE call'[c] = call[c]
      BY <2>2, <3>1, <1>2 DEF SurfaceTypeOK
    <3>2. CASE call'[c] # call[c]
      BY <2>2, <3>2, <1>2
    <3> QED
      BY <3>1, <3>2
  <2>3. registered' \in [Surface -> 0..Len(instance')]
    BY <1>1 DEF SurfaceTypeOK
  <2>4. engine'.of \subseteq 1..Len(instance') /\ engine'.pc \in {"open", "starts", "completions", "drain", "closed"}
    BY <1>1 DEF SurfaceTypeOK
  <2> QED
    BY <1>1, <2>1, <2>2, <2>3, <2>4 DEF SurfaceTypeOK, Replacing
<1>5. Registry'
  <2> SUFFICES ASSUME NEW s \in Surface, registered[s] # 0
               PROVE  instance'[registered[s]].id = s /\ instance'[registered[s]].stage # "starting"
    BY DEF Registry
  <2>1. /\ registered[s] \in 1..Len(instance)
        /\ instance[registered[s]].id = s /\ instance[registered[s]].stage # "starting"
    BY DEF SurfaceTypeOK, Registry
  <2> QED
    BY <2>1, <1>1, <1>2
<1>6. WantedRuns'
  <2> SUFFICES ASSUME engine.pc = "open", NEW j \in 1..Len(instance), Wanted(j)'
               PROVE  /\ instance'[j].gen \in running'
                      /\ instance'[j].stage \in {"candidate", "draining"} => instance'[j].next \in running'
    BY <1>1 DEF WantedRuns
  <2>1. Wanted(j)
    BY <1>1, <1>2 DEF Wanted
  <2>2. CASE j = i
    BY <2>1, <2>2, <1>1
  <2>3. CASE j # i
    BY <2>1, <2>3, <1>1 DEF WantedRuns
  <2> QED
    BY <2>2, <2>3
<1>7. Acquired' /\ ClosedForgets'
  <2>1. ASSUME NEW h \in Handle, handle[h].pc \in {"held", "cleared", "completion", "drain", "closing"}
        PROVE  instance'[handle[h].of].stage # "starting"
    BY <2>1, <1>1, HandleLeads
  <2> QED
    BY <2>1 DEF Acquired, ClosedForgets
<1>8. ClosesUnwanted'
  <2> SUFFICES ASSUME NEW o \in Handle, handle[o].pc = "closing" PROVE Unwanted(o)'
    BY DEF ClosesUnwanted
  <2>1. Unwanted(o) /\ handle[o].of \in 1..Len(instance)
    BY HandleLeads DEF ClosesUnwanted
  <2>2. Holders(handle[o].of)' = {}
    BY <2>1 DEF Unwanted, Holders
  <2> QED
    BY <2>1, <2>2, <1>1, <1>2 DEF Unwanted
<1>9. CallsOnCurrent'
  <2> SUFFICES ASSUME NEW c \in Invocation, call'[c].pc \in {"running", "health"}
               PROVE  call'[c].gen = instance'[call'[c].of].gen
    BY DEF CallsOnCurrent
  <2>1. CASE call'[c] = call[c]
    <3>1. call[c].of \in 1..Len(instance) /\ call[c].gen = instance[call[c].of].gen
      BY <2>1 DEF CallsOnCurrent, SurfaceTypeOK, Quiet
    <3>2. call[c].of # i \/ r.gen = instance[i].gen \/ call[c].gen = r.gen
      BY <2>1 DEF Quiet
    <3> QED
      BY <2>1, <3>1, <3>2, <1>1
  <2>2. CASE call'[c] # call[c]
    BY <2>2, <1>1 DEF Quiet
  <2> QED
    BY <2>1, <2>2
<1> QED
  BY <1>1, <1>3, <1>4, <1>5, <1>6, <1>7, <1>8, <1>9

\* The worker of the next generation starts, beside the one that serves.
LEMMA ReplaceSafe ==
    ASSUME SurfaceInv, NEW h \in Handle, Replace(h)
    PROVE  SurfaceInv'
<1> USE DEF SurfaceInv
<1> DEFINE i == handle[h].of
           r == [instance[i] EXCEPT !.stage = "candidate", !.next = workers + 1]
<1>1. /\ handle[h].pc = "held" /\ instance[i].stage = "ready" /\ workers < MaxGenerations
      /\ Set(i, r) /\ workers' = workers + 1 /\ running' = running \cup {workers + 1}
      /\ UNCHANGED <<registered, handle, call, engine>>
  BY DEF Replace
<1>2. i \in 1..Len(instance)
  BY <1>1, HandleLeads
<1>3. /\ instance[i] \in InstanceRow /\ workers \in Nat
      /\ instance[i].gen \in 1..workers
  BY <1>2, RowFacts
<1>4. /\ r \in InstanceRow /\ r.id = instance[i].id /\ r.gen = instance[i].gen
      /\ r.stage = "candidate" /\ r.next = workers + 1
  <2>1. workers + 1 \in Nat /\ "candidate" \in Stage
    BY <1>3 DEF Stage
  <2> HIDE DEF i
  <2> QED
    BY <1>3, <2>1 DEF InstanceRow
<1>5. /\ workers' \in 0..MaxGenerations
      /\ running \subseteq running' /\ running' \subseteq 1..workers'
      /\ r.gen # 0 /\ r.gen # r.next /\ r.next # 0
  BY <1>1, <1>3, <1>4, SurfaceAssumption DEF SurfaceTypeOK
<1>6. engine.pc = "open" /\ Wanted(i) => r.gen \in running' /\ r.next \in running'
  BY <1>1, <1>2, <1>4 DEF WantedRuns
<1>7. call' \in [Invocation -> CallRow]
  BY <1>1 DEF Rows
<1> HIDE DEF r
<1> QED
  BY <1>1, <1>2, <1>4, <1>5, <1>6, <1>7, ReplacementSafe

\* New calls stop at the barrier.
LEMMA BarrierSafe ==
    ASSUME SurfaceInv, NEW i \in 1..Len(instance), Barrier(i)
    PROVE  SurfaceInv'
<1> USE DEF SurfaceInv
<1> DEFINE r == [instance[i] EXCEPT !.stage = "draining"]
<1>1. /\ instance[i].stage = "candidate" /\ Set(i, r)
      /\ UNCHANGED <<registered, handle, call, workers, running, engine>>
  BY DEF Barrier
<1>2. /\ instance[i] \in InstanceRow /\ workers \in Nat /\ workers \in 0..MaxGenerations
      /\ instance[i].gen # 0 /\ instance[i].gen # instance[i].next
      /\ instance[i].next \in 0..workers /\ instance[i].next # 0
  BY <1>1, RowFacts
<1>3. /\ r \in InstanceRow /\ r.id = instance[i].id /\ r.gen = instance[i].gen
      /\ r.stage = "draining" /\ r.next = instance[i].next
  BY <1>2 DEF InstanceRow, Stage
<1>4. /\ r.next # workers + 1 /\ running' \subseteq 1..workers'
      /\ engine.pc = "open" /\ Wanted(i) => r.gen \in running' /\ r.next \in running'
  BY <1>1, <1>2, <1>3 DEF WantedRuns, SurfaceTypeOK
<1>5. call' \in [Invocation -> CallRow]
  BY <1>1 DEF Rows
<1> HIDE DEF r
<1> QED
  BY <1>1, <1>2, <1>3, <1>4, <1>5, ReplacementSafe

\* What the calls become that waited at the barrier.
LEMMA ResumedCalls ==
    ASSUME SurfaceInv, NEW i \in Nat, NEW gen \in Nat, Resumed(i, gen)
    PROVE  /\ call' \in [Invocation -> CallRow]
           /\ \A c \in Invocation :
                  \/ call'[c] = call[c] /\ (call[c].pc # "barrier" \/ call[c].of # i)
                  \/ call'[c] = Quiet
                  \/ call'[c] = [pc |-> "running", of |-> i, gen |-> gen]
<1>1. call \in [Invocation -> CallRow]
  BY DEF SurfaceInv, Rows
<1>2. Quiet \in CallRow /\ [pc |-> "running", of |-> i, gen |-> gen] \in CallRow
  BY DEF CallRow, Quiet
<1> QED
  BY <1>1, <1>2 DEF Resumed

\* The instance has its next generation when nothing is in flight on the old.
LEMMA SwapSafe ==
    ASSUME SurfaceInv, NEW i \in 1..Len(instance), Swap(i)
    PROVE  SurfaceInv'
<1> USE DEF SurfaceInv
<1> DEFINE r == [instance[i] EXCEPT !.stage = "closing", !.gen = instance[i].next, !.next = instance[i].gen]
<1>1. /\ instance[i].stage \in {"candidate", "draining"} /\ Set(i, r)
      /\ Inflight(instance[i].gen) = {}
      /\ Resumed(i, instance[i].next)
      /\ UNCHANGED <<registered, handle, workers, running, engine>>
  BY DEF Swap
<1>2. /\ instance[i] \in InstanceRow /\ workers \in Nat /\ workers \in 0..MaxGenerations /\ i \in Nat
      /\ instance[i].gen # 0 /\ instance[i].gen # instance[i].next
      /\ instance[i].next \in 0..workers /\ instance[i].next # 0
      /\ instance[i].gen \in 1..workers /\ instance[i].next \in Nat
  BY <1>1, RowFacts
<1>3. /\ r \in InstanceRow /\ r.id = instance[i].id /\ r.gen = instance[i].next
      /\ r.stage = "closing" /\ r.next = instance[i].gen
  BY <1>2 DEF InstanceRow, Stage
<1>4. /\ r.next # workers + 1 /\ running' \subseteq 1..workers'
      /\ engine.pc = "open" /\ Wanted(i) => r.gen \in running'
  BY <1>1, <1>2, <1>3 DEF WantedRuns, SurfaceTypeOK
<1>5. /\ call' \in [Invocation -> CallRow]
      /\ \A c \in Invocation :
             \/ call'[c] = call[c] /\ (call[c].pc # "barrier" \/ call[c].of # i)
             \/ call'[c] = Quiet
             \/ call'[c] = [pc |-> "running", of |-> i, gen |-> instance[i].next]
  BY <1>1, <1>2, ResumedCalls
<1>6. ASSUME NEW c \in Invocation
      PROVE  \/ call'[c] = Quiet
             \/ call'[c] = call[c] /\ (call[c].pc = "barrier" \/ call[c].of # i \/ r.gen = instance[i].gen)
             \/ call'[c].pc = "running" /\ call'[c].of = i /\ call'[c].gen = r.gen
  <2>1. CASE call'[c] = call[c] /\ call[c] # Quiet /\ call[c].of = i /\ call[c].pc # "barrier"
    <3>1. call[c].pc \in {"running", "health"} /\ call[c].gen = instance[i].gen
      BY <2>1 DEF SurfaceTypeOK, CallsOnCurrent
    <3>2. c \in Inflight(instance[i].gen)
      BY <3>1 DEF Inflight
    <3> QED
      BY <3>2, <1>1
  <2>2. CASE call'[c] = [pc |-> "running", of |-> i, gen |-> instance[i].next]
    BY <2>2, <1>3
  <2> QED
    BY <2>1, <2>2, <1>5
<1> HIDE DEF r
<1> QED
  BY <1>1, <1>2, <1>3, <1>4, <1>5, <1>6, ReplacementSafe

\* A replacement completes, and the releases that waited for it go on.
LEMMA CompletedSafe ==
    ASSUME SurfaceInv, NEW i \in 1..Len(instance), Replacing(i),
           Completed(i, Settled(i)),
           running' = running \ {instance[i].next},
           UNCHANGED <<workers, engine>>,
           UNCHANGED call \/ Resumed(i, instance[i].gen)
    PROVE  SurfaceInv'
<1> USE DEF SurfaceInv
<1> DEFINE r == Settled(i)
           g == instance[i].gen
           waiting == {h \in Handle : handle[h].pc = "completion" /\ handle[h].of = i}
<1>1. /\ instance[i] \in InstanceRow /\ instance[i].id \in Surface
      /\ g \in 1..workers /\ g # 0 /\ g \in Nat /\ g \in 0..workers
      /\ instance[i].next # 0 /\ instance[i].next # g /\ i \in Nat
      /\ instance[i].stage # "starting"
      /\ workers \in Nat /\ workers \in 0..MaxGenerations
  BY RowFacts DEF Replacing
<1>2. /\ r \in InstanceRow /\ r.stage = "ready"
      /\ r.id = instance[i].id /\ r.gen = g /\ r.next = 0
  BY <1>1 DEF InstanceRow, Stage, Settled
<1>3. /\ Set(i, r)
      /\ handle' = [h \in Handle |-> IF h \in waiting THEN Drains(i, r.gen, Holders(i)) ELSE handle[h]]
      /\ IF \E h \in waiting : handle'[h].pc = "closing" THEN Unregister(r.id) ELSE UNCHANGED registered
  BY DEF Completed
<1> HIDE DEF r
<1>4. /\ instance' \in Seq(InstanceRow) /\ Len(instance') = Len(instance)
      /\ instance'[i] = r
      /\ \A j \in 1..Len(instance) \ {i} : instance'[j] = instance[j]
      /\ \A j \in 1..Len(instance) :
             /\ instance'[j].id \in Surface /\ instance'[j].stage \in Stage
             /\ instance'[j].gen \in 1..workers' /\ instance'[j].next \in 0..workers'
             /\ instance'[j].stage \in {"candidate", "draining", "closing"} <=> instance'[j].next # 0
      /\ WorkersApart'
      /\ \A h \in Handle : handle[h].pc = "closing" =>
             \A j \in 1..Len(instance) \ {handle[h].of} :
                 handle[h].gen # instance'[j].gen /\ handle[h].gen # instance'[j].next
  BY <1>1, <1>2, <1>3, RowMoved
<1>5. /\ \A j \in 1..Len(instance) : instance'[j].id = instance[j].id /\ instance'[j].gen = instance[j].gen
      /\ \A j \in 1..Len(instance) : instance[j].stage # "starting" => instance'[j].stage # "starting"
      /\ \A j \in 1..Len(instance) : instance'[j].stage = "starting" => instance[j].stage = "starting"
  BY <1>1, <1>2, <1>4
<1>6. \A h \in Handle :
          \/ h \notin waiting /\ handle'[h] = handle[h]
          \/ h \in waiting /\ handle'[h] = Free
          \/ h \in waiting /\ handle'[h] = [pc |-> "drain", of |-> i, gen |-> g]
          \/ /\ h \in waiting /\ handle'[h] = [pc |-> "closing", of |-> i, gen |-> g]
             /\ Holders(i) = {}
  BY <1>2, <1>3 DEF Drains
<1> HIDE DEF g
<1>7. /\ handle' \in [Handle -> HandleRow]
      /\ \A h \in Handle :
             handle'[h] = Free \/ /\ handle'[h].pc \in {"starting", "held", "cleared", "completion", "drain", "closing"}
                                  /\ handle'[h].of \in 1..Len(instance)
                                  /\ handle'[h].gen \in 0..workers
      /\ \A h \in Handle : handle'[h].pc \in {"held", "cleared"} => handle'[h] = handle[h]
  <2>1. /\ Free \in HandleRow
        /\ [pc |-> "drain", of |-> i, gen |-> g] \in HandleRow
        /\ [pc |-> "closing", of |-> i, gen |-> g] \in HandleRow
    BY <1>1 DEF Free, HandleRow
  <2>2. \A h \in Handle : handle'[h] \in HandleRow
    BY <2>1, <1>6 DEF Rows
  <2>3. handle' \in [Handle -> HandleRow]
    BY <2>2, <1>3
  <2>4. \A h \in Handle :
            handle'[h] = Free \/ /\ handle'[h].pc \in {"starting", "held", "cleared", "completion", "drain", "closing"}
                                 /\ handle'[h].of \in 1..Len(instance)
                                 /\ handle'[h].gen \in 0..workers
    BY <1>1, <1>6 DEF SurfaceTypeOK
  <2>5. \A h \in Handle : handle'[h].pc \in {"held", "cleared"} => handle'[h] = handle[h]
    BY <1>6 DEF Free
  <2> QED
    BY <2>3, <2>4, <2>5
<1>8. /\ registered' \in [Surface -> Nat] /\ registered' \in [Surface -> 0..Len(instance)]
      /\ \A s \in Surface : registered'[s] # 0 => registered'[s] = registered[s]
      /\ \A h \in waiting : handle'[h].pc = "closing" => registered'[instance[i].id] = 0
  <2>1. /\ registered \in [Surface -> Nat] /\ registered \in [Surface -> 0..Len(instance)]
        /\ 0 \in 0..Len(instance)
    BY DEF Rows, SurfaceTypeOK
  <2>2. CASE \E h \in waiting : handle'[h].pc = "closing"
    <3>1. registered' = [registered EXCEPT ![instance[i].id] = 0]
      BY <2>2, <1>2, <1>3 DEF Unregister
    <3> QED
      BY <3>1, <2>1, <1>1
  <2>3. CASE ~\E h \in waiting : handle'[h].pc = "closing"
    BY <2>1, <2>3, <1>3
  <2> QED
    BY <2>2, <2>3
<1>9. /\ call' \in [Invocation -> CallRow]
      /\ \A c \in Invocation :
             \/ call'[c] = call[c]
             \/ call'[c] = Quiet
             \/ call'[c] = [pc |-> "running", of |-> i, gen |-> g]
  <2>1. CASE UNCHANGED call
    BY <2>1 DEF Rows
  <2>2. CASE Resumed(i, instance[i].gen)
    BY <2>2, <1>1, ResumedCalls DEF g
  <2> QED
    BY <2>1, <2>2
<1>10. Rows'
  BY <1>1, <1>4, <1>7, <1>8, <1>9 DEF Rows
<1>11. SurfaceTypeOK'
  <2>1. \A c \in Invocation :
            call'[c] = Quiet \/ /\ call'[c].pc \in {"barrier", "running", "health"}
                                /\ call'[c].of \in 1..Len(instance)
                                /\ call'[c].gen \in 0..workers
    BY <1>1, <1>9 DEF SurfaceTypeOK
  <2>2. /\ engine'.pc \in {"open", "starts", "completions", "drain", "closed"}
        /\ engine'.of \subseteq 1..Len(instance')
        /\ running' \subseteq 1..workers'
    BY <1>4 DEF SurfaceTypeOK
  <2> QED
    BY <1>1, <1>4, <1>7, <1>8, <2>1, <2>2 DEF SurfaceTypeOK, Replacing
<1>12. Registry'
  <2> SUFFICES ASSUME NEW s \in Surface, registered'[s] # 0
               PROVE  instance'[registered'[s]].id = s /\ instance'[registered'[s]].stage # "starting"
    BY DEF Registry
  <2>1. /\ registered'[s] = registered[s] /\ registered[s] \in 1..Len(instance)
        /\ instance[registered[s]].id = s /\ instance[registered[s]].stage # "starting"
    BY <1>8 DEF SurfaceTypeOK, Registry
  <2> QED
    BY <2>1, <1>5
<1>13. WantedRuns'
  <2> SUFFICES ASSUME engine.pc = "open", NEW j \in 1..Len(instance), Wanted(j)'
               PROVE  /\ instance'[j].gen \in running'
                      /\ instance'[j].stage \in {"candidate", "draining"} => instance'[j].next \in running'
    BY <1>4 DEF WantedRuns
  <2>1. Wanted(j)
    <3>1. instance[j].id \in Surface /\ j # 0
      BY DEF SurfaceTypeOK
    <3> QED
      BY <3>1, <1>5, <1>7, <1>8 DEF Wanted
  <2>2. CASE j = i
    BY <2>1, <2>2, <1>1, <1>2, <1>4 DEF WantedRuns, g
  <2>3. CASE j # i
    <3>1. instance[i].next # instance[j].gen /\ instance[i].next # instance[j].next
      BY <2>3, <1>1 DEF WorkersApart
    <3> QED
      BY <2>1, <2>3, <3>1, <1>4 DEF WantedRuns
  <2> QED
    BY <2>2, <2>3
<1>14. Acquired' /\ ClosedForgets'
  <2>1. ClosedForgets'
    BY <1>7 DEF ClosedForgets
  <2>2. ASSUME NEW h \in Handle, handle'[h].pc \in {"held", "cleared", "completion", "drain", "closing"}
        PROVE  instance'[handle'[h].of].stage # "starting"
    <3>1. CASE handle'[h] = handle[h]
      <4>1. handle[h].of \in 1..Len(instance) /\ instance[handle[h].of].stage # "starting"
        BY <2>2, <3>1, HandleLeads
      <4> QED
        BY <3>1, <4>1, <1>5
    <3>2. CASE handle'[h].of = i
      BY <3>2, <1>2, <1>4
    <3>3. CASE handle'[h] = Free
      BY <2>2, <3>3 DEF Free
    <3> QED
      BY <3>1, <3>2, <3>3, <1>6
  <2> QED
    BY <2>1, <2>2 DEF Acquired
<1>15. ClosesUnwanted'
  <2> SUFFICES ASSUME NEW o \in Handle, handle'[o].pc = "closing" PROVE Unwanted(o)'
    BY DEF ClosesUnwanted
  <2>1. CASE o \notin waiting
    <3>1. handle'[o] = handle[o] /\ handle[o].pc = "closing" /\ Unwanted(o)
      BY <2>1, <1>6 DEF ClosesUnwanted
    <3>2. handle[o].of \in 1..Len(instance) /\ instance[handle[o].of].id \in Surface
      BY <3>1, HandleLeads DEF SurfaceTypeOK
    <3>3. Holders(handle[o].of)' = {}
      BY <3>1, <1>7 DEF Unwanted, Holders
    <3>4. registered'[instance[handle[o].of].id] # handle[o].of
      BY <3>1, <3>2, <1>8 DEF Unwanted
    <3> QED
      BY <3>1, <3>2, <3>3, <3>4, <1>4, <1>5 DEF Unwanted
  <2>2. CASE o \in waiting
    <3>1. handle'[o].of = i /\ handle'[o].gen = g /\ Holders(i) = {}
      BY <2>2, <1>6 DEF Free
    <3>2. Holders(i)' = {}
      BY <3>1, <1>7 DEF Holders
    <3>3. registered'[instance[i].id] # i
      BY <2>2, <1>8
    <3>4. \A j \in 1..Len(instance) \ {i} : g # instance'[j].gen /\ g # instance'[j].next
      BY <1>4 DEF WorkersApart, g
    <3> QED
      BY <3>1, <3>2, <3>3, <3>4, <1>1, <1>4, <1>5 DEF Unwanted
  <2> QED
    BY <2>1, <2>2
<1>16. CallsOnCurrent'
  <2> SUFFICES ASSUME NEW c \in Invocation, call'[c].pc \in {"running", "health"}
               PROVE  call'[c].gen = instance'[call'[c].of].gen
    BY DEF CallsOnCurrent
  <2>1. CASE call'[c] = call[c]
    <3>1. call[c].of \in 1..Len(instance) /\ call[c].gen = instance[call[c].of].gen
      BY <2>1 DEF CallsOnCurrent, SurfaceTypeOK, Quiet
    <3> QED
      BY <2>1, <3>1, <1>5
  <2>2. CASE call'[c] # call[c]
    BY <2>2, <1>2, <1>4, <1>9 DEF Quiet
  <2> QED
    BY <2>1, <2>2
<1> QED
  BY <1>4, <1>10, <1>11, <1>12, <1>13, <1>14, <1>15, <1>16

\* An instance starts with a worker of its own.
LEMMA StartSafe ==
    ASSUME SurfaceInv, NEW h \in Handle, NEW s \in Surface, Start(h, s)
    PROVE  SurfaceInv'
<1> USE DEF SurfaceInv
<1> DEFINE n == Len(instance) + 1
           r == [id |-> s, gen |-> workers + 1, stage |-> "starting", next |-> 0]
           row == [pc |-> "starting", of |-> n, gen |-> 0]
<1>1. /\ engine.pc = "open" /\ workers < MaxGenerations
      /\ instance' = Append(instance, r) /\ workers' = workers + 1
      /\ running' = running \cup {workers + 1}
      /\ handle' = [handle EXCEPT ![h] = row] /\ handle[h] = Free
      /\ UNCHANGED <<registered, call, engine>>
  BY DEF Start
<1>2. /\ workers \in Nat /\ workers' \in Nat /\ workers' \in 1..workers' /\ n \in Nat /\ n # 0
      /\ n \notin 1..Len(instance) /\ 1..n = 1..Len(instance) \cup {n} /\ workers' \in 0..MaxGenerations
      /\ Len(instance) \in Nat
  BY <1>1, SurfaceAssumption DEF Rows
<1>3. /\ r \in InstanceRow /\ r.id = s /\ r.gen = workers' /\ r.stage = "starting" /\ r.next = 0
      /\ row \in HandleRow /\ row.pc = "starting" /\ row.of = n /\ row.gen = 0
  BY <1>1, <1>2 DEF InstanceRow, HandleRow, Stage
<1> HIDE DEF r, row
<1>4. /\ instance' \in Seq(InstanceRow) /\ Len(instance') = n
      /\ instance'[n] = r
      /\ \A j \in 1..Len(instance) : instance'[j] = instance[j]
  BY <1>1, <1>3 DEF Rows
<1> HIDE DEF n
<1>5. /\ handle' \in [Handle -> HandleRow] /\ handle'[h] = row
      /\ \A o \in Handle \ {h} : handle'[o] = handle[o]
  BY <1>1, <1>3 DEF Rows
<1>6. \A j \in 1..Len(instance) :
          /\ instance[j].id \in Surface /\ instance[j].stage \in Stage
          /\ instance[j].gen \in 1..workers /\ instance[j].next \in 0..workers
          /\ instance[j].stage \in {"candidate", "draining", "closing"} <=> instance[j].next # 0
          /\ instance[j].gen # workers' /\ instance[j].next # workers'
  BY <1>1, <1>2 DEF SurfaceTypeOK, Replacing
<1>7. \A j \in 1..n : \/ j \in 1..Len(instance) /\ instance'[j] = instance[j]
                      \/ j = n /\ instance'[j] = r
  BY <1>2, <1>4
<1>8. Rows'
  BY <1>1, <1>2, <1>4, <1>5 DEF Rows
<1>9. SurfaceTypeOK'
  <2>1. \A o \in Handle :
            handle'[o] = Free \/ /\ handle'[o].pc \in {"starting", "held", "cleared", "completion", "drain", "closing"}
                                 /\ handle'[o].of \in 1..n
                                 /\ handle'[o].gen \in 0..workers'
    <3>1. ASSUME NEW o \in Handle, o # h, handle'[o] # Free
          PROVE  /\ handle'[o].pc \in {"starting", "held", "cleared", "completion", "drain", "closing"}
                 /\ handle'[o].of \in 1..Len(instance) /\ handle'[o].gen \in 0..workers
      BY <3>1, <1>5 DEF SurfaceTypeOK
    <3> QED
      BY <3>1, <1>1, <1>2, <1>3, <1>5
  <2>2. \A c \in Invocation :
            call'[c] = Quiet \/ /\ call'[c].pc \in {"barrier", "running", "health"}
                                /\ call'[c].of \in 1..n
                                /\ call'[c].gen \in 0..workers'
    BY <1>1, <1>2 DEF SurfaceTypeOK
  <2>3. \A j \in 1..n :
            /\ instance'[j].id \in Surface /\ instance'[j].stage \in Stage
            /\ instance'[j].gen \in 1..workers' /\ instance'[j].next \in 0..workers'
            /\ instance'[j].stage \in {"candidate", "draining", "closing"} <=> instance'[j].next # 0
    BY <1>1, <1>2, <1>3, <1>6, <1>7 DEF Stage
  <2>4. /\ engine'.pc \in {"open", "starts", "completions", "drain", "closed"} /\ engine'.of \subseteq 1..n
        /\ workers' \in 0..MaxGenerations /\ running' \subseteq 1..workers'
    BY <1>1, <1>2 DEF SurfaceTypeOK
  <2>5. registered' \in [Surface -> 0..n]
    <3>1. registered \in [Surface -> 0..Len(instance)] /\ 0..Len(instance) \subseteq 0..n
      BY <1>2 DEF SurfaceTypeOK, n
    <3> QED
      BY <3>1, <1>1
  <2> QED
    BY <1>4, <2>1, <2>2, <2>3, <2>4, <2>5 DEF SurfaceTypeOK, Replacing
<1>10. WorkersApart'
  <2>1. ASSUME NEW j \in 1..n, NEW k \in 1..n \ {j}
        PROVE  /\ instance'[j].next # instance'[j].gen
               /\ instance'[j].gen # instance'[k].gen
               /\ instance'[j].gen # instance'[k].next
               /\ instance'[j].next # 0 => instance'[j].next # instance'[k].next
    <3>1. CASE j = n
      <4>1. k \in 1..Len(instance) /\ instance'[k] = instance[k] /\ instance'[j] = r
        BY <2>1, <3>1, <1>4, <1>7
      <4> QED
        BY <4>1, <1>2, <1>3, <1>6
    <3>2. CASE k = n
      <4>1. j \in 1..Len(instance) /\ instance'[j] = instance[j] /\ instance'[k] = r
        BY <2>1, <3>2, <1>4, <1>7
      <4>2. instance[j].next # instance[j].gen
        BY <4>1 DEF WorkersApart
      <4> QED
        BY <4>1, <4>2, <1>2, <1>3, <1>6
    <3>3. CASE j # n /\ k # n
      <4>1. /\ j \in 1..Len(instance) /\ k \in 1..Len(instance) \ {j}
            /\ instance'[j] = instance[j] /\ instance'[k] = instance[k]
        BY <2>1, <3>3, <1>7
      <4> QED
        BY <4>1 DEF WorkersApart
    <3> QED
      BY <3>1, <3>2, <3>3
  <2>2. ASSUME NEW j \in 1..n PROVE instance'[j].next # instance'[j].gen
    BY <1>2, <1>3, <1>7 DEF WorkersApart
  <2> QED
    BY <2>1, <2>2, <1>4 DEF WorkersApart
<1>11. \A t \in Surface : registered[t] # 0 =>
           registered[t] \in 1..Len(instance) /\ registered[t] # n /\ instance'[registered[t]] = instance[registered[t]]
  BY <1>2, <1>4 DEF SurfaceTypeOK
<1>12. Registry'
  BY <1>1, <1>11 DEF Registry
<1>13. \A o \in Handle : handle'[o].pc \in {"held", "cleared", "completion", "drain", "closing"} =>
           /\ o # h /\ handle'[o] = handle[o]
           /\ handle[o].of \in 1..Len(instance) /\ handle[o].of # n
           /\ instance'[handle[o].of] = instance[handle[o].of]
           /\ handle[o].gen \in 0..workers /\ instance[handle[o].of].stage # "starting"
  BY <1>2, <1>3, <1>4, <1>5, HandleLeads
<1>14. WantedRuns'
  <2> SUFFICES ASSUME NEW j \in 1..n, Wanted(j)'
               PROVE  /\ instance'[j].gen \in running'
                      /\ instance'[j].stage \in {"candidate", "draining"} => instance'[j].next \in running'
    BY <1>4 DEF WantedRuns
  <2>1. CASE j = n
    BY <2>1, <1>1, <1>3, <1>4
  <2>2. CASE j # n
    <3>1. j \in 1..Len(instance) /\ instance'[j] = instance[j]
      BY <2>2, <1>7
    <3>2. Wanted(j)
      BY <3>1, <1>1, <1>13 DEF Wanted
    <3> QED
      BY <3>1, <3>2, <1>1 DEF WantedRuns
  <2> QED
    BY <2>1, <2>2
<1>15. Acquired' /\ ClosedForgets'
  BY <1>1, <1>13 DEF Acquired, ClosedForgets
<1>16. ClosesUnwanted'
  <2> SUFFICES ASSUME NEW o \in Handle, handle'[o].pc = "closing" PROVE Unwanted(o)'
    BY DEF ClosesUnwanted
  <2>1. /\ handle'[o] = handle[o] /\ Unwanted(o)
        /\ instance'[handle[o].of] = instance[handle[o].of]
        /\ handle[o].gen \in 0..workers
    BY <1>13 DEF ClosesUnwanted
  <2>2. Holders(handle[o].of)' = {}
    BY <2>1, <1>13 DEF Unwanted, Holders
  <2>3. \A j \in 1..n \ {handle[o].of} :
            handle[o].gen # instance'[j].gen /\ handle[o].gen # instance'[j].next
    BY <2>1, <1>1, <1>2, <1>3, <1>7 DEF Unwanted
  <2> QED
    BY <2>1, <2>2, <2>3, <1>1, <1>4 DEF Unwanted
<1>17. CallsOnCurrent'
  <2> SUFFICES ASSUME NEW c \in Invocation, call[c].pc \in {"running", "health"}
               PROVE  call[c].gen = instance'[call[c].of].gen
    BY <1>1 DEF CallsOnCurrent
  <2>1. call[c].of \in 1..Len(instance) /\ call[c].gen = instance[call[c].of].gen
    BY DEF CallsOnCurrent, SurfaceTypeOK, Quiet
  <2> QED
    BY <2>1, <1>4
<1> QED
  BY <1>8, <1>9, <1>10, <1>12, <1>14, <1>15, <1>16, <1>17

(***************************************************************************)
(* The theorems.                                                           *)
(***************************************************************************)

\* An engine without instances, handles and calls.
LEMMA InitInv == SurfaceInit => SurfaceInv
<1> SUFFICES ASSUME SurfaceInit PROVE SurfaceInv
  OBVIOUS
<1>1. /\ registered = [s \in Surface |-> 0] /\ instance = <<>>
      /\ handle = [h \in Handle |-> Free] /\ call = [c \in Invocation |-> Quiet]
      /\ workers = 0 /\ running = {} /\ engine = [pc |-> "open", of |-> {}]
  BY DEF SurfaceInit
<1>2. instance \in Seq(InstanceRow) /\ Len(instance) = 0 /\ 1..Len(instance) = {} /\ 0..Len(instance) = {0}
  BY <1>1
<1>3. Free \in HandleRow /\ Free.pc = "free" /\ Quiet \in CallRow /\ Quiet.pc = "idle"
  BY DEF Free, HandleRow, Quiet, CallRow
<1>4. engine \in EngineRow /\ engine.pc = "open" /\ engine.of = {}
  BY <1>1 DEF EngineRow
<1>5. Rows
  BY <1>1, <1>2, <1>3, <1>4 DEF Rows
<1>6. SurfaceTypeOK
  BY <1>1, <1>2, <1>4, SurfaceAssumption DEF SurfaceTypeOK
<1>7. WorkersApart /\ WantedRuns
  BY <1>2 DEF WorkersApart, WantedRuns
<1>8. Registry /\ Acquired /\ ClosesUnwanted /\ ClosedForgets /\ CallsOnCurrent
  BY <1>1, <1>3 DEF Registry, Acquired, ClosesUnwanted, ClosedForgets, CallsOnCurrent
<1> QED
  BY <1>5, <1>6, <1>7, <1>8 DEF SurfaceInv

\* Every step keeps the invariant.
LEMMA NextInv == SurfaceInv /\ [SurfaceNext]_surfaceVars => SurfaceInv'
<1> SUFFICES ASSUME SurfaceInv, [SurfaceNext]_surfaceVars PROVE SurfaceInv'
  OBVIOUS
<1>1. CASE Sessions
  <2>1. ASSUME NEW h \in Handle, NEW s \in Surface, Start(h, s) \/ Join(h, s) \/ Reuse(h, s) PROVE SurfaceInv'
    BY <2>1, StartSafe, AcquireSafe
  <2>2. ASSUME NEW h \in Handle, NEW c \in Invocation, Invoke(c, h) PROVE SurfaceInv'
    BY <2>2, InvokeSafe
  <2>3. ASSUME NEW h \in Handle, Replace(h) \/ Release(h) PROVE SurfaceInv'
    BY <2>3, ReplaceSafe, ReleaseSafe
  <2>4. ASSUME Close PROVE SurfaceInv'
    BY <2>4, CloseSafe
  <2> QED
    BY <1>1, <2>1, <2>2, <2>3, <2>4 DEF Sessions
<1>2. ASSUME NEW i \in 1..Len(instance), InstanceGoesOn(i) PROVE SurfaceInv'
  <2>1. ASSUME CandidateRefused(i) \/ DrainTimeout(i) \/ Replaced(i) PROVE SurfaceInv'
    BY <2>1, CompletedSafe DEF CandidateRefused, DrainTimeout, Replaced, Replacing
  <2> QED
    BY <1>2, <2>1, StartedSafe, StartFailsSafe, BarrierSafe, SwapSafe DEF InstanceGoesOn
<1>3. ASSUME NEW c \in Invocation, CallGoesOn(c) PROVE SurfaceInv'
  BY <1>3, CallEndsSafe
<1>4. ASSUME NEW h \in Handle, ReleaseGoesOn(h) PROVE SurfaceInv'
  BY <1>4, DrainEndsSafe, DisposedSafe DEF ReleaseGoesOn
<1>5. CASE CloseGoesOn
  BY <1>5, CloseGoesOnSafe
<1>6. CASE UNCHANGED surfaceVars
  BY <1>6 DEF surfaceVars, SurfaceInv, Rows, SurfaceTypeOK, Replacing, WorkersApart, Registry, WantedRuns,
              Wanted, Acquired, ClosesUnwanted, Unwanted, Holders, ClosedForgets, CallsOnCurrent
<1> QED
  BY <1>1, <1>2, <1>3, <1>4, <1>5, <1>6 DEF SurfaceNext

\* The invariant holds of every behaviour of the engine.
THEOREM SurfaceInvariant == SurfaceSpec => []SurfaceInv
<1> QED
  BY InitInv, NextInv, PTL DEF SurfaceSpec

\* Handles, calls and ids lead to instances and workers that were started:
\* what acquire, invoke, replace and release look up is there.
THEOREM SurfaceTypes == SurfaceSpec => []SurfaceTypeOK
<1>1. SurfaceInv => SurfaceTypeOK
  BY DEF SurfaceInv
<1> QED
  BY <1>1, SurfaceInvariant, PTL

\* A held handle has a running worker, whatever is released, replaced or
\* fails beside it, and no call is on a worker that replace has swapped out.
THEOREM HandlesServed == SurfaceSpec => []ServedByCurrent
<1>1. ASSUME SurfaceInv PROVE ServedByCurrent
  <2>1. ASSUME NEW h \in Handle, handle[h].pc = "held" PROVE instance[handle[h].of].gen \in running
    <3>1. engine.pc = "open"
      BY <1>1, <2>1 DEF SurfaceInv, ClosedForgets
    <3>2. handle[h].of \in 1..Len(instance)
      BY <1>1, <2>1, HandleLeads
    <3>3. Wanted(handle[h].of)
      BY <2>1 DEF Wanted
    <3> QED
      BY <1>1, <3>1, <3>2, <3>3 DEF SurfaceInv, WantedRuns
  <2> QED
    BY <1>1, <2>1 DEF ServedByCurrent, SurfaceInv, CallsOnCurrent
<1> QED
  BY <1>1, SurfaceInvariant, PTL

=============================================================================
