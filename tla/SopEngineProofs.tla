-------------------------- MODULE SopEngineProofs --------------------------
(***************************************************************************)
(* Proofs about SopEngine.  Reconciliation is a recursion over the nesting *)
(* of the runs, and inside each run one over its steps: `Recursion` gives  *)
(* both their equations.  What a transaction does to one step, to one run  *)
(* and to the set of runs it looks at are lemmas; `Commit` is then shown   *)
(* to repair what the action before it has disturbed, and each action to   *)
(* disturb no more than that.                                              *)
(***************************************************************************)
EXTENDS SopEngine, WellFoundedInduction, FiniteSetTheorems, TLAPS

StepRow == [status : StepStatus, why : {"none", "own", "dependency", "pin"}, pin : BOOLEAN]

RowOf(k) == [status : RunStatus, step : [Steps(k) -> StepRow]]

HandoffStatus == {"absent", "pending", "leased", "completed", "failed", "cancelled"}

HandRow == [status : HandoffStatus, token : Nat, live : BOOLEAN]

ActionStatus == {"absent", "pending", "completed", "failed", "unfit", "cancelled"}

TableTypes(rows, hands, acts, ow) ==
    /\ DOMAIN rows = Key /\ DOMAIN hands = Key /\ DOMAIN acts = Key /\ DOMAIN ow = Key
    /\ \A k \in Key :
           /\ rows[k] \in RowOf(k)
           /\ hands[k] \in [Steps(k) -> HandRow]
           /\ acts[k] \in [Steps(k) -> ActionStatus]
           /\ ow[k] \in {"no", "due", "lost"}

RowSound(k, row) ==
    /\ row.status = "absent" => row = Blank(k)
    /\ row.status = "completed" => \A i \in Steps(k) : row.step[i].status # "failed"
    /\ \A i \in Steps(k) :
           /\ row.step[i].status = "running" => Live(row) /\ Def(k, i).executor # "engine"
           /\ row.step[i].status \in {"running", "completed"} =>
                  \A j \in Def(k, i).deps : row.step[j].status \in Settled

\* A step that has not begun.
Fresh(step) == step.status = "pending" \/ (step.status = "failed" /\ step.why = "dependency")

WorkSound(executor, step, hand, act) ==
    /\ Fresh(step) => hand.status = "absent" /\ act = "absent"
    /\ hand.status # "absent" => executor \in Manual
    /\ hand.status = "absent" => hand = NoHandoff
    /\ act # "absent" => executor = "action"
    /\ hand.status \in {"pending", "leased"} \/ act = "pending" => step.status = "running"
    /\ step.status = "running" /\ executor \in Manual => hand.status \in {"pending", "leased"}
    /\ step.status = "completed" /\ executor \in Manual => hand.status = "completed"
    /\ step.status = "completed" /\ executor = "action" => act = "completed"

\* What a run at rest waits for.
Waiting(k, row) ==
    row.status \in {"running", "awaiting_confirmation"} =>
        /\ \E i \in Steps(k) : row.step[i].status = "running"
        /\ \A i \in Steps(k) :
               row.step[i].status = "pending" =>
                   LET deps == DepStatus(k, i, row.step)
                   IN  ~(deps \subseteq Settled) /\ "failed" \notin deps

\* The tables, when the run in `but` is about to be reconciled.
Sound(rows, hands, acts, ow, but) ==
    \A k \in Key :
        /\ RowSound(k, rows[k])
        /\ k \notin but => Waiting(k, rows[k])
        /\ \A i \in Steps(k) :
               /\ WorkSound(Def(k, i).executor, rows[k].step[i], hands[k][i], acts[k][i])
               /\ hands[k][i].status # "absent" =>
                      \A j \in Def(k, i).deps : rows[k].step[j].status \in Settled
               /\ rows[k].step[i].status = "completed" /\ Def(k, i).executor = "sop" =>
                      rows[Child[k][i]].status = "completed"
               /\ rows[k].step[i].status = "running" /\ Def(k, i).executor = "action" =>
                      acts[k][i] = "pending" \/ ow[k] # "no"
               /\ rows[k].step[i].status = "running" /\ Def(k, i).executor = "sop" =>
                      Live(rows[Child[k][i]]) \/ Child[k][i] \in but

\* Leases, when the handoffs are `hands`.
Held(hands) ==
    /\ claims \in 0..MaxClaims
    /\ \A k \in Key : \A i \in Steps(k) : HandoffType(hands[k][i])

\* The outbox and its readers, when the terminal events are `events`.
Reading(events) ==
    /\ time \in Nat
    /\ events \in [Key -> Event \cup {None}]
    /\ required \in [Consumer -> Nat \cup {None}]
    /\ acked \in [Key -> SUBSET Consumer]
    /\ \A c \in Consumer : required[c] = None \/ required[c] \in 0..(time + 1)
    /\ \A k \in Key :
           /\ events[k] # None => events[k].at \in 1..time
           /\ acked[k] # {} => events[k] # None
           /\ events[k] # None /\ events[k].compacted =>
                  Readers(events[k]) # {} /\ Readers(events[k]) \subseteq acked[k]

\* What is told of a run is how it ended.
ToldTruly(rows, events) ==
    \A k \in Key : events[k] # None => Terminal(rows[k]) /\ events[k].outcome = rows[k].status

Told(rows, events) ==
    /\ ToldTruly(rows, events)
    /\ \A k \in Key : Terminal(rows[k]) => events[k] # None

\* The tables, when a transaction about run k is about to end.
Ready(k, rows, hands, acts, events) ==
    /\ TableTypes(rows, hands, acts, owed)
    /\ Sound(rows, hands, acts, owed, {k})
    /\ Held(hands)
    /\ Reading(events)
    /\ ToldTruly(rows, events)

EngineInv ==
    /\ TableTypes(run, handoff, action, owed)
    /\ Sound(run, handoff, action, owed, {})
    /\ Held(handoff)
    /\ Reading(outbox)
    /\ Told(run, outbox)

-----------------------------------------------------------------------------
(* Recursion *)

\* A set of numbers with 0 and every successor is all of Nat.
LEMMA Induct ==
    ASSUME NEW T \in SUBSET Nat, 0 \in T, \A n \in T : n + 1 \in T
    PROVE  T = Nat
<1> SUFFICES ASSUME Nat \ T # {} PROVE FALSE
  OBVIOUS
<1>1. PICK m \in Nat \ T : \A y \in Nat \ T : <<y, m>> \notin OpToRel(<, Nat)
  BY NatLessThanWellFounded, WFMin
<1>2. m # 0 /\ m - 1 \in Nat
  OBVIOUS
<1>3. <<m - 1, m>> \in OpToRel(<, Nat)
  BY <1>2 DEF OpToRel
<1>4. m - 1 \in T
  BY <1>1, <1>2, <1>3
<1> QED
  BY <1>2, <1>4

\* A set of numbers that is not empty has a least member.
LEMMA Least ==
    ASSUME NEW T \in SUBSET Nat, T # {}
    PROVE  \E m \in T : \A y \in T : m <= y
<1>1. PICK m \in T : \A y \in T : <<y, m>> \notin OpToRel(<, Nat)
  BY NatLessThanWellFounded, WFMin
<1>2. \A y \in T : ~(y < m)
  BY <1>1 DEF OpToRel
<1> QED
  BY <1>2

\* H makes, of an attempt at a function from S to V, a better one: its value
\* at x needs the attempt's values at arguments of a lower rank only.
Descends(S, V, N, rank, H) ==
    /\ N \in Nat /\ rank \in [S -> 0..N] /\ [S -> V] # {}
    /\ \A f \in [S -> V] : H[f] \in [S -> V]
    /\ \A f, g \in [S -> V] : \A x \in S :
           (\A y \in S : rank[y] < rank[x] => f[y] = g[y]) => H[f][x] = H[g][x]

Solvable(S, V, H) == \E f \in [S -> V] : H[f] = f

\* A definition by recursion on arguments of a lower rank has a solution.
LEMMA Recursion ==
    ASSUME NEW S, NEW V, NEW N, NEW rank, NEW H, Descends(S, V, N, rank, H)
    PROVE  Solvable(S, V, H)
<1> USE DEF Descends, Solvable
<1> DEFINE Good(n) == \E f \in [S -> V] : \A x \in S : rank[x] < n => H[f][x] = f[x]
           T == {n \in Nat : Good(n)}
<1>1. Good(0)
  OBVIOUS
<1>2. ASSUME NEW n \in Nat, Good(n) PROVE Good(n + 1)
  <2>1. PICK f \in [S -> V] : \A x \in S : rank[x] < n => H[f][x] = f[x]
    BY <1>2
  <2>2. H[f] \in [S -> V]
    OBVIOUS
  <2>3. ASSUME NEW x \in S, rank[x] < n + 1 PROVE H[H[f]][x] = H[f][x]
    <3>1. \A y \in S : rank[y] < rank[x] => H[f][y] = f[y]
      BY <2>1, <2>3
    <3> QED
      BY <2>2, <3>1
  <2> QED
    BY <2>2, <2>3
<1>3. 0 \in T /\ T \in SUBSET Nat
  BY <1>1
<1>8. ASSUME NEW n \in T PROVE n + 1 \in T
  <2>1. n \in Nat /\ Good(n)
    OBVIOUS
  <2>2. Good(n + 1)
    BY <2>1, <1>2
  <2> QED
    BY <2>1, <2>2
<1>9. T = Nat
  <2> HIDE DEF T
  <2> QED
    BY <1>3, <1>8, Induct
<1>4. Good(N + 1)
  <2>1. N + 1 \in T
    <3> HIDE DEF T
    <3> QED
      BY <1>9
  <2> QED
    BY <2>1
<1>5. PICK f \in [S -> V] : \A x \in S : rank[x] < N + 1 => H[f][x] = f[x]
  BY <1>4
<1>6. \A x \in S : H[f][x] = f[x]
  BY <1>5
<1>7. H[f] = f
  BY <1>6
<1> QED
  BY <1>7

-----------------------------------------------------------------------------
(* The steps of one run *)

\* What a step comes to is a step.
LEMMA StepAfterType ==
    ASSUME NEW step \in StepRow, NEW executor, NEW says \in {"true", "false", "error"},
           NEW deps, NEW child, NEW act
    PROVE  StepAfter(step, executor, says, deps, child, act) \in StepRow
BY DEF StepAfter, Reached, Answer, Fails, StepRow, StepStatus

\* A run has finitely many steps, and each depends on earlier ones only.
LEMMA StepsOrdered ==
    ASSUME NEW k \in Key
    PROVE  \E n \in Nat : /\ Steps(k) = 1..n
                          /\ \A i \in Steps(k) : Def(k, i).deps \subseteq 1..(i - 1)
                          /\ \A i \in Steps(k) : Def(k, i).executor \in Executor
BY TemplateAssumption, PlaceAssumption DEF Steps, Def

\* The steps of a run satisfy the equation that defines them.
LEMMA StepsEquation ==
    ASSUME NEW k \in Key, NEW steps \in [Steps(k) -> StepRow], NEW came, NEW act
    PROVE  LET step == StepsAfter(k, steps, came, act)
           IN  /\ step \in [Steps(k) -> StepRow]
               /\ \A i \in Steps(k) :
                      step[i] = StepAfter(steps[i], Def(k, i).executor, Says(k, i),
                                          DepStatus(k, i, step), came[i], act[i])
<1> DEFINE Next1(f, i) == StepAfter(steps[i], Def(k, i).executor, Says(k, i),
                                    DepStatus(k, i, f), came[i], act[i])
           S == Steps(k)
           V == StepRow
           H == [f \in [S -> V] |-> [i \in S |-> Next1(f, i)]]
<1>1. PICK n \in Nat : S = 1..n /\ \A i \in S : Def(k, i).deps \subseteq 1..(i - 1)
  BY StepsOrdered
<1> DEFINE rank == [i \in S |-> i]
<1>2. rank \in [S -> 0..n]
  BY <1>1
<1>3. \A f \in [S -> V] : \A i \in S : Next1(f, i) \in V
  BY StepAfterType, VerdictAssumption
<1>4. H \in [[S -> V] -> [S -> V]]
  <2> HIDE DEF Next1
  <2> QED BY <1>3
<1>5. ASSUME NEW f \in [S -> V], NEW g \in [S -> V], NEW i \in S,
             \A j \in S : rank[j] < rank[i] => f[j] = g[j]
      PROVE  H[f][i] = H[g][i]
  <2>1. \A j \in Def(k, i).deps : j \in S /\ f[j] = g[j]
    BY <1>1, <1>5
  <2>2. DepStatus(k, i, f) = DepStatus(k, i, g)
    BY <2>1 DEF DepStatus
  <2>3. Next1(f, i) = Next1(g, i)
    BY <2>2
  <2> HIDE DEF Next1
  <2> QED BY <2>3
<1>6. Solvable(S, V, H)
  <2>1. [S -> V] # {}
    OBVIOUS
  <2>2. Descends(S, V, n, rank, H)
    <3>1. n \in Nat
      OBVIOUS
    <3>2. \A f \in [S -> V] : H[f] \in [S -> V]
      BY <1>4
    <3>3. \A f, g \in [S -> V] : \A i \in S :
              (\A j \in S : rank[j] < rank[i] => f[j] = g[j]) => H[f][i] = H[g][i]
      BY <1>5
    <3> HIDE DEF H, rank, V, S
    <3> QED BY <1>2, <2>1, <3>1, <3>2, <3>3 DEF Descends
  <2> HIDE DEF H, rank, V, S
  <2> QED BY <2>2, Recursion
<1>7. PICK f \in [S -> V] : H[f] = f
  BY <1>6 DEF Solvable
<1>8. f = [i \in Steps(k) |-> Next1(f, i)]
  BY <1>7
<1>9. LET g == StepsAfter(k, steps, came, act) IN g = [i \in Steps(k) |-> Next1(g, i)]
  BY <1>8 DEF StepsAfter
<1> DEFINE g == StepsAfter(k, steps, came, act)
<1>10. g = [i \in Steps(k) |-> Next1(g, i)]
  BY <1>9
<1> HIDE DEF g
<1>11. \A i \in Steps(k) : g[i] = Next1(g, i)
  <2> HIDE DEF Next1
  <2> QED BY <1>10
<1>12. ASSUME NEW i \in Steps(k) PROVE g[i] \in StepRow
  <2>1. Next1(g, i) \in StepRow
    BY StepAfterType, VerdictAssumption
  <2> HIDE DEF Next1
  <2> QED BY <1>11, <2>1
<1>13. DOMAIN g = Steps(k)
  <2> HIDE DEF Next1
  <2> QED BY <1>10
<1>14. g \in [Steps(k) -> StepRow]
  <2>1. g = [i \in Steps(k) |-> g[i]]
    <3> HIDE DEF Next1
    <3> QED BY <1>10
  <2> QED BY <1>12, <2>1
<1> QED
  BY <1>11, <1>14 DEF g

-----------------------------------------------------------------------------
(* The nesting of the runs *)

\* The child of a step is a run made from that step.
LEMMA ChildOf ==
    ASSUME NEW k \in Key, NEW i \in Steps(k), Def(k, i).executor = "sop"
    PROVE  /\ Child[k][i] \in Key
           /\ Kind(Child[k][i]) = "child"
           /\ Parent(Child[k][i]) = k
           /\ StepOf(Child[k][i]) = i
<1>1. MadeFrom("child", k, i) # {}
  BY PlaceAssumption
<1>2. (CHOOSE j \in MadeFrom("child", k, i) : TRUE) \in MadeFrom("child", k, i)
  BY <1>1
<1>3. Child[k][i] = CHOOSE j \in MadeFrom("child", k, i) : TRUE
  BY DEF Child
<1>4. Child[k][i] \in MadeFrom("child", k, i)
  BY <1>2, <1>3
<1> QED
  BY <1>4 DEF MadeFrom

\* A child is made from a step of its parent.
LEMMA ParentOf ==
    ASSUME NEW k \in Key, Kind(k) = "child"
    PROVE  Parent(k) \in Key /\ StepOf(k) \in Steps(Parent(k))
BY PlaceAssumption

\* The nesting is bounded, and a child is deeper than its parent.
LEMMA Nested ==
    \E n \in Nat : \E depth \in [Key -> 0..n] :
        \A k \in Key : Kind(k) = "child" => depth[Parent(k)] < depth[k]
BY NestingAssumption, TemplateAssumption, FS_CardinalityType

\* A row that has never been written is a row.
LEMMA BlankType ==
    ASSUME NEW k \in Key
    PROVE  Blank(k) \in RowOf(k) /\ Admitted(k) \in RowOf(k)
BY DEF Blank, Admitted, RowOf, RunStatus, EndStatus, NewStep, StepRow, StepStatus

Present(rows, k) == IF rows[k].status = "absent" THEN Admitted(k) ELSE rows[k]

\* What the children of run k have come to.
Came(rec, k) ==
    [i \in Steps(k) |-> IF Def(k, i).executor = "sop" THEN rec[Child[k][i]].status ELSE "open"]

AnyRow == UNION {RowOf(k) : k \in Key}

\* A status that is computed is that of a run.
LEMMA StatusAfterType ==
    ASSUME NEW k, NEW step
    PROVE  StatusAfter(k, step) \in {"running", "awaiting_confirmation", "completed", "failed"}
BY DEF StatusAfter

\* What a run comes to is a row of that run.
LEMMA RowAfterType ==
    ASSUME NEW k \in Key, NEW row \in RowOf(k), NEW came, NEW act
    PROVE  RowAfter(k, row, came, act) \in RowOf(k)
<1> DEFINE step == StepsAfter(k, row.step, came, act)
<1>1. row.step \in [Steps(k) -> StepRow]
  BY DEF RowOf
<1>2. step \in [Steps(k) -> StepRow]
  BY <1>1, StepsEquation
<1>3. StatusAfter(k, step) \in RunStatus
  BY StatusAfterType DEF RunStatus, EndStatus
<1>4. RowAfter(k, row, came, act) =
          IF Terminal(row) THEN row ELSE [status |-> StatusAfter(k, step), step |-> step]
  BY DEF RowAfter
<1> HIDE DEF step
<1> QED
  BY <1>2, <1>3, <1>4 DEF RowOf

\* What all runs come to satisfies the equation that defines it.
LEMMA ReconciledEquation ==
    ASSUME NEW rows, \A k \in Key : rows[k] \in RowOf(k), NEW acts
    PROVE  LET rec == Reconciled(rows, acts)
           IN  \A k \in Key :
                   /\ rec[k] = RowAfter(k, Present(rows, k), Came(rec, k), acts[k])
                   /\ rec[k] \in RowOf(k)
<1> DEFINE Next1(f, k) == RowAfter(k, Present(rows, k), Came(f, k), acts[k])
           S == Key
           V == AnyRow
           H == [f \in [S -> V] |-> [k \in S |-> Next1(f, k)]]
<1>0. PICK n \in Nat : \E depth \in [Key -> 0..n] :
          \A k \in Key : Kind(k) = "child" => depth[Parent(k)] < depth[k]
  BY Nested
<1>1. PICK depth \in [Key -> 0..n] : \A k \in Key : Kind(k) = "child" => depth[Parent(k)] < depth[k]
  BY <1>0
<1> DEFINE rank == [k \in S |-> n - depth[k]]
<1>2. rank \in [S -> 0..n]
  <2>1. \A k \in Key : depth[k] \in 0..n /\ n - depth[k] \in 0..n
    BY <1>1
  <2> QED BY <2>1
<1>3. ASSUME NEW f, NEW k \in Key PROVE Next1(f, k) \in RowOf(k)
  <2>1. Present(rows, k) \in RowOf(k)
    BY BlankType DEF Present
  <2> QED BY <2>1, RowAfterType
<1>4. ASSUME NEW f \in [S -> V] PROVE H[f] \in [S -> V]
  <2>1. \A k \in Key : Next1(f, k) \in AnyRow
    BY <1>3 DEF AnyRow
  <2> HIDE DEF Next1
  <2> QED BY <2>1
<1>5. ASSUME NEW f \in [S -> V], NEW g \in [S -> V], NEW k \in S,
             \A j \in S : rank[j] < rank[k] => f[j] = g[j]
      PROVE  H[f][k] = H[g][k]
  <2>1. ASSUME NEW i \in Steps(k), Def(k, i).executor = "sop" PROVE f[Child[k][i]] = g[Child[k][i]]
    <3>1. Child[k][i] \in Key /\ depth[k] < depth[Child[k][i]]
      BY <1>1, <2>1, ChildOf
    <3>2. depth[k] \in 0..n /\ depth[Child[k][i]] \in 0..n
      BY <3>1, <1>1
    <3>3. rank[Child[k][i]] < rank[k]
      BY <3>1, <3>2
    <3> QED BY <1>5, <3>1, <3>3
  <2>2. Came(f, k) = Came(g, k)
    BY <2>1 DEF Came
  <2>3. Next1(f, k) = Next1(g, k)
    BY <2>2
  <2> HIDE DEF Next1
  <2> QED BY <2>3
<1>6. Solvable(S, V, H)
  <2>1. [S -> V] # {}
    <3>1. [k \in S |-> Blank(k)] \in [S -> V]
      BY BlankType DEF AnyRow
    <3> QED BY <3>1
  <2>2. Descends(S, V, n, rank, H)
    <3>1. n \in Nat
      OBVIOUS
    <3>2. \A f \in [S -> V] : H[f] \in [S -> V]
      BY <1>4
    <3>3. \A f, g \in [S -> V] : \A k \in S :
              (\A j \in S : rank[j] < rank[k] => f[j] = g[j]) => H[f][k] = H[g][k]
      BY <1>5
    <3> HIDE DEF H, rank, V, S
    <3> QED BY <1>2, <2>1, <3>1, <3>2, <3>3 DEF Descends
  <2> HIDE DEF H, rank, V, S
  <2> QED BY <2>2, Recursion
<1>7. PICK f \in [S -> V] : H[f] = f
  BY <1>6 DEF Solvable
<1>8. f = [k \in Key |-> Next1(f, k)]
  BY <1>7
<1> DEFINE rec == Reconciled(rows, acts)
<1>9. rec = [k \in Key |-> Next1(rec, k)]
  BY <1>8 DEF Reconciled, Present, Came
<1> HIDE DEF rec
<1>10. ASSUME NEW k \in Key PROVE rec[k] = Next1(rec, k)
  <2> HIDE DEF Next1
  <2> QED BY <1>9
<1> QED
  BY <1>3, <1>10 DEF rec

\* The runs above a run satisfy the equation that defines them.
LEMMA LineageEquation ==
    ASSUME NEW k \in Key
    PROVE  Lineage[k] = {k} \cup (IF Kind(k) = "child" THEN Lineage[Parent(k)] ELSE {})
<1> DEFINE Next1(f, j) == {j} \cup (IF Kind(j) = "child" THEN f[Parent(j)] ELSE {})
           S == Key
           V == SUBSET Key
           H == [f \in [S -> V] |-> [j \in S |-> Next1(f, j)]]
<1>0. PICK n \in Nat : \E depth \in [Key -> 0..n] :
          \A j \in Key : Kind(j) = "child" => depth[Parent(j)] < depth[j]
  BY Nested
<1>1. PICK depth \in [Key -> 0..n] : \A j \in Key : Kind(j) = "child" => depth[Parent(j)] < depth[j]
  BY <1>0
<1>2. \A f \in [S -> V] : H[f] \in [S -> V]
  BY PlaceAssumption
<1>3. \A f, g \in [S -> V] : \A j \in S :
          (\A x \in S : depth[x] < depth[j] => f[x] = g[x]) => H[f][j] = H[g][j]
  BY <1>1, PlaceAssumption
<1>4. [S -> V] # {}
  <2>1. [j \in S |-> {}] \in [S -> V]
    OBVIOUS
  <2> QED BY <2>1
<1>5. n \in Nat /\ depth \in [S -> 0..n]
  OBVIOUS
<1>6. Solvable(S, V, H)
  <2> HIDE DEF H, V, S
  <2>1. Descends(S, V, n, depth, H)
    BY <1>2, <1>3, <1>4, <1>5 DEF Descends
  <2> QED BY <2>1, Recursion
<1>7. PICK f \in [S -> V] : H[f] = f
  BY <1>6 DEF Solvable
<1>8. f = [j \in Key |-> Next1(f, j)]
  BY <1>7
<1>9. Lineage = [j \in Key |-> Next1(Lineage, j)]
  BY <1>8 DEF Lineage
<1> QED
  BY <1>9

\* With a run, all the runs above it are in its lineage.
LEMMA LineageUp ==
    ASSUME NEW k \in Key, NEW j \in Key, j \in Lineage[k], Kind(j) = "child"
    PROVE  Parent(j) \in Lineage[k]
<1> DEFINE Open(x) == \E y \in Key : y \in Lineage[x] /\ Kind(y) = "child" /\ Parent(y) \notin Lineage[x]
<1>0. PICK n \in Nat : \E depth \in [Key -> 0..n] :
          \A x \in Key : Kind(x) = "child" => depth[Parent(x)] < depth[x]
  BY Nested
<1>1. PICK depth \in [Key -> 0..n] : \A x \in Key : Kind(x) = "child" => depth[Parent(x)] < depth[x]
  BY <1>0
<1> DEFINE T == {d \in Nat : \E x \in Key : depth[x] = d /\ Open(x)}
<1>2. ASSUME T # {} PROVE FALSE
  <2>1. PICK d \in T : \A e \in T : d <= e
    <3>1. T \in SUBSET Nat
      OBVIOUS
    <3> HIDE DEF T
    <3> QED BY <1>2, <3>1, Least
  <2>2. PICK x \in Key : depth[x] = d /\ Open(x)
    BY <2>1
  <2>3. PICK y \in Key : y \in Lineage[x] /\ Kind(y) = "child" /\ Parent(y) \notin Lineage[x]
    BY <2>2
  <2>4. Lineage[x] = {x} \cup (IF Kind(x) = "child" THEN Lineage[Parent(x)] ELSE {})
    BY LineageEquation
  <2>5. CASE y = x
    <3>1. Parent(x) \in Lineage[Parent(x)]
      BY <2>3, <2>5, ParentOf, LineageEquation
    <3> QED BY <2>3, <2>4, <2>5, <3>1
  <2>6. CASE y # x
    <3>1. Kind(x) = "child" /\ y \in Lineage[Parent(x)] /\ Parent(y) \notin Lineage[Parent(x)]
      BY <2>3, <2>4, <2>6
    <3>2. Parent(x) \in Key /\ depth[Parent(x)] < depth[x] /\ Open(Parent(x))
      BY <1>1, <2>3, <3>1, ParentOf
    <3>3. depth[Parent(x)] \in T
      BY <3>2, <1>1
    <3> QED BY <2>1, <2>2, <3>2, <3>3
  <2> QED BY <2>5, <2>6
<1>3. ~Open(k)
  <2>1. depth[k] \in Nat
    BY <1>1
  <2> QED BY <1>2, <2>1
<1> QED
  BY <1>3

\* The step that admitted child j waits for it, or is just admitting it.
Waited(rows, rec, j) ==
    /\ Kind(j) = "child"
    /\ ~Terminal(rows[Parent(j)])
    /\ \/ rows[Parent(j)].step[StepOf(j)].status = "running"
       \/ Admits(rows, rec, Parent(j), StepOf(j)) /\ rows[Parent(j)].step[StepOf(j)].pin

\* The runs looked at satisfy the equation that defines them.
LEMMA LookedAtEquation ==
    ASSUME NEW k \in Key, NEW rows, NEW rec
    PROVE  LET seen == LookedAt(k, rows, rec)
           IN  /\ seen \subseteq Key
               /\ \A j \in Key :
                      j \in seen <=> j \in Lineage[k] \/ (Waited(rows, rec, j) /\ Parent(j) \in seen)
<1> DEFINE Next1(f, j) == \/ j \in Lineage[k]
                          \/ /\ Kind(j) = "child"
                             /\ f[Parent(j)]
                             /\ ~Terminal(rows[Parent(j)])
                             /\ \/ rows[Parent(j)].step[StepOf(j)].status = "running"
                                \/ Admits(rows, rec, Parent(j), StepOf(j)) /\ rows[Parent(j)].step[StepOf(j)].pin
           S == Key
           V == BOOLEAN
           H == [f \in [S -> V] |-> [j \in S |-> Next1(f, j)]]
<1>0. PICK n \in Nat : \E depth \in [Key -> 0..n] :
          \A j \in Key : Kind(j) = "child" => depth[Parent(j)] < depth[j]
  BY Nested
<1>1. PICK depth \in [Key -> 0..n] : \A j \in Key : Kind(j) = "child" => depth[Parent(j)] < depth[j]
  BY <1>0
<1>2. ASSUME NEW f, NEW j PROVE Next1(f, j) \in BOOLEAN
  OBVIOUS
<1>3. \A f \in [S -> V] : H[f] \in [S -> V]
  <2> HIDE DEF Next1
  <2> QED BY <1>2
<1>4. ASSUME NEW f \in [S -> V], NEW g \in [S -> V], NEW j \in S,
             \A x \in S : depth[x] < depth[j] => f[x] = g[x]
      PROVE  H[f][j] = H[g][j]
  <2>1. Kind(j) = "child" => f[Parent(j)] = g[Parent(j)]
    BY <1>1, <1>4, ParentOf
  <2>2. Next1(f, j) = Next1(g, j)
    BY <2>1
  <2> HIDE DEF Next1
  <2> QED BY <2>2
<1>5. [S -> V] # {}
  <2>1. [j \in S |-> TRUE] \in [S -> V]
    OBVIOUS
  <2> QED BY <2>1
<1>6. n \in Nat /\ depth \in [S -> 0..n]
  OBVIOUS
<1>7. Solvable(S, V, H)
  <2>1. \A f, g \in [S -> V] : \A j \in S :
            (\A x \in S : depth[x] < depth[j] => f[x] = g[x]) => H[f][j] = H[g][j]
    BY <1>4
  <2> HIDE DEF H, V, S
  <2>2. Descends(S, V, n, depth, H)
    BY <1>3, <2>1, <1>5, <1>6 DEF Descends
  <2> QED BY <2>2, Recursion
<1>8. PICK f \in [S -> V] : H[f] = f
  BY <1>7 DEF Solvable
<1>9. f = [j \in Key |-> Next1(f, j)]
  BY <1>8
<1> DEFINE seen == CHOOSE g : g = [j \in Key |-> Next1(g, j)]
<1>10. seen = [j \in Key |-> Next1(seen, j)]
  <2> HIDE DEF Next1
  <2> QED BY <1>9
<1>11. LookedAt(k, rows, rec) = {j \in Key : seen[j]}
  BY DEF LookedAt
<1> HIDE DEF seen
<1>12. ASSUME NEW j \in Key PROVE seen[j] = Next1(seen, j)
  <2> HIDE DEF Next1
  <2> QED BY <1>10
<1> DEFINE L == LookedAt(k, rows, rec)
<1>13. \A j \in Key : j \in L <=> seen[j]
  BY <1>11
<1>14. ASSUME NEW j \in Key
       PROVE  j \in L <=> j \in Lineage[k] \/ (Waited(rows, rec, j) /\ Parent(j) \in L)
  <2>1. CASE Kind(j) = "child"
    <3>1. Parent(j) \in Key
      BY <2>1, ParentOf
    <3> QED BY <1>12, <1>13, <2>1, <3>1 DEF Waited
  <2>2. CASE Kind(j) # "child"
    BY <1>12, <1>13, <2>2 DEF Waited
  <2> QED BY <2>1, <2>2
<1>15. L \subseteq Key
  BY <1>11
<1> QED
  BY <1>14, <1>15

\* Reconciling a run looks at it, at all runs above it, at no child without
\* its parent, and at each child that is waited for by a run looked at.
LEMMA LooksAt ==
    ASSUME NEW k \in Key, NEW rows, NEW rec
    PROVE  LET seen == LookedAt(k, rows, rec)
           IN  /\ k \in seen /\ seen \subseteq Key
               /\ \A j \in seen : Kind(j) = "child" => Parent(j) \in seen
               /\ \A j \in Key : Waited(rows, rec, j) /\ Parent(j) \in seen => j \in seen
<1> DEFINE seen == LookedAt(k, rows, rec)
<1>1. /\ seen \subseteq Key
      /\ \A j \in Key : j \in seen <=> j \in Lineage[k] \/ (Waited(rows, rec, j) /\ Parent(j) \in seen)
  BY LookedAtEquation
<1> HIDE DEF seen
<1>2. k \in Lineage[k]
  BY LineageEquation
<1>3. ASSUME NEW j \in seen, Kind(j) = "child" PROVE Parent(j) \in seen
  <2>1. CASE j \in Lineage[k]
    BY <1>1, <1>3, <2>1, LineageUp, ParentOf
  <2> QED BY <1>1, <2>1
<1> QED
  BY <1>1, <1>2, <1>3 DEF seen

-----------------------------------------------------------------------------
(* One step, and one run *)

\* A step that is over stays; one still pending is blocked; one that runs, or
\* is done, ran before or has just begun.
LEMMA StepCourse ==
    ASSUME NEW step \in StepRow, NEW executor \in Executor, NEW says \in {"true", "false", "error"},
           NEW deps, NEW came, NEW act
    PROVE  LET s2 == StepAfter(step, executor, says, deps, came, act)
           IN  /\ step.status \notin {"pending", "running"} => s2 = step
               /\ s2.status = "pending" =>
                      step.status = "pending" /\ ~(deps \subseteq Settled) /\ "failed" \notin deps
               /\ s2.status \in {"running", "completed"} =>
                      \/ step.status \in {"running", s2.status}
                      \/ Begins(step, says, deps) /\ (executor = "sop" => step.pin)
               /\ Fresh(s2) => Fresh(step)
<1> USE DEF StepAfter, Reached, Answer, Fails, StepRow, StepStatus, Settled
<1> DEFINE s2 == StepAfter(step, executor, says, deps, came, act)
<1>1. step.status \notin {"pending", "running"} => s2 = step
  OBVIOUS
<1>2. s2.status = "pending" =>
          step.status = "pending" /\ ~(deps \subseteq Settled) /\ "failed" \notin deps
  OBVIOUS
<1>3. s2.status \in {"running", "completed"} =>
          \/ step.status \in {"running", s2.status}
          \/ Begins(step, says, deps) /\ (executor = "sop" => step.pin)
  BY DEF Begins
<1>4. Fresh(s2) => Fresh(step)
  BY DEF Fresh
<1> QED
  BY <1>1, <1>2, <1>3, <1>4

\* A running step waits for an answer that has not come; a step is done with
\* the answer its executor gives.
LEMMA StepAnswer ==
    ASSUME NEW step \in StepRow, NEW executor \in Executor, NEW says \in {"true", "false", "error"},
           NEW deps, NEW came, NEW act,
           step.status = "running" => executor # "engine"
    PROVE  LET s2 == StepAfter(step, executor, says, deps, came, act)
           IN  /\ s2.status = "running" =>
                      /\ executor # "engine"
                      /\ executor = "action" => act \notin {"completed", "failed", "cancelled", "unfit"}
                      /\ executor = "sop" => came \notin EndStatus
               /\ s2.status = "completed" /\ step.status # "completed" =>
                      /\ executor \notin Manual
                      /\ executor = "action" => act = "completed"
                      /\ executor = "sop" => came = "completed"
               /\ step.status = "running" /\ (executor \in Manual \/ (executor = "action" /\ act = "pending")) =>
                      s2.status = "running"
<1> USE DEF StepAfter, Reached, Answer, Fails, StepRow, StepStatus, Settled, Executor, Manual
<1> DEFINE s2 == StepAfter(step, executor, says, deps, came, act)
<1>1. s2.status = "running" =>
          /\ executor # "engine"
          /\ executor = "action" => act \notin {"completed", "failed", "cancelled", "unfit"}
          /\ executor = "sop" => came \notin EndStatus
  BY DEF EndStatus
<1>2. s2.status = "completed" /\ step.status # "completed" =>
          /\ executor \notin Manual
          /\ executor = "action" => act = "completed"
          /\ executor = "sop" => came = "completed"
  OBVIOUS
<1>3. step.status = "running" /\ (executor \in Manual \/ (executor = "action" /\ act = "pending")) =>
          s2.status = "running"
  OBVIOUS
<1> QED
  BY <1>1, <1>2, <1>3

\* The status of a run tells whether a step of it is still open.
LEMMA StatusTells ==
    ASSUME NEW k \in Key, NEW step \in [Steps(k) -> StepRow]
    PROVE  LET status == StatusAfter(k, step)
           IN  /\ status \in {"completed", "failed"} <=>
                      \A i \in Steps(k) : step[i].status \notin {"pending", "running"}
               /\ status = "completed" => \A i \in Steps(k) : step[i].status # "failed"
<1>1. \A i \in Steps(k) : step[i].status \in StepStatus
  BY DEF StepRow
<1> DEFINE all == {step[i].status : i \in Steps(k)}
<1>2. all \subseteq {"completed", "failed", "skipped"} <=>
          \A i \in Steps(k) : step[i].status \notin {"pending", "running"}
  BY <1>1 DEF StepStatus
<1>3. "failed" \in all <=> \E i \in Steps(k) : step[i].status = "failed"
  OBVIOUS
<1>4. StatusAfter(k, step) \in {"completed", "failed"} <=> all \subseteq {"completed", "failed", "skipped"}
  BY DEF StatusAfter
<1>5. StatusAfter(k, step) = "completed" => "failed" \notin all
  BY DEF StatusAfter
<1> HIDE DEF all
<1> QED
  BY <1>2, <1>3, <1>4, <1>5

\* Where each step that is pending is blocked by one that is not over, the
\* first step that is not over is running.
LEMMA FirstOpenRuns ==
    ASSUME NEW k \in Key, NEW step \in [Steps(k) -> StepRow],
           NEW o \in Steps(k), step[o].status \in {"pending", "running"},
           \A i \in Steps(k) : step[i].status = "pending" =>
               LET deps == DepStatus(k, i, step)
               IN  ~(deps \subseteq Settled) /\ "failed" \notin deps
    PROVE  \E i \in Steps(k) : step[i].status = "running"
<1>1. PICK n \in Nat : Steps(k) = 1..n /\ \A i \in Steps(k) : Def(k, i).deps \subseteq 1..(i - 1)
  BY StepsOrdered
<1> DEFINE T == {i \in Steps(k) : step[i].status \in {"pending", "running"}}
<1>2. PICK m \in T : \A y \in T : m <= y
  <2>1. T \in SUBSET Nat /\ T # {}
    BY <1>1
  <2> HIDE DEF T
  <2> QED BY <2>1, Least
<1>3. CASE step[m].status = "pending"
  <2>1. \A j \in Def(k, m).deps : j \in Steps(k) /\ j \notin T
    BY <1>1, <1>2
  <2>2. \A j \in Def(k, m).deps : step[j].status \in {"completed", "failed", "skipped"}
    BY <2>1 DEF StepRow, StepStatus
  <2> QED BY <1>3, <2>2 DEF Settled, DepStatus
<1> QED
  BY <1>2, <1>3

\* A run that is reconciled is sound again and, unless it is over, waits.
LEMMA RowCourse ==
    ASSUME NEW k \in Key, NEW row \in RowOf(k), ~Terminal(row), RowSound(k, row), NEW came, NEW act
    PROVE  LET r2 == RowAfter(k, row, came, act)
           IN  /\ r2 \in RowOf(k)
               /\ r2.status \in {"running", "awaiting_confirmation", "completed", "failed"}
               /\ \A i \in Steps(k) :
                      r2.step[i] = StepAfter(row.step[i], Def(k, i).executor, Says(k, i),
                                             DepStatus(k, i, r2.step), came[i], act[i])
               /\ RowSound(k, r2)
               /\ Waiting(k, r2)
<1> DEFINE step == StepsAfter(k, row.step, came, act)
           r2 == RowAfter(k, row, came, act)
<1>1. row.step \in [Steps(k) -> StepRow]
  BY DEF RowOf
<1>2. /\ step \in [Steps(k) -> StepRow]
      /\ \A i \in Steps(k) :
             step[i] = StepAfter(row.step[i], Def(k, i).executor, Says(k, i),
                                 DepStatus(k, i, step), came[i], act[i])
  BY <1>1, StepsEquation
<1>3. r2 = [status |-> StatusAfter(k, step), step |-> step]
  BY DEF RowAfter
<1> HIDE DEF step, r2
<1>4. r2.status = StatusAfter(k, step) /\ r2.step = step
  BY <1>3
<1>5. r2.status \in {"running", "awaiting_confirmation", "completed", "failed"}
  BY <1>4, StatusAfterType
<1>6. r2 \in RowOf(k)
  BY <1>2, <1>3, <1>4, <1>5 DEF RowOf, RunStatus, EndStatus
<1>7. ASSUME NEW i \in Steps(k)
      PROVE  /\ row.step[i] \in StepRow /\ step[i] \in StepRow
             /\ Def(k, i).executor \in Executor /\ Says(k, i) \in {"true", "false", "error"}
             /\ \A j \in Def(k, i).deps : j \in Steps(k)
  <2>1. PICK n \in Nat : /\ Steps(k) = 1..n
                         /\ \A x \in Steps(k) : Def(k, x).deps \subseteq 1..(x - 1)
                         /\ \A x \in Steps(k) : Def(k, x).executor \in Executor
    BY StepsOrdered
  <2>2. i \in 1..n /\ Def(k, i).deps \subseteq 1..(i - 1)
    BY <2>1
  <2>3. \A j \in Def(k, i).deps : j \in Steps(k)
    BY <2>1, <2>2
  <2> QED BY <1>1, <1>2, <2>1, <2>3, VerdictAssumption
<1>8. \A i \in Steps(k) : step[i].status = "pending" =>
          LET deps == DepStatus(k, i, step)
          IN  ~(deps \subseteq Settled) /\ "failed" \notin deps
  <2> SUFFICES ASSUME NEW i \in Steps(k), step[i].status = "pending"
               PROVE  LET deps == DepStatus(k, i, step)
                      IN  ~(deps \subseteq Settled) /\ "failed" \notin deps
    OBVIOUS
  <2> DEFINE deps == DepStatus(k, i, step)
  <2>1. step[i] = StepAfter(row.step[i], Def(k, i).executor, Says(k, i), deps, came[i], act[i])
    BY <1>2
  <2> HIDE DEF deps
  <2>2. ~(deps \subseteq Settled) /\ "failed" \notin deps
    BY <1>7, <2>1, StepCourse
  <2> QED BY <2>2 DEF deps
<1>9. Waiting(k, r2)
  <2> SUFFICES ASSUME r2.status \in {"running", "awaiting_confirmation"}
               PROVE  \E i \in Steps(k) : step[i].status = "running"
    BY <1>4, <1>8 DEF Waiting
  <2>1. \E i \in Steps(k) : step[i].status \in {"pending", "running"}
    BY <1>2, <1>4, StatusTells
  <2> QED BY <1>2, <1>8, <2>1, FirstOpenRuns
<1>10. ASSUME NEW i \in Steps(k)
       PROVE  /\ step[i].status = "running" => Live(r2) /\ Def(k, i).executor # "engine"
              /\ step[i].status \in {"running", "completed"} =>
                     \A j \in Def(k, i).deps : step[j].status \in Settled
  <2> DEFINE deps == DepStatus(k, i, step)
  <2>1. step[i] = StepAfter(row.step[i], Def(k, i).executor, Says(k, i), deps, came[i], act[i])
    BY <1>2
  <2>2. \A j \in Def(k, i).deps : row.step[j].status \in Settled => step[j].status \in Settled
    <3> SUFFICES ASSUME NEW j \in Def(k, i).deps, row.step[j].status \in Settled
                 PROVE  step[j].status \in Settled
      OBVIOUS
    <3> DEFINE dj == DepStatus(k, j, step)
    <3>1. j \in Steps(k)
      BY <1>7
    <3>2. step[j] = StepAfter(row.step[j], Def(k, j).executor, Says(k, j), dj, came[j], act[j])
      BY <1>2, <3>1
    <3>3. /\ row.step[j] \in StepRow /\ Def(k, j).executor \in Executor
          /\ Says(k, j) \in {"true", "false", "error"}
      BY <1>7, <3>1
    <3> HIDE DEF dj
    <3>4. step[j] = row.step[j]
      BY <3>2, <3>3, StepCourse DEF Settled
    <3> QED BY <3>4
  <2>3. row.step[i].status = "running" => Def(k, i).executor # "engine"
    BY DEF RowSound
  <2>4. row.step[i].status \in {"running", "completed"} =>
            \A j \in Def(k, i).deps : row.step[j].status \in Settled
    BY DEF RowSound
  <2>5. step[i].status = "running" => Live(r2)
    <3>1. step[i].status = "running" => r2.status \notin {"completed", "failed"}
      BY <1>2, <1>4, StatusTells
    <3> QED BY <1>5, <3>1 DEF Live, EndStatus
  <2>6. (\A j \in Def(k, i).deps : step[j].status \in Settled) <=> deps \subseteq Settled
    BY DEF DepStatus
  <2> HIDE DEF deps
  <2>7. step[i].status = "running" => Def(k, i).executor # "engine"
    BY <1>7, <2>1, <2>3, StepAnswer
  <2>8. step[i].status \in {"running", "completed"} => deps \subseteq Settled
    <3>1. step[i].status \in {"running", "completed"} =>
              row.step[i].status \in {"running", "completed"} \/ Begins(row.step[i], Says(k, i), deps)
      BY <1>7, <2>1, StepCourse
    <3> QED BY <3>1, <2>2, <2>4, <2>6 DEF Begins
  <2> QED BY <2>5, <2>6, <2>7, <2>8
<1>11. RowSound(k, r2)
  <2>1. r2.status # "absent"
    BY <1>5
  <2>2. r2.status = "completed" => \A i \in Steps(k) : r2.step[i].status # "failed"
    BY <1>2, <1>4, StatusTells
  <2> QED BY <1>4, <1>10, <2>1, <2>2 DEF RowSound
<1> QED
  BY <1>2, <1>4, <1>5, <1>6, <1>9, <1>11 DEF r2

-----------------------------------------------------------------------------
(* What a transaction does to the rows *)

\* The rows, when the run k and those it looks at have been reconciled.
Turned(k, rows, acts) ==
    RowsAfter(rows, Reconciled(rows, acts), LookedAt(k, rows, Reconciled(rows, acts)))

SeenFrom(k, rows, acts) == LookedAt(k, rows, Reconciled(rows, acts))

RowsSound(rows) == \A k \in Key : rows[k] \in RowOf(k) /\ RowSound(k, rows[k])

\* A row that is admitted on the way has the steps it had before.
LEMMA PresentSound ==
    ASSUME NEW rows, RowsSound(rows), NEW k \in Key, ~Terminal(rows[k])
    PROVE  /\ Present(rows, k) \in RowOf(k)
           /\ ~Terminal(Present(rows, k))
           /\ RowSound(k, Present(rows, k))
           /\ Present(rows, k).step = rows[k].step
<1>1. CASE rows[k].status = "absent"
  <2>1. rows[k] = Blank(k) /\ Present(rows, k) = Admitted(k)
    BY <1>1 DEF RowsSound, RowSound, Present
  <2>2. Admitted(k).status = "pending" /\ Admitted(k).step = Blank(k).step
    BY DEF Admitted, Blank
  <2>3. \A i \in Steps(k) : Admitted(k).step[i].status = "pending"
    BY DEF Admitted, Blank, NewStep
  <2>4. RowSound(k, Admitted(k))
    BY <2>2, <2>3 DEF RowSound
  <2>5. ~Terminal(Admitted(k))
    BY <2>2 DEF Terminal, EndStatus
  <2> QED BY <2>1, <2>2, <2>4, <2>5, BlankType
<1>2. CASE rows[k].status # "absent"
  BY <1>2 DEF RowsSound, Present
<1> QED
  BY <1>1, <1>2

\* What becomes of each run: an end stays; a run that is not looked at stays,
\* or is admitted; a run that is looked at is reconciled.
LEMMA TurnedRow ==
    ASSUME NEW k0 \in Key, NEW rows, RowsSound(rows), NEW acts, NEW k \in Key
    PROVE  LET r2 == Turned(k0, rows, acts)
               rec == Reconciled(rows, acts)
               seen == SeenFrom(k0, rows, acts)
           IN  /\ Terminal(rows[k]) => r2[k] = rows[k] /\ rec[k] = rows[k]
               /\ k \in seen => r2[k] = rec[k]
               /\ k \notin seen => r2[k] = rows[k] \/ (rows[k].status = "absent" /\ r2[k] = Admitted(k))
               /\ rec[k] = RowAfter(k, Present(rows, k), Came(rec, k), acts[k])
               /\ rec[k] \in RowOf(k) /\ r2[k] \in RowOf(k)
<1> DEFINE rec == Reconciled(rows, acts)
           seen == SeenFrom(k0, rows, acts)
           r2 == Turned(k0, rows, acts)
<1>1. rec[k] = RowAfter(k, Present(rows, k), Came(rec, k), acts[k]) /\ rec[k] \in RowOf(k)
  BY ReconciledEquation DEF RowsSound
<1>2. r2[k] = CASE k \in seen -> rec[k]
                [] k \in Orphaned(rows, rec, seen) \ seen -> Admitted(k)
                [] OTHER -> rows[k]
  BY DEF Turned, RowsAfter, SeenFrom
<1> HIDE DEF rec, seen, r2
<1>3. Terminal(rows[k]) => rec[k] = rows[k]
  BY <1>1 DEF Present, RowAfter, Terminal, EndStatus
<1>4. k \in Orphaned(rows, rec, seen) => rows[k].status = "absent"
  BY DEF Orphaned
<1>5. rows[k] \in RowOf(k) /\ Admitted(k) \in RowOf(k)
  BY BlankType DEF RowsSound
<1>6. Terminal(rows[k]) => r2[k] = rows[k]
  BY <1>2, <1>3, <1>4 DEF Terminal, EndStatus
<1>7. k \in seen => r2[k] = rec[k]
  BY <1>2, <1>3
<1>8. k \notin seen => r2[k] = rows[k] \/ (rows[k].status = "absent" /\ r2[k] = Admitted(k))
  BY <1>2, <1>4
<1>9. r2[k] \in RowOf(k)
  BY <1>1, <1>5, <1>7, <1>8
<1> QED
  BY <1>1, <1>3, <1>6, <1>7, <1>8, <1>9 DEF rec, seen, r2

\* The course of a step of a run that is looked at: it takes over what its
\* child has come to in the same transaction.
LEMMA TurnedStep ==
    ASSUME NEW k0 \in Key, NEW rows, RowsSound(rows), NEW acts, NEW k \in Key, NEW i \in Steps(k),
           k \in SeenFrom(k0, rows, acts), ~Terminal(rows[k])
    PROVE  LET r2 == Turned(k0, rows, acts)
               rec == Reconciled(rows, acts)
               deps == DepStatus(k, i, r2[k].step)
           IN  /\ r2[k].step[i] = StepAfter(rows[k].step[i], Def(k, i).executor, Says(k, i), deps,
                                            Came(rec, k)[i], acts[k][i])
               /\ rows[k].step[i] \in StepRow /\ r2[k].step[i] \in StepRow
               /\ r2[k].status \in {"running", "awaiting_confirmation", "completed", "failed"}
               /\ RowSound(k, r2[k])
               /\ Waiting(k, r2[k])
               /\ Def(k, i).executor = "sop" /\ rows[k].step[i].status # "completed"
                  /\ r2[k].step[i].status \in {"running", "completed"} =>
                      /\ Child[k][i] \in SeenFrom(k0, rows, acts)
                      /\ Came(rec, k)[i] = r2[Child[k][i]].status
<1> DEFINE rec == Reconciled(rows, acts)
           seen == SeenFrom(k0, rows, acts)
           r2 == Turned(k0, rows, acts)
           deps == DepStatus(k, i, r2[k].step)
<1>1. rec[k] = RowAfter(k, Present(rows, k), Came(rec, k), acts[k]) /\ r2[k] = rec[k]
  BY TurnedRow
<1>2. /\ Present(rows, k) \in RowOf(k)
      /\ ~Terminal(Present(rows, k))
      /\ RowSound(k, Present(rows, k))
      /\ Present(rows, k).step = rows[k].step
  BY PresentSound
<1>3. LET r3 == RowAfter(k, Present(rows, k), Came(rec, k), acts[k])
      IN  /\ r3 \in RowOf(k)
          /\ r3.status \in {"running", "awaiting_confirmation", "completed", "failed"}
          /\ \A x \in Steps(k) :
                 r3.step[x] = StepAfter(Present(rows, k).step[x], Def(k, x).executor, Says(k, x),
                                        DepStatus(k, x, r3.step), Came(rec, k)[x], acts[k][x])
          /\ RowSound(k, r3)
          /\ Waiting(k, r3)
  <2> HIDE DEF rec
  <2> QED BY <1>2, RowCourse
<1>4. /\ r2[k] \in RowOf(k)
      /\ r2[k].status \in {"running", "awaiting_confirmation", "completed", "failed"}
      /\ r2[k].step[i] = StepAfter(rows[k].step[i], Def(k, i).executor, Says(k, i), deps, Came(rec, k)[i], acts[k][i])
      /\ RowSound(k, r2[k])
      /\ Waiting(k, r2[k])
  <2> HIDE DEF rec, r2
  <2> QED BY <1>1, <1>2, <1>3
<1>5. rows[k].step[i] \in StepRow /\ r2[k].step[i] \in StepRow
  <2>1. rows[k] \in RowOf(k)
    BY DEF RowsSound
  <2> HIDE DEF r2
  <2> QED BY <1>4, <2>1 DEF RowOf
<1>6. ASSUME Def(k, i).executor = "sop", rows[k].step[i].status # "completed",
             r2[k].step[i].status \in {"running", "completed"}
      PROVE  Child[k][i] \in seen /\ Came(rec, k)[i] = r2[Child[k][i]].status
  <2> DEFINE c == Child[k][i]
  <2>1. c \in Key /\ Kind(c) = "child" /\ Parent(c) = k /\ StepOf(c) = i
    BY <1>6, ChildOf
  <2>2. rows[k].step[i].status = "running" \/ (Begins(rows[k].step[i], Says(k, i), deps) /\ rows[k].step[i].pin)
    <3>1. Says(k, i) \in {"true", "false", "error"} /\ Def(k, i).executor \in Executor
      BY <1>6, VerdictAssumption DEF Executor
    <3> HIDE DEF r2, deps, rec
    <3> QED BY <1>4, <1>5, <1>6, <3>1, StepCourse
  <2>3. deps = DepStatus(k, i, rec[k].step)
    BY <1>1
  <2>4. Waited(rows, rec, c)
    <3> HIDE DEF rec, deps, c
    <3> QED BY <1>6, <2>1, <2>2, <2>3 DEF Waited, Admits
  <2>5. c \in seen
    <3>1. seen = LookedAt(k0, rows, rec) /\ k \in seen
      BY DEF SeenFrom
    <3> HIDE DEF seen, rec, c
    <3> QED BY <2>1, <2>4, <3>1, LooksAt
  <2>6. r2[c] = rec[c]
    BY <2>1, <2>5, TurnedRow
  <2>7. Came(rec, k)[i] = rec[c].status
    BY <1>6 DEF Came
  <2> QED BY <2>5, <2>6, <2>7
<1> QED
  BY <1>4, <1>5, <1>6

-----------------------------------------------------------------------------
(* What a transaction does to the tables *)

HandsAfter(rows, hands) == Ensured(rows, Manual, hands, NoHandoff, [NoHandoff EXCEPT !.status = "pending"])

ActsAfter(rows, acts) == Ensured(rows, {"action"}, acts, "absent", "pending")

OwedAfter(k, rows, acts, ow) == [j \in Key |-> IF j \in SeenFrom(k, rows, acts) THEN "no" ELSE ow[j]]

\* The rows of the work of a step go along with the step.
LEMMA WorkCourse ==
    ASSUME NEW executor, NEW s \in StepRow, NEW s2 \in StepRow,
           NEW h \in HandRow, NEW a \in ActionStatus, NEW h2, NEW a2,
           WorkSound(executor, s, h, a),
           Fresh(s2) => Fresh(s),
           s2.status = "running" => s.status \in {"running", "pending"},
           s.status = "running" /\ (executor \in Manual \/ (executor = "action" /\ a = "pending")) =>
               s2.status = "running",
           s2.status = "completed" /\ s.status # "completed" =>
               executor \notin Manual /\ (executor = "action" => a = "completed"),
           h2 = IF s2.status = "running" /\ executor \in Manual /\ h = NoHandoff
                THEN [NoHandoff EXCEPT !.status = "pending"] ELSE h,
           a2 = IF s2.status = "running" /\ executor = "action" /\ a = "absent" THEN "pending" ELSE a
    PROVE  WorkSound(executor, s2, h2, a2) /\ h2 \in HandRow /\ a2 \in ActionStatus
<1>1. h2 \in HandRow /\ a2 \in ActionStatus
  BY DEF HandRow, HandoffStatus, ActionStatus, NoHandoff
<1>2. NoHandoff.status = "absent"
  BY DEF NoHandoff
<1>3. CASE s2.status = "running" /\ executor \in Manual /\ h = NoHandoff
  <2>1. h2.status = "pending" /\ a2 = a
    BY <1>3 DEF NoHandoff, Manual
  <2>2. ~Fresh(s2)
    BY <1>3 DEF Fresh
  <2>3. h2.status # "absent" /\ a # "pending" /\ executor # "action"
    BY <1>3, <2>1 DEF WorkSound, Manual
  <2> QED BY <1>1, <1>3, <2>1, <2>2, <2>3 DEF WorkSound
<1>4. CASE s2.status = "running" /\ executor = "action" /\ a = "absent"
  <2>1. h2 = h /\ a2 = "pending" /\ ~Fresh(s2)
    BY <1>4 DEF Manual, Fresh
  <2>2. executor \notin Manual /\ h.status = "absent" /\ h = NoHandoff
    BY <1>4 DEF WorkSound, Manual
  <2> QED BY <1>1, <1>4, <2>1, <2>2 DEF WorkSound
<1>5. CASE h2 = h /\ a2 = a
  <2>1. s2.status = "running" /\ executor \in Manual => h.status \in {"pending", "leased"}
    <3>1. CASE h = NoHandoff
      BY <1>2, <1>5, <3>1 DEF NoHandoff
    <3>2. CASE h # NoHandoff
      BY <3>2 DEF WorkSound, Fresh
    <3> QED BY <3>1, <3>2
  <2>2. s2.status = "completed" => (executor \in Manual => h.status = "completed")
                                   /\ (executor = "action" => a = "completed")
    BY DEF WorkSound
  <2>3. h.status \in {"pending", "leased"} \/ a = "pending" => s2.status = "running"
    BY DEF WorkSound
  <2>4. Fresh(s2) => h.status = "absent" /\ a = "absent"
    BY DEF WorkSound
  <2>5. (h.status # "absent" => executor \in Manual) /\ (h.status = "absent" => h = NoHandoff)
        /\ (a # "absent" => executor = "action")
    BY DEF WorkSound
  <2> QED BY <1>5, <2>1, <2>2, <2>3, <2>4, <2>5 DEF WorkSound
<1> QED
  BY <1>1, <1>3, <1>4, <1>5

\* A step of a run that is not looked at, or over, is as it was.
LEMMA StepStays ==
    ASSUME NEW k0 \in Key, NEW rows, RowsSound(rows), NEW acts, NEW k \in Key,
           k \notin SeenFrom(k0, rows, acts) \/ Terminal(rows[k])
    PROVE  LET r2 == Turned(k0, rows, acts)
           IN  /\ r2[k].step = rows[k].step
               /\ r2[k] = rows[k] \/ r2[k].status = "pending"
               /\ rows[k].status # "absent" => r2[k] = rows[k]
               /\ RowSound(k, r2[k])
<1> DEFINE r2 == Turned(k0, rows, acts)
<1>1. r2[k] = rows[k] \/ (rows[k].status = "absent" /\ r2[k] = Admitted(k))
  BY TurnedRow
<1> HIDE DEF r2
<1>2. CASE r2[k] = rows[k]
  BY <1>2 DEF RowsSound, r2
<1>3. CASE rows[k].status = "absent" /\ r2[k] = Admitted(k)
  <2>1. ~Terminal(rows[k]) /\ Present(rows, k) = Admitted(k)
    BY <1>3 DEF Terminal, EndStatus, Present
  <2>2. RowSound(k, Admitted(k)) /\ Admitted(k).step = rows[k].step
    BY <2>1, PresentSound
  <2>3. Admitted(k).status = "pending"
    BY DEF Admitted, Blank
  <2> QED BY <1>3, <2>2, <2>3 DEF r2
<1> QED
  BY <1>1, <1>2, <1>3

\* A transaction leaves each step's work sound.
LEMMA WorkAfter ==
    ASSUME NEW k0 \in Key, NEW rows, NEW hands, NEW acts, NEW ow,
           TableTypes(rows, hands, acts, ow), Sound(rows, hands, acts, ow, {k0}),
           NEW k \in Key, NEW i \in Steps(k)
    PROVE  LET r2 == Turned(k0, rows, acts)
               h2 == HandsAfter(r2, hands)
               a2 == ActsAfter(r2, acts)
           IN  /\ h2[k][i] \in HandRow /\ a2[k][i] \in ActionStatus
               /\ WorkSound(Def(k, i).executor, r2[k].step[i], h2[k][i], a2[k][i])
<1> DEFINE r2 == Turned(k0, rows, acts)
           rec == Reconciled(rows, acts)
           deps == DepStatus(k, i, r2[k].step)
           e == Def(k, i).executor
           s == rows[k].step[i]
           s2 == r2[k].step[i]
           h == hands[k][i]
           a == acts[k][i]
           h2 == HandsAfter(r2, hands)[k][i]
           a2 == ActsAfter(r2, acts)[k][i]
<1>1. RowsSound(rows)
  BY DEF TableTypes, Sound, RowsSound
<1>2. WorkSound(e, s, h, a) /\ h \in HandRow /\ a \in ActionStatus
  BY DEF Sound, TableTypes
<1>3. s.status = "running" => e # "engine"
  BY <1>1 DEF RowsSound, RowSound
<1>4. h2 = IF s2.status = "running" /\ e \in Manual /\ h = NoHandoff
           THEN [NoHandoff EXCEPT !.status = "pending"] ELSE h
  BY DEF HandsAfter, Ensured
<1>5. a2 = IF s2.status = "running" /\ e = "action" /\ a = "absent" THEN "pending" ELSE a
  BY DEF ActsAfter, Ensured
<1>6. s \in StepRow /\ s2 \in StepRow /\ e \in Executor /\ Says(k, i) \in {"true", "false", "error"}
  <2>1. rows[k] \in RowOf(k) /\ r2[k] \in RowOf(k)
    BY <1>1, TurnedRow DEF RowsSound
  <2>2. e \in Executor
    BY StepsOrdered
  <2> HIDE DEF r2
  <2> QED BY <2>1, <2>2, VerdictAssumption DEF RowOf
<1>7. \/ s2 = s
      \/ s2 = StepAfter(s, e, Says(k, i), deps, Came(rec, k)[i], a)
  <2>1. CASE k \notin SeenFrom(k0, rows, acts) \/ Terminal(rows[k])
    <3>1. r2[k].step = rows[k].step
      BY <1>1, <2>1, StepStays
    <3> HIDE DEF r2
    <3> QED BY <3>1
  <2>2. CASE k \in SeenFrom(k0, rows, acts) /\ ~Terminal(rows[k])
    BY <1>1, <2>2, TurnedStep
  <2> QED BY <2>1, <2>2
<1> HIDE DEF deps, rec, r2, s, s2, e, h, a, h2, a2
<1>8. /\ Fresh(s2) => Fresh(s)
      /\ s2.status = "running" => s.status \in {"running", "pending"}
      /\ s.status = "running" /\ (e \in Manual \/ (e = "action" /\ a = "pending")) => s2.status = "running"
      /\ s2.status = "completed" /\ s.status # "completed" =>
             e \notin Manual /\ (e = "action" => a = "completed")
  <2>1. CASE s2 = s
    BY <2>1
  <2>2. CASE s2 = StepAfter(s, e, Says(k, i), deps, Came(rec, k)[i], a)
    <3>1. /\ s2.status \in {"running", "completed"} =>
                 \/ s.status \in {"running", s2.status}
                 \/ Begins(s, Says(k, i), deps) /\ (e = "sop" => s.pin)
          /\ Fresh(s2) => Fresh(s)
      BY <1>6, <2>2, StepCourse
    <3>2. /\ s2.status = "completed" /\ s.status # "completed" =>
                 e \notin Manual /\ (e = "action" => a = "completed")
          /\ s.status = "running" /\ (e \in Manual \/ (e = "action" /\ a = "pending")) =>
                 s2.status = "running"
      BY <1>3, <1>6, <2>2, StepAnswer
    <3> QED BY <3>1, <3>2 DEF Begins
  <2> QED BY <1>7, <2>1, <2>2
<1>9. WorkSound(e, s2, h2, a2) /\ h2 \in HandRow /\ a2 \in ActionStatus
  BY <1>2, <1>4, <1>5, <1>6, <1>8, WorkCourse
<1> QED
  BY <1>9 DEF r2, s2, e, h2, a2

\* A transaction leaves a step done only with its child done, and running
\* only for as long as what it waits for is open.
LEMMA WaitAfter ==
    ASSUME NEW k0 \in Key, NEW rows, NEW hands, NEW acts, NEW ow,
           TableTypes(rows, hands, acts, ow), Sound(rows, hands, acts, ow, {k0}),
           NEW k \in Key, NEW i \in Steps(k)
    PROVE  LET r2 == Turned(k0, rows, acts)
               a2 == ActsAfter(r2, acts)
               ow2 == OwedAfter(k0, rows, acts, ow)
           IN  /\ r2[k].step[i].status = "completed" /\ Def(k, i).executor = "sop" =>
                      r2[Child[k][i]].status = "completed"
               /\ r2[k].step[i].status = "running" /\ Def(k, i).executor = "action" =>
                      a2[k][i] = "pending" \/ ow2[k] # "no"
               /\ r2[k].step[i].status = "running" /\ Def(k, i).executor = "sop" =>
                      Live(r2[Child[k][i]])
<1> DEFINE r2 == Turned(k0, rows, acts)
           rec == Reconciled(rows, acts)
           seen == SeenFrom(k0, rows, acts)
           a2 == ActsAfter(r2, acts)
           ow2 == OwedAfter(k0, rows, acts, ow)
           c == Child[k][i]
<1>1. RowsSound(rows)
  BY DEF TableTypes, Sound, RowsSound
<1>2. Def(k, i).executor = "sop" => c \in Key /\ Kind(c) = "child" /\ Parent(c) = k
  BY ChildOf
<1>3. /\ rows[k].step[i].status = "completed" /\ Def(k, i).executor = "sop" => rows[c].status = "completed"
      /\ rows[k].step[i].status = "running" /\ Def(k, i).executor = "action" =>
             acts[k][i] = "pending" \/ ow[k] # "no"
      /\ rows[k].step[i].status = "running" /\ Def(k, i).executor = "sop" => Live(rows[c]) \/ c = k0
      /\ rows[k].step[i].status = "running" => Live(rows[k])
  BY DEF Sound, RowSound
<1>4. Def(k, i).executor = "sop" /\ rows[c].status = "completed" => r2[c].status = "completed"
  <2>1. Def(k, i).executor = "sop" /\ rows[c].status = "completed" => Terminal(rows[c])
    BY DEF Terminal, EndStatus
  <2> QED BY <1>1, <1>2, <2>1, TurnedRow
<1>5. a2[k][i] = IF r2[k].step[i].status = "running" /\ Def(k, i).executor = "action" /\ acts[k][i] = "absent"
                 THEN "pending" ELSE acts[k][i]
  BY DEF ActsAfter, Ensured
<1>6. ow2[k] = IF k \in seen THEN "no" ELSE ow[k]
  BY DEF OwedAfter
<1>7. k0 \in seen /\ \A j \in seen : Kind(j) = "child" => Parent(j) \in seen
  BY LooksAt DEF SeenFrom
<1>8. acts[k][i] \in ActionStatus
  BY DEF TableTypes
<1>9. CASE k \notin seen \/ Terminal(rows[k])
  <2>1. r2[k].step = rows[k].step
    BY <1>1, <1>9, StepStays
  <2>2. rows[k].step[i].status = "running" => k \notin seen
    BY <1>3, <1>9 DEF Live, Terminal
  <2>3. rows[k].step[i].status = "running" /\ Def(k, i).executor = "action" => a2[k][i] = "pending" \/ ow2[k] # "no"
    <3> HIDE DEF r2, a2, ow2, seen
    <3> QED BY <1>3, <1>5, <1>6, <2>1, <2>2
  <2>4. ASSUME rows[k].step[i].status = "running", Def(k, i).executor = "sop" PROVE Live(r2[c])
    <3>1. c \notin seen
      BY <1>2, <1>7, <2>2, <2>4
    <3>2. Live(rows[c])
      BY <1>3, <1>7, <2>4, <3>1
    <3>3. r2[c] = rows[c]
      <4>1. rows[c].status # "absent"
        BY <3>2 DEF Live
      <4> QED BY <1>1, <1>2, <2>4, <3>1, <4>1, StepStays
    <3> QED BY <3>2, <3>3
  <2> HIDE DEF r2, a2, ow2, seen, c
  <2>5. r2[k].step[i].status = rows[k].step[i].status
    BY <2>1
  <2> QED BY <1>3, <1>4, <2>3, <2>4, <2>5 DEF r2, a2, ow2, c
<1>10. CASE k \in seen /\ ~Terminal(rows[k])
  <2> DEFINE s == rows[k].step[i]
             s2 == r2[k].step[i]
             e == Def(k, i).executor
             deps == DepStatus(k, i, r2[k].step)
             came == Came(rec, k)[i]
             a == acts[k][i]
  <2>1. /\ s2 = StepAfter(s, e, Says(k, i), deps, came, a)
        /\ s \in StepRow /\ s2 \in StepRow
        /\ e = "sop" /\ s.status # "completed" /\ s2.status \in {"running", "completed"} =>
               c \in seen /\ came = r2[c].status
    BY <1>1, <1>10, TurnedStep
  <2>2. s.status = "running" => e # "engine"
    BY <1>1 DEF RowsSound, RowSound
  <2>3. e \in Executor /\ Says(k, i) \in {"true", "false", "error"}
    BY StepsOrdered, VerdictAssumption
  <2>4. e = "sop" /\ c \in seen => r2[c].status \in RunStatus /\ r2[c].status # "absent"
    <3> SUFFICES ASSUME e = "sop", c \in seen PROVE r2[c].status \in RunStatus /\ r2[c].status # "absent"
      OBVIOUS
    <3>1. c \in Key
      BY <1>2
    <3>2. r2[c] \in RowOf(c)
      BY <1>1, <3>1, TurnedRow
    <3>3. CASE Terminal(rows[c])
      <4>1. r2[c] = rows[c]
        BY <1>1, <3>1, <3>3, TurnedRow
      <4> QED BY <3>2, <3>3, <4>1 DEF Terminal, EndStatus, RowOf
    <3>4. CASE ~Terminal(rows[c])
      <4>1. r2[c] = RowAfter(c, Present(rows, c), Came(rec, c), acts[c])
        BY <1>1, <3>1, TurnedRow
      <4>2. r2[c].status \in {"running", "awaiting_confirmation", "completed", "failed"}
        <5> HIDE DEF r2, rec, c
        <5> QED BY <1>1, <3>1, <3>4, <4>1, PresentSound, RowCourse
      <4> QED BY <4>2 DEF RunStatus, EndStatus
    <3> QED BY <3>3, <3>4
  <2> HIDE DEF r2, rec, seen, a2, ow2, c, s, s2, e, deps, came, a
  <2>5. /\ s2.status = "running" =>
               /\ e = "action" => a \notin {"completed", "failed", "cancelled", "unfit"}
               /\ e = "sop" => came \notin EndStatus
        /\ s2.status = "completed" /\ s.status # "completed" => (e = "sop" => came = "completed")
    BY <2>1, <2>2, <2>3, StepAnswer
  <2>6. s.status = "completed" => s2 = s
    BY <2>1, <2>3, StepCourse
  <2>7. s2.status = "completed" /\ e = "sop" => r2[c].status = "completed"
    BY <1>3, <1>4, <2>1, <2>5, <2>6 DEF s, e
  <2>8. s2.status = "running" /\ e = "action" => a2[k][i] = "pending"
    BY <1>5, <1>8, <2>5 DEF ActionStatus, s2, e, a
  <2>9. s2.status = "running" /\ e = "sop" => Live(r2[c])
    BY <2>1, <2>4, <2>5, <2>6 DEF Live
  <2> QED BY <2>7, <2>8, <2>9 DEF r2, a2, ow2, c, s, s2, e
<1> QED
  BY <1>9, <1>10

\* A run that is not at rest is looked at: afterwards every run is sound and
\* waits.
LEMMA RowsAfterSound ==
    ASSUME NEW k0 \in Key, NEW rows, NEW hands, NEW acts, NEW ow,
           TableTypes(rows, hands, acts, ow), Sound(rows, hands, acts, ow, {k0}),
           NEW k \in Key
    PROVE  LET r2 == Turned(k0, rows, acts)
           IN  r2[k] \in RowOf(k) /\ RowSound(k, r2[k]) /\ Waiting(k, r2[k])
<1> DEFINE r2 == Turned(k0, rows, acts)
           seen == SeenFrom(k0, rows, acts)
           rec == Reconciled(rows, acts)
<1>1. RowsSound(rows)
  BY DEF TableTypes, Sound, RowsSound
<1>2. r2[k] \in RowOf(k)
  BY <1>1, TurnedRow
<1>3. CASE k \notin seen \/ Terminal(rows[k])
  <2>1. RowSound(k, r2[k]) /\ (r2[k] = rows[k] \/ r2[k].status = "pending")
    BY <1>1, <1>3, StepStays
  <2>2. k0 \in seen
    BY LooksAt DEF SeenFrom
  <2>3. Waiting(k, rows[k])
    <3>1. CASE Terminal(rows[k])
      BY <3>1 DEF Waiting, Terminal, EndStatus
    <3>2. CASE k # k0
      BY <3>2 DEF Sound
    <3> QED BY <1>3, <2>2, <3>1, <3>2
  <2>4. Waiting(k, r2[k])
    <3> HIDE DEF r2
    <3>1. CASE r2[k].status = "pending"
      BY <3>1 DEF Waiting
    <3> QED BY <2>1, <2>3, <3>1
  <2> QED BY <1>2, <2>1, <2>4
<1>4. CASE k \in seen /\ ~Terminal(rows[k])
  <2>1. r2[k] = RowAfter(k, Present(rows, k), Came(rec, k), acts[k])
    BY <1>1, <1>4, TurnedRow
  <2> HIDE DEF r2, rec
  <2>2. RowSound(k, r2[k]) /\ Waiting(k, r2[k])
    BY <1>1, <1>4, <2>1, PresentSound, RowCourse
  <2> QED BY <1>2, <2>2 DEF r2
<1> QED
  BY <1>3, <1>4

\* What a step that has begun depends on stays settled.
LEMMA BegunAfter ==
    ASSUME NEW k0 \in Key, NEW rows, NEW hands, NEW acts, NEW ow,
           TableTypes(rows, hands, acts, ow), Sound(rows, hands, acts, ow, {k0}),
           NEW k \in Key, NEW i \in Steps(k)
    PROVE  LET r2 == Turned(k0, rows, acts)
               h2 == HandsAfter(r2, hands)
           IN  h2[k][i].status # "absent" => \A j \in Def(k, i).deps : r2[k].step[j].status \in Settled
<1> DEFINE r2 == Turned(k0, rows, acts)
           h2 == HandsAfter(r2, hands)
<1>1. RowsSound(rows)
  BY DEF TableTypes, Sound, RowsSound
<1>2. \/ h2[k][i] = hands[k][i]
      \/ r2[k].step[i].status = "running"
  BY DEF HandsAfter, Ensured
<1>3. RowSound(k, r2[k])
  BY RowsAfterSound
<1>4. hands[k][i].status # "absent" => \A j \in Def(k, i).deps : rows[k].step[j].status \in Settled
  BY DEF Sound
<1>5. ASSUME NEW j \in Def(k, i).deps, rows[k].step[j].status \in Settled
      PROVE  r2[k].step[j].status \in Settled
  <2>1. j \in Steps(k)
    <3>1. PICK n \in Nat : Steps(k) = 1..n /\ \A x \in Steps(k) : Def(k, x).deps \subseteq 1..(x - 1)
      BY StepsOrdered
    <3>2. i \in 1..n /\ Def(k, i).deps \subseteq 1..(i - 1)
      BY <3>1
    <3> QED BY <3>1, <3>2
  <2>2. CASE k \notin SeenFrom(k0, rows, acts) \/ Terminal(rows[k])
    <3>1. r2[k].step = rows[k].step
      BY <1>1, <2>2, StepStays
    <3> HIDE DEF r2
    <3> QED BY <1>5, <3>1
  <2>3. CASE k \in SeenFrom(k0, rows, acts) /\ ~Terminal(rows[k])
    <3> DEFINE deps == DepStatus(k, j, r2[k].step)
               came == Came(Reconciled(rows, acts), k)[j]
    <3>1. /\ r2[k].step[j] = StepAfter(rows[k].step[j], Def(k, j).executor, Says(k, j), deps, came, acts[k][j])
          /\ rows[k].step[j] \in StepRow
      BY <1>1, <2>1, <2>3, TurnedStep
    <3>2. Def(k, j).executor \in Executor /\ Says(k, j) \in {"true", "false", "error"}
      BY <2>1, StepsOrdered, VerdictAssumption
    <3> HIDE DEF r2, deps, came
    <3>3. r2[k].step[j] = rows[k].step[j]
      BY <1>5, <3>1, <3>2, StepCourse DEF Settled
    <3> QED BY <1>5, <3>3
  <2> QED BY <2>2, <2>3
<1> HIDE DEF r2, h2
<1> QED
  BY <1>2, <1>3, <1>4, <1>5 DEF RowSound, r2, h2

\* What an action has disturbed, the end of its transaction repairs.
LEMMA CommitSound ==
    ASSUME NEW k0 \in Key, NEW rows, NEW hands, NEW acts, NEW ow,
           TableTypes(rows, hands, acts, ow), Sound(rows, hands, acts, ow, {k0})
    PROVE  LET r2 == Turned(k0, rows, acts)
               h2 == HandsAfter(r2, hands)
               a2 == ActsAfter(r2, acts)
               ow2 == OwedAfter(k0, rows, acts, ow)
           IN  TableTypes(r2, h2, a2, ow2) /\ Sound(r2, h2, a2, ow2, {})
<1> DEFINE r2 == Turned(k0, rows, acts)
           h2 == HandsAfter(r2, hands)
           a2 == ActsAfter(r2, acts)
           ow2 == OwedAfter(k0, rows, acts, ow)
<1>1. DOMAIN r2 = Key
  BY DEF Turned, RowsAfter
<1>2. DOMAIN h2 = Key /\ \A k \in Key : h2[k] = [i \in Steps(k) |-> h2[k][i]]
  BY DEF HandsAfter, Ensured
<1>3. DOMAIN a2 = Key /\ \A k \in Key : a2[k] = [i \in Steps(k) |-> a2[k][i]]
  BY DEF ActsAfter, Ensured
<1>4. DOMAIN ow2 = Key /\ \A k \in Key : ow2[k] \in {"no", "due", "lost"}
  <2>1. \A k \in Key : ow[k] \in {"no", "due", "lost"}
    BY DEF TableTypes
  <2> QED BY <2>1 DEF OwedAfter
<1>5. ASSUME NEW k \in Key
      PROVE  r2[k] \in RowOf(k) /\ RowSound(k, r2[k]) /\ Waiting(k, r2[k])
  BY RowsAfterSound
<1>6. ASSUME NEW k \in Key, NEW i \in Steps(k)
      PROVE  /\ h2[k][i] \in HandRow /\ a2[k][i] \in ActionStatus
             /\ WorkSound(Def(k, i).executor, r2[k].step[i], h2[k][i], a2[k][i])
             /\ h2[k][i].status # "absent" => \A j \in Def(k, i).deps : r2[k].step[j].status \in Settled
  BY WorkAfter, BegunAfter
<1>7. ASSUME NEW k \in Key, NEW i \in Steps(k)
      PROVE  /\ r2[k].step[i].status = "completed" /\ Def(k, i).executor = "sop" =>
                    r2[Child[k][i]].status = "completed"
             /\ r2[k].step[i].status = "running" /\ Def(k, i).executor = "action" =>
                    a2[k][i] = "pending" \/ ow2[k] # "no"
             /\ r2[k].step[i].status = "running" /\ Def(k, i).executor = "sop" =>
                    Live(r2[Child[k][i]])
  BY WaitAfter
<1> HIDE DEF r2, h2, a2, ow2
<1>8. \A k \in Key : h2[k] \in [Steps(k) -> HandRow] /\ a2[k] \in [Steps(k) -> ActionStatus]
  BY <1>2, <1>3, <1>6
<1>9. TableTypes(r2, h2, a2, ow2)
  BY <1>1, <1>2, <1>3, <1>4, <1>5, <1>8 DEF TableTypes
<1>10. Sound(r2, h2, a2, ow2, {})
  BY <1>5, <1>6, <1>7 DEF Sound
<1> QED
  BY <1>9, <1>10 DEF r2, h2, a2, ow2

-----------------------------------------------------------------------------
(* The end of a transaction *)

\* Of a run that was not over, a transaction does not make one that was
\* cancelled, and of one that was started none that was not.
LEMMA TurnedStage ==
    ASSUME NEW k0 \in Key, NEW rows, RowsSound(rows), NEW acts, NEW k \in Key
    PROVE  LET r2 == Turned(k0, rows, acts)
           IN  /\ Terminal(rows[k]) => r2[k] = rows[k]
               /\ ~Terminal(rows[k]) => r2[k].status # "cancelled"
               /\ rows[k].status # "absent" => r2[k].status # "absent"
<1> DEFINE r2 == Turned(k0, rows, acts)
           rec == Reconciled(rows, acts)
           seen == SeenFrom(k0, rows, acts)
<1>1. Terminal(rows[k]) => r2[k] = rows[k]
  BY TurnedRow
<1>2. CASE k \notin seen \/ Terminal(rows[k])
  <2>1. r2[k] = rows[k] \/ r2[k].status = "pending"
    BY <1>2, StepStays
  <2> HIDE DEF r2
  <2> QED BY <1>1, <2>1 DEF Terminal, EndStatus, r2
<1>3. CASE k \in seen /\ ~Terminal(rows[k])
  <2>1. r2[k] = RowAfter(k, Present(rows, k), Came(rec, k), acts[k])
    BY <1>3, TurnedRow
  <2> HIDE DEF r2, rec, seen
  <2>2. r2[k].status \in {"running", "awaiting_confirmation", "completed", "failed"}
    BY <1>3, <2>1, PresentSound, RowCourse
  <2> QED BY <1>3, <2>2 DEF r2
<1> QED
  BY <1>2, <1>3

\* A step that waits for an agent or operator keeps its run live.
LEMMA TurnedLive ==
    ASSUME NEW k0 \in Key, NEW rows, RowsSound(rows), NEW acts, NEW k \in Key, NEW i \in Steps(k),
           Def(k, i).executor \in Manual, rows[k].step[i].status = "running"
    PROVE  Live(Turned(k0, rows, acts)[k])
<1> DEFINE r2 == Turned(k0, rows, acts)
<1>2. CASE k \notin SeenFrom(k0, rows, acts) \/ Terminal(rows[k])
  <2>1. r2[k].step = rows[k].step /\ RowSound(k, r2[k])
    BY <1>2, StepStays
  <2> HIDE DEF r2
  <2> QED BY <2>1 DEF RowSound, r2
<1>3. CASE k \in SeenFrom(k0, rows, acts) /\ ~Terminal(rows[k])
  <2> DEFINE deps == DepStatus(k, i, r2[k].step)
             came == Came(Reconciled(rows, acts), k)[i]
  <2>1. /\ r2[k].step[i] = StepAfter(rows[k].step[i], Def(k, i).executor, Says(k, i), deps, came, acts[k][i])
        /\ rows[k].step[i] \in StepRow /\ RowSound(k, r2[k])
    BY <1>3, TurnedStep
  <2>2. /\ Def(k, i).executor \in Executor /\ Def(k, i).executor # "engine"
        /\ Says(k, i) \in {"true", "false", "error"}
    BY StepsOrdered, VerdictAssumption DEF Manual
  <2> HIDE DEF r2, deps, came
  <2>3. r2[k].step[i].status = "running"
    BY <2>1, <2>2, StepAnswer
  <2> QED BY <2>1, <2>3 DEF RowSound, r2
<1> QED
  BY <1>2, <1>3

-----------------------------------------------------------------------------
(* The stages of a run *)

StageOf(row) == IF Live(row) THEN "live" ELSE row.status

\* From the rows `r1` to `r2` each run takes a step of its life, and none of
\* which somebody has acknowledged the end.
Moves(r1, r2) ==
    \A j \in Key :
        /\ RunLife!Course(StageOf(r1[j]), StageOf(r2[j]))
        /\ acked[j] # {} => StageOf(r2[j]) = StageOf(r1[j])

\* What an action may have made of the runs before they are reconciled.
Lawful(rows) ==
    \A j \in Key :
        \/ rows[j].status = run[j].status
        \/ run[j].status = "absent" /\ rows[j].status = "pending"
        \/ Live(run[j]) /\ rows[j].status = "cancelled"
        \/ /\ run[j].status \notin {"absent", "completed"} /\ acked[j] = {}
           /\ \E i \in Steps(j) : Def(j, i).executor \in Manual /\ rows[j].step[i].status = "running"

\* The reconciliation takes each run to a stage that may come next.
LEMMA TurnMoves ==
    ASSUME EngineInv, NEW k \in Key, NEW rows, RowsSound(rows), Lawful(rows), NEW acts
    PROVE  Moves(run, Turned(k, rows, acts))
<1> DEFINE r2 == Turned(k, rows, acts)
<1>1. ASSUME NEW j \in Key
      PROVE  /\ RunLife!Course(StageOf(run[j]), StageOf(r2[j]))
             /\ acked[j] # {} => StageOf(r2[j]) = StageOf(run[j])
  <2>1. /\ Terminal(rows[j]) => r2[j] = rows[j]
        /\ ~Terminal(rows[j]) => r2[j].status # "cancelled"
        /\ rows[j].status # "absent" => r2[j].status # "absent"
    BY TurnedStage
  <2>2. r2[j].status \in RunStatus
    <3>1. r2[j] \in RowOf(j)
      BY TurnedRow
    <3> HIDE DEF r2
    <3> QED BY <3>1 DEF RowOf
  <2>3. run[j].status \in RunStatus /\ (acked[j] # {} => Terminal(run[j]))
    BY DEF EngineInv, TableTypes, RowOf, Told, ToldTruly, Reading
  <2>4. CASE \/ rows[j].status = run[j].status
             \/ run[j].status = "absent" /\ rows[j].status = "pending"
             \/ Live(run[j]) /\ rows[j].status = "cancelled"
    <3> HIDE DEF r2
    <3> QED BY <2>1, <2>2, <2>3, <2>4 DEF RunLife!Course, RunLife!Ends, StageOf, Live, Terminal, EndStatus, RunStatus
  <2>5. CASE /\ run[j].status \notin {"absent", "completed"} /\ acked[j] = {}
             /\ \E i \in Steps(j) : Def(j, i).executor \in Manual /\ rows[j].step[i].status = "running"
    <3>1. Live(r2[j])
      BY <2>5, TurnedLive
    <3> HIDE DEF r2
    <3> QED BY <2>3, <2>5, <3>1 DEF RunLife!Course, RunLife!Ends, StageOf, Live, Terminal, EndStatus, RunStatus
  <2> QED BY <2>4, <2>5 DEF Lawful
<1> HIDE DEF r2
<1> QED
  BY <1>1 DEF Moves, r2

\* An event is not null.
LEMMA EventIsThere ==
    ASSUME NEW outcome \in EndStatus, NEW at \in Nat, NEW compacted \in BOOLEAN
    PROVE  /\ [outcome |-> outcome, at |-> at, compacted |-> compacted] \in Event
           /\ [outcome |-> outcome, at |-> at, compacted |-> compacted] # None
BY NoneAssumption DEF Event

\* A run that is over is left as it is.
EndsStay(rows, r2) == \A k \in Key : Terminal(rows[k]) => r2[k] = rows[k]

\* An event is new, or as it was.
Adds(events, e2) ==
    \A k \in Key :
        \/ e2[k] = events[k]
        \/ /\ events[k] = None /\ e2[k] # None
           /\ e2[k].at = time + 1 /\ e2[k].compacted = FALSE

\* The runs are moved, and nobody acknowledges anything.
Moved == Moves(run, run') /\ acked' = acked

\* What is published tells truly of every run that is over, and moves nothing
\* that is read.
LEMMA PublishedTells ==
    ASSUME NEW rows, NEW r2, NEW events, Reading(events), ToldTruly(rows, events), EndsStay(rows, r2)
    PROVE  LET e2 == Published(r2, events)
           IN  /\ Told(r2, e2)
               /\ e2 \in [Key -> Event \cup {None}]
               /\ Adds(events, e2)
<1> DEFINE e2 == Published(r2, events)
<1>1. ASSUME NEW k \in Key
      PROVE  /\ e2[k] \in Event \cup {None}
             /\ e2[k] # None => Terminal(r2[k]) /\ e2[k].outcome = r2[k].status
             /\ Terminal(r2[k]) => e2[k] # None
             /\ \/ e2[k] = events[k]
                \/ /\ events[k] = None /\ e2[k] # None
                   /\ e2[k].at = time + 1 /\ e2[k].compacted = FALSE
  <2> DEFINE new == [outcome |-> r2[k].status, at |-> time + 1, compacted |-> FALSE]
  <2>1. e2[k] = IF Terminal(r2[k]) /\ events[k] = None THEN new ELSE events[k]
    BY DEF Published
  <2>2. events[k] \in Event \cup {None}
    BY DEF Reading
  <2>3. events[k] # None => Terminal(r2[k]) /\ events[k].outcome = r2[k].status
    BY DEF ToldTruly, EndsStay
  <2>4. new.outcome = r2[k].status /\ new.at = time + 1 /\ new.compacted = FALSE
    OBVIOUS
  <2>5. Terminal(r2[k]) => new \in Event /\ new # None
    <3>1. time + 1 \in Nat
      BY DEF Reading
    <3> QED BY <3>1, EventIsThere DEF Terminal
  <2> HIDE DEF e2, new
  <2> QED BY <2>1, <2>2, <2>3, <2>4, <2>5
<1>2. e2 = [k \in Key |-> e2[k]]
  BY DEF Published
<1> HIDE DEF e2
<1>3. e2 \in [Key -> Event \cup {None}]
  BY <1>1, <1>2
<1>4. Told(r2, e2)
  BY <1>1 DEF Told, ToldTruly
<1> QED
  BY <1>1, <1>3, <1>4 DEF Adds, e2

\* A handoff written for a step that began is free.
LEMMA HeldAfter ==
    ASSUME NEW r2, NEW hands, Held(hands)
    PROVE  Held(HandsAfter(r2, hands))
<1> DEFINE h2 == HandsAfter(r2, hands)
<1>1. ASSUME NEW k \in Key, NEW i \in Steps(k) PROVE HandoffType(h2[k][i])
  <2>1. h2[k][i] = hands[k][i] \/ h2[k][i] = [NoHandoff EXCEPT !.status = "pending"]
    BY DEF HandsAfter, Ensured
  <2>2. HandoffType(hands[k][i]) /\ claims \in Nat
    BY BoundAssumption DEF Held
  <2>3. HandoffType([NoHandoff EXCEPT !.status = "pending"])
    BY <2>2 DEF HandoffType, NoHandoff
  <2> QED BY <2>1, <2>2, <2>3
<1> QED
  BY <1>1 DEF Held

\* When the tables are ready, the transaction ends in a sound state.
LEMMA CommitKeeps ==
    ASSUME EngineInv, NEW k \in Key, NEW rows, NEW hands, NEW acts, NEW events,
           Ready(k, rows, hands, acts, events), Lawful(rows), Commit(k, rows, hands, acts, events),
           UNCHANGED <<required, acked, claims>>
    PROVE  EngineInv' /\ Moved
<1> DEFINE r2 == Turned(k, rows, acts)
<1>1. /\ run' = r2
      /\ handoff' = HandsAfter(run', hands)
      /\ action' = ActsAfter(run', acts)
      /\ outbox' = Published(run', events)
      /\ time' = IF outbox' = events THEN time ELSE time + 1
      /\ owed' = OwedAfter(k, rows, acts, owed)
  BY DEF Commit, Turned, HandsAfter, ActsAfter, OwedAfter, SeenFrom
<1>2. /\ TableTypes(rows, hands, acts, owed) /\ Sound(rows, hands, acts, owed, {k})
      /\ Held(hands) /\ Reading(events) /\ ToldTruly(rows, events)
  BY DEF Ready
<1>3. TableTypes(run', handoff', action', owed') /\ Sound(run', handoff', action', owed', {})
  BY <1>1, <1>2, CommitSound
<1>4. Held(handoff')
  BY <1>1, <1>2, HeldAfter
<1>5. Held(handoff)'
  <2>1. claims' = claims
    OBVIOUS
  <2> QED BY <1>4, <2>1 DEF Held, HandoffType
<1>6. \A j \in Key : Terminal(rows[j]) => run'[j] = rows[j]
  <2>1. RowsSound(rows)
    BY <1>2 DEF TableTypes, Sound, RowsSound
  <2> QED BY <1>1, <2>1, TurnedStage
<1>7. Told(run', outbox') /\ outbox' \in [Key -> Event \cup {None}] /\ Adds(events, outbox')
  <2>1. outbox' = Published(r2, events) /\ EndsStay(rows, r2)
    BY <1>1, <1>6 DEF EndsStay
  <2> HIDE DEF r2
  <2> DEFINE e2 == Published(r2, events)
  <2>2. Told(r2, e2) /\ e2 \in [Key -> Event \cup {None}] /\ Adds(events, e2)
    BY <1>2, <2>1, PublishedTells
  <2> HIDE DEF e2
  <2> QED BY <1>1, <2>1, <2>2 DEF r2, e2
<1>8. Reading(outbox)'
  <2>1. time \in Nat /\ time' \in Nat /\ time' >= time
    BY <1>1, <1>2 DEF Reading
  <2>2. required' = required /\ acked' = acked
    OBVIOUS
  <2>3. \A c \in Consumer : required[c] = None \/ required[c] \in 0..(time' + 1)
    BY <1>2, <2>1 DEF Reading
  <2>4. ASSUME NEW j \in Key
        PROVE  /\ outbox'[j] # None => outbox'[j].at \in 1..time'
               /\ acked[j] # {} => outbox'[j] # None
               /\ outbox'[j] # None /\ outbox'[j].compacted =>
                      Readers(outbox'[j]) # {} /\ Readers(outbox'[j]) \subseteq acked[j]
    <3>1. /\ events[j] # None => events[j].at \in 1..time
          /\ acked[j] # {} => events[j] # None
          /\ events[j] # None /\ events[j].compacted =>
                 Readers(events[j]) # {} /\ Readers(events[j]) \subseteq acked[j]
      BY <1>2 DEF Reading
    <3>2. CASE outbox'[j] = events[j]
      BY <2>1, <3>1, <3>2
    <3>3. CASE /\ events[j] = None /\ outbox'[j] # None
               /\ outbox'[j].at = time + 1 /\ outbox'[j].compacted = FALSE
      <4>1. outbox' # events
        BY <3>3
      <4>2. time' = time + 1
        BY <1>1, <4>1
      <4> QED BY <2>1, <3>1, <3>3, <4>2
    <3> QED BY <1>7, <3>2, <3>3 DEF Adds
  <2>6. \A j \in Key : Readers(outbox[j])' = Readers(outbox'[j])
    BY <2>2 DEF Readers
  <2>5. required \in [Consumer -> Nat \cup {None}] /\ acked \in [Key -> SUBSET Consumer]
    BY <1>2 DEF Reading
  <2> QED BY <1>7, <2>1, <2>2, <2>3, <2>4, <2>5, <2>6 DEF Reading
<1>9. Moved
  <2>1. RowsSound(rows)
    BY <1>2 DEF TableTypes, Sound, RowsSound
  <2>2. Moves(run, r2)
    BY <2>1, TurnMoves
  <2> HIDE DEF r2
  <2> QED BY <1>1, <2>2 DEF Moved, r2
<1> QED
  BY <1>3, <1>5, <1>7, <1>8, <1>9 DEF EngineInv

-----------------------------------------------------------------------------
(* The actions that end with a reconciliation *)

\* A dependency is a step of the same run.
LEMMA DepsAreSteps ==
    ASSUME NEW k \in Key, NEW i \in Steps(k), NEW j \in Def(k, i).deps
    PROVE  j \in Steps(k) /\ j # i
<1>1. PICK n \in Nat : Steps(k) = 1..n /\ \A x \in Steps(k) : Def(k, x).deps \subseteq 1..(x - 1)
  BY StepsOrdered
<1>2. i \in 1..n /\ j \in 1..(i - 1)
  BY <1>1
<1> QED
  BY <1>1, <1>2

\* An action that rewrites one run, of which it neither starts a step another
\* run carries out, nor takes back an end that was told, leaves the tables
\* ready for that run's reconciliation.
LEMMA OneRun ==
    ASSUME EngineInv, NEW k \in Key, NEW rows, NEW hands, NEW events,
           DOMAIN rows = Key, DOMAIN hands = Key, events \in [Key -> Event \cup {None}],
           \A j \in Key \ {k} : rows[j] = run[j] /\ hands[j] = handoff[j] /\ events[j] = outbox[j],
           rows[k] \in RowOf(k), RowSound(k, rows[k]), hands[k] \in [Steps(k) -> HandRow],
           run[k].status = "completed" => rows[k].status = "completed",
           \A i \in Steps(k) :
               /\ WorkSound(Def(k, i).executor, rows[k].step[i], hands[k][i], action[k][i])
               /\ HandoffType(hands[k][i])
               /\ hands[k][i].status # "absent" => \A j \in Def(k, i).deps : rows[k].step[j].status \in Settled
               /\ Def(k, i).executor \notin Manual /\ rows[k].step[i].status \in {"running", "completed"} =>
                      rows[k].step[i].status = run[k].step[i].status,
           \/ events[k] = outbox[k] /\ (~Terminal(run[k]) \/ rows[k].status = run[k].status)
           \/ events[k] = None /\ acked[k] = {}
    PROVE  Ready(k, rows, hands, action, events)
<1>1. /\ TableTypes(run, handoff, action, owed)
      /\ Sound(run, handoff, action, owed, {})
      /\ Held(handoff) /\ Reading(outbox) /\ Told(run, outbox)
  BY DEF EngineInv
<1>2. TableTypes(rows, hands, action, owed)
  <2>1. \A j \in Key : rows[j] \in RowOf(j) /\ hands[j] \in [Steps(j) -> HandRow]
    BY <1>1 DEF TableTypes
  <2> QED BY <1>1, <2>1 DEF TableTypes
<1>3. ASSUME NEW j \in Key, NEW i \in Steps(j)
      PROVE  /\ WorkSound(Def(j, i).executor, rows[j].step[i], hands[j][i], action[j][i])
             /\ HandoffType(hands[j][i])
             /\ hands[j][i].status # "absent" => \A x \in Def(j, i).deps : rows[j].step[x].status \in Settled
             /\ Def(j, i).executor \notin Manual /\ rows[j].step[i].status \in {"running", "completed"} =>
                    rows[j].step[i].status = run[j].step[i].status
  <2>1. CASE j = k
    BY <2>1
  <2>2. CASE j # k
    BY <1>1, <2>2 DEF Sound, Held
  <2> QED BY <2>1, <2>2
<1>4. \A j \in Key : run[j].status = "completed" => rows[j].status = "completed"
  OBVIOUS
<1>5. ASSUME NEW j \in Key PROVE RowSound(j, rows[j]) /\ (j # k => Waiting(j, rows[j]))
  BY <1>1 DEF Sound
<1>6. ASSUME NEW j \in Key, NEW i \in Steps(j)
      PROVE  /\ rows[j].step[i].status = "completed" /\ Def(j, i).executor = "sop" =>
                    rows[Child[j][i]].status = "completed"
             /\ rows[j].step[i].status = "running" /\ Def(j, i).executor = "action" =>
                    action[j][i] = "pending" \/ owed[j] # "no"
             /\ rows[j].step[i].status = "running" /\ Def(j, i).executor = "sop" =>
                    Live(rows[Child[j][i]]) \/ Child[j][i] \in {k}
  <2>1. /\ run[j].step[i].status = "completed" /\ Def(j, i).executor = "sop" =>
               run[Child[j][i]].status = "completed"
        /\ run[j].step[i].status = "running" /\ Def(j, i).executor = "action" =>
               action[j][i] = "pending" \/ owed[j] # "no"
        /\ run[j].step[i].status = "running" /\ Def(j, i).executor = "sop" =>
               Live(run[Child[j][i]])
    BY <1>1 DEF Sound
  <2>2. Def(j, i).executor = "sop" => Child[j][i] \in Key
    BY ChildOf
  <2> QED BY <1>3, <1>4, <2>1, <2>2 DEF Manual
<1>7. Sound(rows, hands, action, owed, {k})
  BY <1>3, <1>5, <1>6 DEF Sound
<1>8. Held(hands)
  BY <1>1, <1>3 DEF Held
<1>9. ASSUME NEW j \in Key
      PROVE  events[j] # None => events[j] = outbox[j] /\ Terminal(rows[j]) /\ events[j].outcome = rows[j].status
  <2>1. outbox[j] # None => Terminal(run[j]) /\ outbox[j].outcome = run[j].status
    BY <1>1 DEF Told, ToldTruly
  <2> QED BY <2>1 DEF Terminal
<1>10. ToldTruly(rows, events)
  BY <1>9 DEF ToldTruly
<1>11. \A j \in Key : acked[j] # {} => events[j] # None
  BY <1>1 DEF Reading
<1>12. Reading(events)
  BY <1>1, <1>9, <1>11 DEF Reading
<1> QED
  BY <1>2, <1>7, <1>8, <1>10, <1>12 DEF Ready

\* A step keeps its work when its run is admitted, or not touched at all.
LEMMA AdmittedReady ==
    ASSUME EngineInv, NEW k \in Key, NEW rows, DOMAIN rows = Key,
           \A j \in Key \ {k} : rows[j] = run[j],
           rows[k] = run[k] \/ (run[k].status = "absent" /\ rows[k] = Admitted(k))
    PROVE  Ready(k, rows, handoff, action, outbox) /\ Lawful(rows)
<1>1. /\ TableTypes(run, handoff, action, owed)
      /\ Sound(run, handoff, action, owed, {})
      /\ Held(handoff) /\ Reading(outbox)
  BY DEF EngineInv
<1>2. RowsSound(run)
  BY <1>1 DEF TableTypes, Sound, RowsSound
<1>3. rows[k].step = run[k].step /\ rows[k] \in RowOf(k) /\ RowSound(k, rows[k])
  <2>1. CASE rows[k] = run[k]
    BY <1>2, <2>1 DEF RowsSound
  <2>2. CASE run[k].status = "absent" /\ rows[k] = Admitted(k)
    <3>1. ~Terminal(run[k]) /\ Present(run, k) = Admitted(k)
      BY <2>2 DEF Terminal, EndStatus, Present
    <3> QED BY <1>2, <2>2, <3>1, PresentSound
  <2> QED BY <2>1, <2>2
<1>4. ~Terminal(run[k]) \/ rows[k].status = run[k].status
  BY DEF Terminal, EndStatus
<1>5. run[k].status = "completed" => rows[k].status = "completed"
  OBVIOUS
<1>6. ASSUME NEW i \in Steps(k)
      PROVE  /\ WorkSound(Def(k, i).executor, rows[k].step[i], handoff[k][i], action[k][i])
             /\ HandoffType(handoff[k][i])
             /\ handoff[k][i].status # "absent" => \A j \in Def(k, i).deps : rows[k].step[j].status \in Settled
             /\ rows[k].step[i].status = run[k].step[i].status
  BY <1>1, <1>3 DEF Sound, Held
<1>7. /\ DOMAIN handoff = Key /\ handoff[k] \in [Steps(k) -> HandRow]
      /\ outbox \in [Key -> Event \cup {None}]
  BY <1>1 DEF TableTypes, Reading
<1>8. Lawful(rows)
  <2>1. Admitted(k).status = "pending"
    BY DEF Admitted, Blank
  <2>2. rows[k].status = run[k].status \/ (run[k].status = "absent" /\ rows[k].status = "pending")
    BY <2>1
  <2> QED BY <2>2 DEF Lawful
<1> QED
  BY <1>3, <1>4, <1>5, <1>6, <1>7, <1>8, OneRun

\* sop_run_start.
LEMMA RunStartKeeps ==
    ASSUME EngineInv, NEW k \in Key, RunStart(k)
    PROVE  EngineInv' /\ Moved
<1>1. DOMAIN run = Key
  BY DEF EngineInv, TableTypes
<1> DEFINE rows == [run EXCEPT ![k] = Admitted(k)]
<1>2. DOMAIN rows = Key /\ rows[k] = Admitted(k) /\ \A j \in Key \ {k} : rows[j] = run[j]
  BY <1>1
<1>3. /\ run[k].status = "absent" /\ Commit(k, rows, handoff, action, outbox)
      /\ UNCHANGED <<required, acked, claims>>
  BY DEF RunStart
<1> HIDE DEF rows
<1>4. Ready(k, rows, handoff, action, outbox) /\ Lawful(rows)
  BY <1>2, <1>3, AdmittedReady
<1> QED
  BY <1>3, <1>4, CommitKeeps

\* sop_run_refresh, and the second transaction of an action.
LEMMA RefreshKeeps ==
    ASSUME EngineInv, NEW k \in Key, RunRefresh(k) \/ ActionReconcile(k)
    PROVE  EngineInv' /\ Moved
<1>1. DOMAIN run = Key
  BY DEF EngineInv, TableTypes
<1>2. Commit(k, run, handoff, action, outbox) /\ UNCHANGED <<required, acked, claims>>
  BY DEF RunRefresh, ActionReconcile
<1>3. Ready(k, run, handoff, action, outbox) /\ Lawful(run)
  BY <1>1, AdmittedReady
<1> QED
  BY <1>2, <1>3, CommitKeeps

\* A retry that is a run of its own.
LEMMA RetryAsNewRunKeeps ==
    ASSUME EngineInv, NEW k \in Key, NEW i \in Steps(k), HandoffRetryAsNewRun(k, i)
    PROVE  EngineInv' /\ Moved
<1>1. DOMAIN run = Key
  BY DEF EngineInv, TableTypes
<1>2. PICK new \in MadeFrom("retry", k, i) :
          Commit(new,
                 IF run[new].status = "absent" THEN [run EXCEPT ![new] = Admitted(new)] ELSE run,
                 handoff, action, outbox)
  BY DEF HandoffRetryAsNewRun
<1>3. new \in Key
  BY DEF MadeFrom
<1> DEFINE rows == IF run[new].status = "absent" THEN [run EXCEPT ![new] = Admitted(new)] ELSE run
<1>4. /\ DOMAIN rows = Key /\ \A j \in Key \ {new} : rows[j] = run[j]
      /\ rows[new] = run[new] \/ (run[new].status = "absent" /\ rows[new] = Admitted(new))
  BY <1>1, <1>3
<1>5. Commit(new, rows, handoff, action, outbox) /\ UNCHANGED <<required, acked, claims>>
  BY <1>2 DEF HandoffRetryAsNewRun
<1> HIDE DEF rows
<1>6. Ready(new, rows, handoff, action, outbox) /\ Lawful(rows)
  BY <1>3, <1>4, AdmittedReady
<1> QED
  BY <1>3, <1>5, <1>6, CommitKeeps

\* The outcome of an agent's or operator's step.
LEMMA RunAdvanceKeeps ==
    ASSUME EngineInv, NEW k \in Key, NEW i \in Steps(k), NEW token, NEW outcome \in {"completed", "failed"},
           RunAdvance(k, i, token, outcome)
    PROVE  EngineInv' /\ Moved
<1>1. /\ TableTypes(run, handoff, action, owed)
      /\ Sound(run, handoff, action, owed, {})
      /\ Held(handoff) /\ Reading(outbox)
  BY DEF EngineInv
<1> DEFINE rows == [run EXCEPT ![k].step[i] =
                       [@ EXCEPT !.status = outcome, !.why = IF outcome = "failed" THEN "own" ELSE "none"]]
           hands == [handoff EXCEPT ![k][i].status = outcome, ![k][i].live = FALSE]
           h == handoff[k][i]
           s == run[k].step[i]
<1>2. /\ h.status = "leased" /\ ~Terminal(run[k]) /\ s.status = "running"
      /\ Commit(k, rows, hands, action, outbox)
      /\ UNCHANGED <<required, acked, claims>>
  BY DEF RunAdvance, RequireLease
<1>3. /\ DOMAIN run = Key /\ DOMAIN handoff = Key
      /\ run[k] \in RowOf(k) /\ handoff[k] \in [Steps(k) -> HandRow]
      /\ outbox \in [Key -> Event \cup {None}]
  BY <1>1 DEF TableTypes, Reading
<1>4. run[k].step \in [Steps(k) -> StepRow] /\ s \in StepRow /\ h \in HandRow
  BY <1>3 DEF RowOf
<1>5. /\ DOMAIN rows = Key /\ DOMAIN hands = Key
      /\ \A j \in Key \ {k} : rows[j] = run[j] /\ hands[j] = handoff[j]
  BY <1>3
<1> DEFINE s2 == [s EXCEPT !.status = outcome, !.why = IF outcome = "failed" THEN "own" ELSE "none"]
           h2 == [h EXCEPT !.status = outcome, !.live = FALSE]
<1>6. s2 \in StepRow /\ s2.status = outcome /\ s2.why = IF outcome = "failed" THEN "own" ELSE "none"
  BY <1>4 DEF StepRow, StepStatus
<1>7. h2 \in HandRow /\ h2.status = outcome /\ h2.live = FALSE /\ h2.token = h.token
  BY <1>4 DEF HandRow, HandoffStatus
<1>8. rows[k] = [run[k] EXCEPT !.step = [run[k].step EXCEPT ![i] = s2]]
  BY <1>3, <1>4 DEF RowOf, StepRow
<1>9. hands[k] = [handoff[k] EXCEPT ![i] = h2]
  BY <1>3, <1>4 DEF HandRow
<1> HIDE DEF rows, hands, s2, h2
<1>10. /\ rows[k] \in RowOf(k) /\ rows[k].status = run[k].status
       /\ rows[k].step[i] = s2 /\ \A j \in Steps(k) \ {i} : rows[k].step[j] = run[k].step[j]
  BY <1>3, <1>4, <1>6, <1>8 DEF RowOf
<1>11. /\ hands[k] \in [Steps(k) -> HandRow]
       /\ hands[k][i] = h2 /\ \A j \in Steps(k) \ {i} : hands[k][j] = handoff[k][j]
  BY <1>3, <1>7, <1>9
<1>12. /\ RowSound(k, run[k])
       /\ \A j \in Steps(k) : /\ WorkSound(Def(k, j).executor, run[k].step[j], handoff[k][j], action[k][j])
                              /\ HandoffType(handoff[k][j])
                              /\ handoff[k][j].status # "absent" =>
                                     \A d \in Def(k, j).deps : run[k].step[d].status \in Settled
  BY <1>1 DEF Sound, Held
<1>13. ASSUME NEW j \in Steps(k), \A d \in Def(k, j).deps : run[k].step[d].status \in Settled
       PROVE  \A d \in Def(k, j).deps : rows[k].step[d].status \in Settled
  <2> SUFFICES ASSUME NEW d \in Def(k, j).deps PROVE rows[k].step[d].status \in Settled
    OBVIOUS
  <2>1. d \in Steps(k) /\ run[k].step[d].status \in Settled
    BY <1>13, DepsAreSteps
  <2>2. d # i
    BY <1>2, <2>1 DEF Settled
  <2> QED BY <1>10, <2>1, <2>2
<1>14. Live(run[k]) /\ Def(k, i).executor \in Manual
  BY <1>2, <1>12 DEF RowSound, WorkSound
<1>15. RowSound(k, rows[k])
  <2>1. rows[k].status # "absent" /\ rows[k].status # "completed" /\ Live(rows[k])
    BY <1>10, <1>14 DEF Live, EndStatus
  <2>2. ASSUME NEW j \in Steps(k)
        PROVE  /\ rows[k].step[j].status = "running" => Def(k, j).executor # "engine"
               /\ rows[k].step[j].status \in {"running", "completed"} =>
                      \A d \in Def(k, j).deps : rows[k].step[d].status \in Settled
    <3>1. /\ run[k].step[j].status = "running" => Def(k, j).executor # "engine"
          /\ run[k].step[j].status \in {"running", "completed"} =>
                 \A d \in Def(k, j).deps : run[k].step[d].status \in Settled
      BY <1>12 DEF RowSound
    <3>2. CASE j = i
      BY <1>2, <1>6, <1>10, <1>13, <3>1, <3>2
    <3>3. CASE j # i
      BY <1>10, <1>13, <3>1, <3>3
    <3> QED BY <3>2, <3>3
  <2> QED BY <2>1, <2>2 DEF RowSound
<1>16. ASSUME NEW j \in Steps(k)
       PROVE  /\ WorkSound(Def(k, j).executor, rows[k].step[j], hands[k][j], action[k][j])
              /\ HandoffType(hands[k][j])
              /\ hands[k][j].status # "absent" => \A d \in Def(k, j).deps : rows[k].step[d].status \in Settled
              /\ Def(k, j).executor \notin Manual /\ rows[k].step[j].status \in {"running", "completed"} =>
                     rows[k].step[j].status = run[k].step[j].status
  <2>1. CASE j = i
    <3>1. WorkSound(Def(k, i).executor, s, h, action[k][i])
      BY <1>12
    <3>2. WorkSound(Def(k, i).executor, s2, h2, action[k][i])
      <4>1. ~Fresh(s2)
        BY <1>6 DEF Fresh
      <4>2. action[k][i] = "absent"
        BY <1>14, <3>1 DEF WorkSound, Manual
      <4> QED BY <1>6, <1>7, <1>14, <4>1, <4>2 DEF WorkSound, Manual
    <3>3. HandoffType(h2)
      BY <1>7, <1>12 DEF HandoffType
    <3>4. \A d \in Def(k, i).deps : rows[k].step[d].status \in Settled
      BY <1>2, <1>12, <1>13
    <3> QED BY <1>10, <1>11, <1>14, <2>1, <3>2, <3>3, <3>4
  <2>2. CASE j # i
    <3>1. rows[k].step[j] = run[k].step[j] /\ hands[k][j] = handoff[k][j]
      BY <1>10, <1>11, <2>2
    <3> QED BY <1>12, <1>13, <3>1
  <2> QED BY <2>1, <2>2
<1>17. Ready(k, rows, hands, action, outbox)
  BY <1>2, <1>3, <1>5, <1>10, <1>11, <1>15, <1>16, OneRun
<1>18. Lawful(rows)
  BY <1>5, <1>10 DEF Lawful
<1> QED
  BY <1>2, <1>17, <1>18, CommitKeeps

\* The steps that failed because another did.
LEMMA DependentsFailed ==
    ASSUME NEW k \in Key, NEW i \in Steps(k), NEW j \in Dependents(k, i)
    PROVE  /\ j \in Steps(k) /\ j # i
           /\ run[k].step[j].status = "failed" /\ run[k].step[j].why = "dependency"
<1> DEFINE Next1(f, x) == \/ x = i
                          \/ /\ run[k].step[x].status = "failed"
                             /\ run[k].step[x].why = "dependency"
                             /\ \E d \in Def(k, x).deps : f[d]
           S == Steps(k)
           V == BOOLEAN
           H == [f \in [S -> V] |-> [x \in S |-> Next1(f, x)]]
<1>1. PICK n \in Nat : S = 1..n /\ \A x \in S : Def(k, x).deps \subseteq 1..(x - 1)
  BY StepsOrdered
<1> DEFINE rank == [x \in S |-> x]
<1>2. rank \in [S -> 0..n]
  BY <1>1
<1>3. ASSUME NEW f, NEW x PROVE Next1(f, x) \in BOOLEAN
  OBVIOUS
<1>4. \A f \in [S -> V] : H[f] \in [S -> V]
  <2> HIDE DEF Next1
  <2> QED BY <1>3
<1>5. ASSUME NEW f \in [S -> V], NEW g \in [S -> V], NEW x \in S,
             \A y \in S : rank[y] < rank[x] => f[y] = g[y]
      PROVE  H[f][x] = H[g][x]
  <2>1. \A d \in Def(k, x).deps : f[d] = g[d]
    <3>1. \A d \in Def(k, x).deps : d \in S /\ d < x
      BY <1>1
    <3> QED BY <1>5, <3>1
  <2>2. Next1(f, x) = Next1(g, x)
    BY <2>1
  <2> HIDE DEF Next1
  <2> QED BY <2>2
<1>6. [S -> V] # {}
  <2>1. [x \in S |-> TRUE] \in [S -> V]
    OBVIOUS
  <2> QED BY <2>1
<1>7. Solvable(S, V, H)
  <2>1. \A f, g \in [S -> V] : \A x \in S :
            (\A y \in S : rank[y] < rank[x] => f[y] = g[y]) => H[f][x] = H[g][x]
    BY <1>5
  <2>2. n \in Nat
    OBVIOUS
  <2> HIDE DEF H, V, S, rank
  <2>3. Descends(S, V, n, rank, H)
    BY <1>2, <1>4, <1>6, <2>1, <2>2 DEF Descends
  <2> QED BY <2>3, Recursion
<1>8. PICK f \in [S -> V] : H[f] = f
  BY <1>7 DEF Solvable
<1>9. f = [x \in Steps(k) |-> Next1(f, x)]
  BY <1>8
<1> DEFINE hit == CHOOSE g : g = [x \in Steps(k) |-> Next1(g, x)]
<1>10. hit = [x \in Steps(k) |-> Next1(hit, x)]
  <2> HIDE DEF Next1
  <2> QED BY <1>9
<1>11. Dependents(k, i) = {x \in Steps(k) : hit[x]} \ {i}
  BY DEF Dependents
<1> HIDE DEF hit
<1>12. j \in Steps(k) /\ j # i /\ hit[j]
  BY <1>11
<1>13. hit[j] = Next1(hit, j)
  <2> HIDE DEF Next1
  <2> QED BY <1>10, <1>12
<1> QED
  BY <1>12, <1>13

\* A failed handoff that is retried where it is.
LEMMA HandoffRetryReady ==
    ASSUME EngineInv, NEW k \in Key, NEW i \in Steps(k), HandoffRetry(k, i)
    PROVE  /\ Ready(k, [run EXCEPT ![k] = Reopened(k, i)], [handoff EXCEPT ![k][i].status = "pending"],
                    action, [outbox EXCEPT ![k] = None])
           /\ Def(k, i).executor \in Manual
           /\ Reopened(k, i).step[i].status = "running"
           /\ run[k].status \notin {"absent", "completed"}
           /\ acked[k] = {}
<1>1. /\ TableTypes(run, handoff, action, owed)
      /\ Sound(run, handoff, action, owed, {})
      /\ Held(handoff) /\ Reading(outbox) /\ Told(run, outbox)
  BY DEF EngineInv
<1> DEFINE row == Reopened(k, i)
           rows == [run EXCEPT ![k] = row]
           hands == [handoff EXCEPT ![k][i].status = "pending"]
           events == [outbox EXCEPT ![k] = None]
           h == handoff[k][i]
           s == run[k].step[i]
           again == Dependents(k, i)
<1>2. h.status = "failed" /\ Def(k, i).executor = "agent" /\ s.status = "failed" /\ ~Consumed(k)
  BY DEF HandoffRetry, RetryFailed
<1>3. /\ DOMAIN run = Key /\ DOMAIN handoff = Key
      /\ run[k] \in RowOf(k) /\ handoff[k] \in [Steps(k) -> HandRow]
      /\ outbox \in [Key -> Event \cup {None}] /\ acked \in [Key -> SUBSET Consumer]
  BY <1>1 DEF TableTypes, Reading
<1>4. run[k].step \in [Steps(k) -> StepRow] /\ s \in StepRow /\ h \in HandRow
  BY <1>3 DEF RowOf
<1>5. acked[k] = {}
  <2>1. acked[k] # {} => outbox[k] # None
    BY <1>1 DEF Reading
  <2> QED BY <1>2, <2>1 DEF Consumed
<1>6. /\ RowSound(k, run[k])
      /\ \A j \in Steps(k) : /\ WorkSound(Def(k, j).executor, run[k].step[j], handoff[k][j], action[k][j])
                             /\ HandoffType(handoff[k][j])
                             /\ handoff[k][j].status # "absent" =>
                                    \A d \in Def(k, j).deps : run[k].step[d].status \in Settled
  BY <1>1 DEF Sound, Held
<1>7. run[k].status \notin {"absent", "completed"}
  <2>1. run[k].status # "completed"
    BY <1>2, <1>6 DEF RowSound
  <2>2. Blank(k).step[i].status = "pending"
    BY DEF Blank, NewStep
  <2> QED BY <1>2, <1>6, <2>1, <2>2 DEF RowSound
<1>8. \A j \in again : /\ j \in Steps(k) /\ j # i
                       /\ run[k].step[j].status = "failed" /\ run[k].step[j].why = "dependency"
  BY DependentsFailed
<1> DEFINE s2 == [s EXCEPT !.status = "running", !.why = "none"]
           h2 == [h EXCEPT !.status = "pending"]
<1>9. s2 \in StepRow /\ s2.status = "running"
  BY <1>4 DEF StepRow, StepStatus
<1>10. h2 \in HandRow /\ h2.status = "pending" /\ h2.live = h.live /\ h2.token = h.token
  BY <1>4 DEF HandRow, HandoffStatus
<1>11. \A j \in Steps(k) : Reset(run[k].step[j]) \in StepRow /\ Reset(run[k].step[j]).status = "pending"
  BY DEF Reset, StepRow, StepStatus
<1>12. /\ row.status = "awaiting_confirmation"
       /\ row.step = [j \in Steps(k) |-> CASE j = i       -> s2
                                           [] j \in again -> Reset(run[k].step[j])
                                           [] OTHER       -> run[k].step[j]]
       /\ row = [status |-> row.status, step |-> row.step]
  BY DEF Reopened
<1> HIDE DEF row, s2, h2, again
<1>13. /\ row.step[i] = s2
       /\ \A j \in again : row.step[j] = Reset(run[k].step[j])
       /\ \A j \in Steps(k) \ {i} : j \notin again => row.step[j] = run[k].step[j]
  BY <1>8, <1>12
<1>14. row \in RowOf(k)
  <2>1. row.step \in [Steps(k) -> StepRow]
    BY <1>4, <1>9, <1>11, <1>12
  <2> QED BY <1>12, <2>1 DEF RowOf, RunStatus
<1>15. ASSUME NEW j \in Steps(k), \A d \in Def(k, j).deps : run[k].step[d].status \in Settled
       PROVE  \A d \in Def(k, j).deps : row.step[d].status \in Settled
  <2> SUFFICES ASSUME NEW d \in Def(k, j).deps PROVE row.step[d].status \in Settled
    OBVIOUS
  <2>1. d \in Steps(k) /\ run[k].step[d].status \in Settled
    BY <1>15, DepsAreSteps
  <2>2. d # i /\ d \notin again
    BY <1>2, <1>8, <2>1 DEF Settled
  <2> QED BY <1>13, <2>1, <2>2
<1>16. RowSound(k, row)
  <2>1. row.status # "absent" /\ row.status # "completed" /\ Live(row)
    BY <1>12 DEF Live, EndStatus
  <2>2. ASSUME NEW j \in Steps(k)
        PROVE  /\ row.step[j].status = "running" => Def(k, j).executor # "engine"
               /\ row.step[j].status \in {"running", "completed"} =>
                      \A d \in Def(k, j).deps : row.step[d].status \in Settled
    <3>1. /\ run[k].step[j].status = "running" => Def(k, j).executor # "engine"
          /\ run[k].step[j].status \in {"running", "completed"} =>
                 \A d \in Def(k, j).deps : run[k].step[d].status \in Settled
      BY <1>6 DEF RowSound
    <3>2. CASE j = i
      <4>1. \A d \in Def(k, i).deps : run[k].step[d].status \in Settled
        BY <1>2, <1>6
      <4> QED BY <1>2, <1>15, <3>2, <4>1
    <3>3. CASE j \in again
      BY <1>11, <1>13, <3>3
    <3>4. CASE j # i /\ j \notin again
      BY <1>13, <1>15, <3>1, <3>4
    <3> QED BY <3>2, <3>3, <3>4
  <2> QED BY <2>1, <2>2 DEF RowSound
<1>17. /\ DOMAIN rows = Key /\ DOMAIN hands = Key /\ rows[k] = row
       /\ events \in [Key -> Event \cup {None}] /\ events[k] = None
       /\ \A j \in Key \ {k} : rows[j] = run[j] /\ hands[j] = handoff[j] /\ events[j] = outbox[j]
  BY <1>3
<1>18. hands[k] = [handoff[k] EXCEPT ![i] = h2]
  BY <1>3, <1>4 DEF h2
<1> HIDE DEF rows, hands, events
<1>19. /\ hands[k] \in [Steps(k) -> HandRow]
       /\ hands[k][i] = h2 /\ \A j \in Steps(k) \ {i} : hands[k][j] = handoff[k][j]
  BY <1>3, <1>10, <1>18
<1>20. ASSUME NEW j \in Steps(k)
       PROVE  /\ WorkSound(Def(k, j).executor, row.step[j], hands[k][j], action[k][j])
              /\ HandoffType(hands[k][j])
              /\ hands[k][j].status # "absent" => \A d \in Def(k, j).deps : row.step[d].status \in Settled
              /\ Def(k, j).executor \notin Manual /\ row.step[j].status \in {"running", "completed"} =>
                     row.step[j].status = run[k].step[j].status
  <2>1. CASE j = i
    <3>1. WorkSound(Def(k, i).executor, s, h, action[k][i])
      BY <1>6
    <3>2. WorkSound(Def(k, i).executor, s2, h2, action[k][i])
      <4>1. ~Fresh(s2)
        BY <1>9 DEF Fresh
      <4>2. action[k][i] = "absent"
        BY <1>2, <3>1 DEF WorkSound
      <4> QED BY <1>2, <1>9, <1>10, <4>1, <4>2 DEF WorkSound, Manual
    <3>3. HandoffType(h2)
      <4>1. HandoffType(h)
        BY <1>6
      <4> QED BY <1>2, <1>10, <4>1 DEF HandoffType
    <3>4. \A d \in Def(k, i).deps : row.step[d].status \in Settled
      <4>1. \A d \in Def(k, i).deps : run[k].step[d].status \in Settled
        BY <1>2, <1>6
      <4> QED BY <1>15, <4>1
    <3>5. Def(k, i).executor \in Manual
      BY <1>2 DEF Manual
    <3> QED BY <1>13, <1>19, <2>1, <3>2, <3>3, <3>4, <3>5
  <2>2. CASE j \in again
    <3> DEFINE sj == run[k].step[j]
               rj == Reset(sj)
    <3>1. Fresh(sj) /\ hands[k][j] = handoff[k][j] /\ row.step[j] = rj
      BY <1>8, <1>13, <1>19, <2>2 DEF Fresh
    <3>2. handoff[k][j].status = "absent" /\ action[k][j] = "absent"
      BY <1>6, <3>1 DEF WorkSound
    <3>3. handoff[k][j] = NoHandoff
      BY <1>6, <3>2 DEF WorkSound
    <3>4. rj.status = "pending"
      BY <1>11
    <3> HIDE DEF rj, sj
    <3>5. WorkSound(Def(k, j).executor, rj, handoff[k][j], action[k][j])
      BY <3>2, <3>3, <3>4 DEF WorkSound
    <3>6. HandoffType(handoff[k][j])
      BY <1>6
    <3> QED BY <3>1, <3>2, <3>4, <3>5, <3>6
  <2>3. CASE j # i /\ j \notin again
    <3>1. row.step[j] = run[k].step[j] /\ hands[k][j] = handoff[k][j]
      BY <1>13, <1>19, <2>3
    <3> QED BY <1>6, <1>15, <3>1
  <2> QED BY <2>1, <2>2, <2>3
<1>21. Ready(k, rows, hands, action, events)
  <2>1. run[k].status = "completed" => rows[k].status = "completed"
    BY <1>7
  <2> QED BY <1>5, <1>14, <1>16, <1>17, <1>19, <1>20, <2>1, OneRun
<1>22. Def(k, i).executor \in Manual /\ row.step[i].status = "running"
  BY <1>2, <1>9, <1>13 DEF Manual
<1> QED
  BY <1>5, <1>7, <1>21, <1>22 DEF rows, hands, events, row

\* sop_handoff_retry, where the terminal event was not consumed.
LEMMA HandoffRetryKeeps ==
    ASSUME EngineInv, NEW k \in Key, NEW i \in Steps(k), HandoffRetry(k, i)
    PROVE  EngineInv' /\ Moved
<1> DEFINE rows == [run EXCEPT ![k] = Reopened(k, i)]
           hands == [handoff EXCEPT ![k][i].status = "pending"]
           events == [outbox EXCEPT ![k] = None]
<1>1. Ready(k, rows, hands, action, events)
  BY HandoffRetryReady
<1>3. Lawful(rows)
  <2>1. /\ Def(k, i).executor \in Manual /\ Reopened(k, i).step[i].status = "running"
        /\ run[k].status \notin {"absent", "completed"} /\ acked[k] = {}
    BY HandoffRetryReady
  <2>2. rows[k] = Reopened(k, i) /\ \A j \in Key \ {k} : rows[j] = run[j]
    BY DEF EngineInv, TableTypes
  <2> HIDE DEF rows
  <2> QED BY <2>1, <2>2 DEF Lawful
<1>2. Commit(k, rows, hands, action, events) /\ UNCHANGED <<required, acked, claims>>
  BY DEF HandoffRetry
<1> HIDE DEF rows, hands, events
<1> QED
  BY <1>1, <1>2, <1>3, CommitKeeps

\* The runs that are cancelled along with k are below it, and were not over.
LEMMA CancelledBelow ==
    ASSUME NEW k \in Key
    PROVE  /\ CancelledWith(k) \subseteq Key
           /\ ~Terminal(run[k]) => k \in CancelledWith(k)
           /\ \A j \in CancelledWith(k) :
                  /\ ~Terminal(run[j])
                  /\ j = k \/ (HasChild(run, j) /\ Parent(j) \in CancelledWith(k))
<1> DEFINE Next1(f, j) == /\ ~Terminal(run[j])
                          /\ \/ j = k
                             \/ HasChild(run, j) /\ f[Parent(j)]
           S == Key
           V == BOOLEAN
           H == [f \in [S -> V] |-> [j \in S |-> Next1(f, j)]]
<1>0. PICK n \in Nat : \E depth \in [Key -> 0..n] :
          \A j \in Key : Kind(j) = "child" => depth[Parent(j)] < depth[j]
  BY Nested
<1>1. PICK depth \in [Key -> 0..n] : \A j \in Key : Kind(j) = "child" => depth[Parent(j)] < depth[j]
  BY <1>0
<1>2. ASSUME NEW f, NEW j PROVE Next1(f, j) \in BOOLEAN
  OBVIOUS
<1>3. \A f \in [S -> V] : H[f] \in [S -> V]
  <2> HIDE DEF Next1
  <2> QED BY <1>2
<1>4. ASSUME NEW f \in [S -> V], NEW g \in [S -> V], NEW j \in S,
             \A x \in S : depth[x] < depth[j] => f[x] = g[x]
      PROVE  H[f][j] = H[g][j]
  <2>1. Kind(j) = "child" => f[Parent(j)] = g[Parent(j)]
    BY <1>1, <1>4, ParentOf
  <2>2. Next1(f, j) = Next1(g, j)
    BY <2>1 DEF HasChild
  <2> HIDE DEF Next1
  <2> QED BY <2>2
<1>5. [S -> V] # {}
  <2>1. [j \in S |-> TRUE] \in [S -> V]
    OBVIOUS
  <2> QED BY <2>1
<1>6. n \in Nat /\ depth \in [S -> 0..n]
  OBVIOUS
<1>7. Solvable(S, V, H)
  <2>1. \A f, g \in [S -> V] : \A j \in S :
            (\A x \in S : depth[x] < depth[j] => f[x] = g[x]) => H[f][j] = H[g][j]
    BY <1>4
  <2> HIDE DEF H, V, S
  <2>2. Descends(S, V, n, depth, H)
    BY <1>3, <2>1, <1>5, <1>6 DEF Descends
  <2> QED BY <2>2, Recursion
<1>8. PICK f \in [S -> V] : H[f] = f
  BY <1>7 DEF Solvable
<1>9. f = [j \in Key |-> Next1(f, j)]
  BY <1>8
<1> DEFINE hit == CHOOSE g : g = [j \in Key |-> Next1(g, j)]
<1>10. hit = [j \in Key |-> Next1(hit, j)]
  <2> HIDE DEF Next1
  <2> QED BY <1>9
<1>11. CancelledWith(k) = {j \in Key : hit[j]}
  BY DEF CancelledWith
<1> HIDE DEF hit
<1>12. ASSUME NEW j \in Key PROVE hit[j] = Next1(hit, j)
  <2> HIDE DEF Next1
  <2> QED BY <1>10
<1>13. ASSUME NEW j \in CancelledWith(k)
       PROVE  ~Terminal(run[j]) /\ (j = k \/ (HasChild(run, j) /\ Parent(j) \in CancelledWith(k)))
  <2>1. j \in Key /\ Next1(hit, j)
    BY <1>11, <1>12
  <2>2. CASE HasChild(run, j) /\ hit[Parent(j)]
    <3>1. Parent(j) \in Key
      BY <2>1, <2>2, ParentOf DEF HasChild
    <3> QED BY <1>11, <2>1, <2>2, <3>1
  <2> QED BY <2>1, <2>2
<1>14. ~Terminal(run[k]) => k \in CancelledWith(k)
  BY <1>11, <1>12
<1> QED
  BY <1>11, <1>13, <1>14

\* The rows of a run that is cancelled, and of its work, are sound.
LEMMA CancelSound ==
    ASSUME EngineInv, NEW j \in Key
    PROVE  LET row == CancelRow(j)
           IN  /\ row \in RowOf(j) /\ row.status = "cancelled" /\ RowSound(j, row)
               /\ \A i \in Steps(j) :
                      LET h == CancelHandoff(handoff[j][i])
                          a == IF action[j][i] = "pending" THEN "cancelled" ELSE action[j][i]
                      IN  /\ h \in HandRow /\ a \in ActionStatus /\ HandoffType(h)
                          /\ WorkSound(Def(j, i).executor, row.step[i], h, a)
                          /\ row.step[i].status # "running"
                          /\ row.step[i].status = "completed" => run[j].step[i].status = "completed"
                          /\ h.status # "absent" =>
                                 \A d \in Def(j, i).deps : row.step[d].status \in Settled
<1> DEFINE row == CancelRow(j)
<1>1. /\ TableTypes(run, handoff, action, owed)
      /\ Sound(run, handoff, action, owed, {})
      /\ Held(handoff)
  BY DEF EngineInv
<1>2. /\ run[j] \in RowOf(j) /\ handoff[j] \in [Steps(j) -> HandRow]
      /\ action[j] \in [Steps(j) -> ActionStatus] /\ RowSound(j, run[j])
  BY <1>1 DEF TableTypes, Sound
<1>3. /\ row.status = "cancelled"
      /\ row = [status |-> row.status, step |-> row.step]
      /\ row.step = [i \in Steps(j) |-> CancelStep(run[j].step[i])]
  BY DEF CancelRow
<1> HIDE DEF row
<1>4. ASSUME NEW i \in Steps(j)
      PROVE  /\ row.step[i] = CancelStep(run[j].step[i])
             /\ run[j].step[i] \in StepRow /\ row.step[i] \in StepRow
             /\ row.step[i].status # "running" /\ row.step[i].status # "pending"
             /\ row.step[i].status = "completed" => run[j].step[i].status = "completed"
             /\ run[j].step[i].status \notin {"pending", "running"} => row.step[i] = run[j].step[i]
             /\ run[j].step[i].status \in {"pending", "running"} => row.step[i].status = "skipped"
  <2>1. run[j].step[i] \in StepRow
    BY <1>2 DEF RowOf
  <2>2. row.step[i] = CancelStep(run[j].step[i])
    BY <1>3
  <2> QED BY <2>1, <2>2 DEF CancelStep, StepRow, StepStatus
<1>5. row \in RowOf(j)
  <2>1. row.step \in [Steps(j) -> StepRow]
    BY <1>3, <1>4
  <2> QED BY <1>3, <2>1 DEF RowOf, RunStatus, EndStatus
<1>6. ASSUME NEW i \in Steps(j), \A d \in Def(j, i).deps : run[j].step[d].status \in Settled
      PROVE  \A d \in Def(j, i).deps : row.step[d].status \in Settled
  <2> SUFFICES ASSUME NEW d \in Def(j, i).deps PROVE row.step[d].status \in Settled
    OBVIOUS
  <2>1. d \in Steps(j) /\ run[j].step[d].status \in Settled
    BY <1>6, DepsAreSteps
  <2>2. row.step[d] = run[j].step[d]
    BY <1>4, <2>1 DEF Settled
  <2> QED BY <2>1, <2>2
<1>7. RowSound(j, row)
  <2>1. ASSUME NEW i \in Steps(j), row.step[i].status = "completed"
        PROVE  \A d \in Def(j, i).deps : row.step[d].status \in Settled
    BY <1>2, <1>4, <1>6, <2>1 DEF RowSound
  <2> QED BY <1>3, <1>4, <2>1 DEF RowSound
<1>8. ASSUME NEW i \in Steps(j)
      PROVE  LET h == CancelHandoff(handoff[j][i])
                 a == IF action[j][i] = "pending" THEN "cancelled" ELSE action[j][i]
             IN  /\ h \in HandRow /\ a \in ActionStatus /\ HandoffType(h)
                 /\ WorkSound(Def(j, i).executor, row.step[i], h, a)
                 /\ h.status # "absent" => \A d \in Def(j, i).deps : row.step[d].status \in Settled
  <2> DEFINE h == handoff[j][i]
             h2 == CancelHandoff(h)
             a == action[j][i]
             a2 == IF a = "pending" THEN "cancelled" ELSE a
             s == run[j].step[i]
             s2 == row.step[i]
             e == Def(j, i).executor
  <2>1. /\ h \in HandRow /\ a \in ActionStatus /\ HandoffType(h) /\ WorkSound(e, s, h, a)
        /\ h.status # "absent" => \A d \in Def(j, i).deps : run[j].step[d].status \in Settled
    BY <1>1, <1>2 DEF Sound, Held
  <2>2. /\ h.status \in {"pending", "leased"} =>
               h2.status = "cancelled" /\ h2.live = FALSE /\ h2.token = h.token
        /\ h.status \notin {"pending", "leased"} => h2 = h
        /\ h2 \in HandRow
    BY <2>1 DEF CancelHandoff, HandRow, HandoffStatus
  <2>3. a2 \in ActionStatus
    BY <2>1 DEF ActionStatus
  <2> HIDE DEF h, h2
  <2>4. HandoffType(h2)
    BY <2>1, <2>2 DEF HandoffType
  <2>5. /\ s2.status \notin {"running", "pending"}
        /\ s.status \notin {"pending", "running"} => s2 = s
        /\ s.status \in {"pending", "running"} => s2.status = "skipped"
    BY <1>4
  <2> HIDE DEF a, s, s2, e
  <2>6. WorkSound(e, s2, h2, a2)
    <3>1. CASE s.status \in {"pending", "running"}
      <4>1. s2.status = "skipped" /\ ~Fresh(s2)
        BY <2>5, <3>1 DEF Fresh
      <4>2. h2.status \notin {"pending", "leased"} /\ a2 # "pending"
        BY <2>2
      <4>3. (h2.status = "absent" <=> h.status = "absent") /\ (h.status = "absent" => h2 = h)
            /\ (a2 = "absent" <=> a = "absent")
        BY <2>2
      <4> HIDE DEF a2
      <4> QED BY <2>1, <4>1, <4>2, <4>3 DEF WorkSound
    <3>2. CASE s.status \notin {"pending", "running"}
      <4>1. h.status \notin {"pending", "leased"} /\ a # "pending"
        BY <2>1, <3>2 DEF WorkSound
      <4> QED BY <2>1, <2>2, <2>5, <3>2, <4>1
    <3> QED BY <3>1, <3>2
  <2>7. h2.status # "absent" => \A d \in Def(j, i).deps : row.step[d].status \in Settled
    <3>1. h2.status # "absent" => h.status # "absent"
      BY <2>2
    <3> QED BY <1>6, <2>1, <3>1
  <2> QED BY <2>2, <2>3, <2>4, <2>6, <2>7 DEF h, h2, a, s2, e
<1> QED
  BY <1>3, <1>4, <1>5, <1>7, <1>8 DEF row

\* The tables of RunCancel.
CancelRows(k) == [j \in Key |-> IF j \in CancelledWith(k) THEN CancelRow(j) ELSE run[j]]

CancelHands(k) ==
    [j \in Key |-> [i \in Steps(j) |->
        IF j \in CancelledWith(k) THEN CancelHandoff(handoff[j][i]) ELSE handoff[j][i]]]

CancelActs(k) ==
    [j \in Key |-> [i \in Steps(j) |->
        IF j \in CancelledWith(k) /\ action[j][i] = "pending" THEN "cancelled" ELSE action[j][i]]]

\* A cancellation takes along whatever waits below, and nothing that waits
\* above, but for the run that waits for the cancelled one.
LEMMA RunCancelReady ==
    ASSUME EngineInv, NEW k \in Key, Live(run[k])
    PROVE  Ready(k, CancelRows(k), CancelHands(k), CancelActs(k), outbox) /\ Lawful(CancelRows(k))
<1>1. /\ TableTypes(run, handoff, action, owed)
      /\ Sound(run, handoff, action, owed, {})
      /\ Held(handoff) /\ Reading(outbox) /\ Told(run, outbox)
  BY DEF EngineInv
<1> DEFINE hit == CancelledWith(k)
           rows == CancelRows(k)
           hands == CancelHands(k)
           acts == CancelActs(k)
<1>0. \A j \in hit : run[j].status # "absent"
  BY CancelledBelow DEF HasChild, Live
<1>2. /\ hit \subseteq Key
      /\ \A j \in hit : ~Terminal(run[j]) /\ (j = k \/ (Kind(j) = "child" /\ Parent(j) \in hit))
  BY CancelledBelow DEF HasChild
<1>3. \A j \in Key : rows[j] = IF j \in hit THEN CancelRow(j) ELSE run[j]
  BY DEF CancelRows
<1>4. \A j \in Key : \A i \in Steps(j) :
          /\ hands[j][i] = IF j \in hit THEN CancelHandoff(handoff[j][i]) ELSE handoff[j][i]
          /\ acts[j][i] = IF j \in hit /\ action[j][i] = "pending" THEN "cancelled" ELSE action[j][i]
  BY DEF CancelHands, CancelActs
<1>5. /\ DOMAIN rows = Key /\ DOMAIN hands = Key /\ DOMAIN acts = Key
      /\ \A j \in Key : hands[j] = [i \in Steps(j) |-> hands[j][i]] /\ acts[j] = [i \in Steps(j) |-> acts[j][i]]
  BY DEF CancelRows, CancelHands, CancelActs
<1> HIDE DEF hit, rows, hands, acts
<1>6. ASSUME NEW j \in Key
      PROVE  /\ rows[j] \in RowOf(j) /\ RowSound(j, rows[j]) /\ Waiting(j, rows[j])
             /\ run[j].status = "completed" => rows[j].status = "completed"
             /\ j \notin hit => rows[j] = run[j]
             /\ j \in hit => rows[j].status = "cancelled"
  <2>1. CASE j \in hit
    <3>1. rows[j] \in RowOf(j) /\ RowSound(j, rows[j]) /\ rows[j].status = "cancelled"
      BY <1>3, <2>1, CancelSound
    <3>2. run[j].status # "completed"
      BY <1>2, <2>1 DEF Terminal, EndStatus
    <3> QED BY <2>1, <3>1, <3>2 DEF Waiting
  <2>2. CASE j \notin hit
    BY <1>1, <1>3, <2>2 DEF TableTypes, Sound
  <2> QED BY <2>1, <2>2
<1>7. ASSUME NEW j \in Key, NEW i \in Steps(j)
      PROVE  /\ hands[j][i] \in HandRow /\ acts[j][i] \in ActionStatus /\ HandoffType(hands[j][i])
             /\ WorkSound(Def(j, i).executor, rows[j].step[i], hands[j][i], acts[j][i])
             /\ hands[j][i].status # "absent" => \A d \in Def(j, i).deps : rows[j].step[d].status \in Settled
             /\ rows[j].step[i].status = "running" => j \notin hit
             /\ rows[j].step[i].status \in {"running", "completed"} =>
                    rows[j].step[i].status = run[j].step[i].status
  <2>1. CASE j \in hit
    <3> DEFINE h == CancelHandoff(handoff[j][i])
               a == IF action[j][i] = "pending" THEN "cancelled" ELSE action[j][i]
    <3>1. /\ h \in HandRow /\ a \in ActionStatus /\ HandoffType(h)
          /\ WorkSound(Def(j, i).executor, CancelRow(j).step[i], h, a)
          /\ CancelRow(j).step[i].status # "running"
          /\ CancelRow(j).step[i].status = "completed" => run[j].step[i].status = "completed"
          /\ h.status # "absent" =>
                 \A d \in Def(j, i).deps : CancelRow(j).step[d].status \in Settled
      BY CancelSound
    <3>2. hands[j][i] = h /\ acts[j][i] = a /\ rows[j] = CancelRow(j)
      BY <1>3, <1>4, <2>1
    <3> HIDE DEF h, a
    <3> QED BY <2>1, <3>1, <3>2
  <2>2. CASE j \notin hit
    <3>1. hands[j][i] = handoff[j][i] /\ acts[j][i] = action[j][i] /\ rows[j] = run[j]
      BY <1>3, <1>4, <2>2
    <3>2. handoff[j][i] \in HandRow /\ action[j][i] \in ActionStatus
      BY <1>1 DEF TableTypes
    <3> QED BY <1>1, <2>2, <3>1, <3>2 DEF Sound, Held
  <2> QED BY <2>1, <2>2
<1>8. TableTypes(rows, hands, acts, owed)
  <2>1. \A j \in Key : hands[j] \in [Steps(j) -> HandRow] /\ acts[j] \in [Steps(j) -> ActionStatus]
    BY <1>5, <1>7
  <2>2. DOMAIN owed = Key /\ \A j \in Key : owed[j] \in {"no", "due", "lost"}
    BY <1>1 DEF TableTypes
  <2> QED BY <1>5, <1>6, <2>1, <2>2 DEF TableTypes
<1>9. ASSUME NEW j \in Key, NEW i \in Steps(j)
      PROVE  /\ rows[j].step[i].status = "completed" /\ Def(j, i).executor = "sop" =>
                    rows[Child[j][i]].status = "completed"
             /\ rows[j].step[i].status = "running" /\ Def(j, i).executor = "action" =>
                    acts[j][i] = "pending" \/ owed[j] # "no"
             /\ rows[j].step[i].status = "running" /\ Def(j, i).executor = "sop" =>
                    Live(rows[Child[j][i]]) \/ Child[j][i] \in {k}
  <2>1. /\ run[j].step[i].status = "completed" /\ Def(j, i).executor = "sop" =>
               run[Child[j][i]].status = "completed"
        /\ run[j].step[i].status = "running" /\ Def(j, i).executor = "action" =>
               action[j][i] = "pending" \/ owed[j] # "no"
        /\ run[j].step[i].status = "running" /\ Def(j, i).executor = "sop" =>
               Live(run[Child[j][i]])
    BY <1>1 DEF Sound
  <2>2. rows[j].step[i].status = "running" /\ Def(j, i).executor = "action" =>
            acts[j][i] = "pending" \/ owed[j] # "no"
    BY <1>4, <1>7, <2>1
  <2>3. ASSUME rows[j].step[i].status = "running", Def(j, i).executor = "sop"
        PROVE  Live(rows[Child[j][i]]) \/ Child[j][i] \in {k}
    <3>1. Child[j][i] \in Key /\ Parent(Child[j][i]) = j
      BY <2>3, ChildOf
    <3>2. Child[j][i] # k => Child[j][i] \notin hit
      BY <1>2, <1>7, <2>3, <3>1
    <3> QED BY <1>6, <1>7, <2>1, <2>3, <3>1, <3>2
  <2>4. rows[j].step[i].status = "completed" /\ Def(j, i).executor = "sop" =>
            rows[Child[j][i]].status = "completed"
    BY <1>6, <1>7, <2>1, ChildOf
  <2> QED BY <2>2, <2>3, <2>4
<1>10. Sound(rows, hands, acts, owed, {k})
  BY <1>6, <1>7, <1>9 DEF Sound
<1>11. Held(hands)
  BY <1>1, <1>7 DEF Held
<1>12. ToldTruly(rows, outbox)
  <2>1. \A j \in Key : outbox[j] # None => Terminal(run[j]) /\ outbox[j].outcome = run[j].status
    BY <1>1 DEF Told, ToldTruly
  <2> QED BY <1>2, <1>6, <2>1 DEF ToldTruly
<1>13. Lawful(rows)
  <2>1. ASSUME NEW j \in hit PROVE Live(run[j]) /\ rows[j].status = "cancelled"
    <3>1. j \in Key /\ ~Terminal(run[j]) /\ run[j].status # "absent"
      BY <1>0, <1>2
    <3> QED BY <1>6, <3>1 DEF Live, Terminal
  <2> QED BY <1>6, <2>1 DEF Lawful
<1> QED
  BY <1>1, <1>8, <1>10, <1>11, <1>12, <1>13 DEF Ready, rows, hands, acts

\* sop_run_cancel.
LEMMA RunCancelKeeps ==
    ASSUME EngineInv, NEW k \in Key, RunCancel(k)
    PROVE  EngineInv' /\ Moved
<1>1. /\ Live(run[k])
      /\ Commit(k, CancelRows(k), CancelHands(k), CancelActs(k), outbox)
      /\ UNCHANGED <<required, acked, claims>>
  BY DEF RunCancel, CancelRows, CancelHands, CancelActs
<1>2. Ready(k, CancelRows(k), CancelHands(k), CancelActs(k), outbox) /\ Lawful(CancelRows(k))
  BY <1>1, RunCancelReady
<1> QED
  BY <1>1, <1>2, CommitKeeps

-----------------------------------------------------------------------------
(* The other actions *)

\* Before any run is started.
LEMMA InitSound ==
    ASSUME Init
    PROVE  EngineInv
<1> USE DEF Init
<1>1. ASSUME NEW k \in Key
      PROVE  /\ run[k] = Blank(k) /\ run[k] \in RowOf(k) /\ run[k].status = "absent"
             /\ \A i \in Steps(k) : run[k].step[i].status = "pending"
             /\ handoff[k] = [i \in Steps(k) |-> NoHandoff]
             /\ action[k] = [i \in Steps(k) |-> "absent"]
             /\ owed[k] = "no" /\ outbox[k] = None /\ acked[k] = {}
  <2>1. run[k] = Blank(k)
    OBVIOUS
  <2>2. Blank(k) \in RowOf(k) /\ Blank(k).status = "absent"
    BY BlankType DEF Blank
  <2>3. \A i \in Steps(k) : Blank(k).step[i].status = "pending"
    BY DEF Blank, NewStep
  <2> QED BY <2>1, <2>2, <2>3
<1>2. NoHandoff \in HandRow /\ NoHandoff.status = "absent" /\ "absent" \in ActionStatus
  BY DEF NoHandoff, HandRow, HandoffStatus, ActionStatus
<1>3. claims \in 0..MaxClaims /\ time \in Nat
  BY BoundAssumption
<1>4. HandoffType(NoHandoff)
  BY <1>3 DEF HandoffType, NoHandoff
<1>5. TableTypes(run, handoff, action, owed)
  <2>1. \A k \in Key : /\ handoff[k] \in [Steps(k) -> HandRow]
                       /\ action[k] \in [Steps(k) -> ActionStatus]
    BY <1>1, <1>2
  <2>2. DOMAIN run = Key /\ DOMAIN handoff = Key /\ DOMAIN action = Key /\ DOMAIN owed = Key
    OBVIOUS
  <2> QED BY <1>1, <2>1, <2>2 DEF TableTypes
<1>6. ASSUME NEW k \in Key
      PROVE  RowSound(k, run[k]) /\ Waiting(k, run[k])
  BY <1>1 DEF RowSound, Waiting
<1>7. ASSUME NEW k \in Key, NEW i \in Steps(k)
      PROVE  /\ handoff[k][i] = NoHandoff /\ action[k][i] = "absent"
             /\ WorkSound(Def(k, i).executor, run[k].step[i], handoff[k][i], action[k][i])
  BY <1>1, <1>2 DEF WorkSound
<1>8. Sound(run, handoff, action, owed, {})
  BY <1>1, <1>2, <1>6, <1>7 DEF Sound
<1>9. Held(handoff)
  BY <1>3, <1>4, <1>7 DEF Held
<1>10. Reading(outbox)
  BY <1>1, <1>3 DEF Reading
<1>11. Told(run, outbox)
  BY <1>1 DEF Told, ToldTruly, Terminal, EndStatus
<1> QED
  BY <1>5, <1>8, <1>9, <1>10, <1>11 DEF EngineInv

\* What keeps the tables and the rows of one step's work sound keeps them all.
LEMMA OneWork ==
    ASSUME EngineInv, NEW k \in Key, NEW i \in Steps(k), NEW h \in HandRow, NEW a \in ActionStatus,
           NEW o \in {"no", "due", "lost"},
           UNCHANGED <<run, outbox, required, acked, time>>,
           DOMAIN handoff' = Key, DOMAIN action' = Key, DOMAIN owed' = Key,
           \A j \in Key \ {k} : handoff'[j] = handoff[j] /\ action'[j] = action[j] /\ owed'[j] = owed[j],
           handoff'[k] = [handoff[k] EXCEPT ![i] = h],
           action'[k] = [action[k] EXCEPT ![i] = a],
           owed'[k] = o,
           claims' \in claims..MaxClaims,
           HandoffType(h)', WorkSound(Def(k, i).executor, run[k].step[i], h, a),
           (h.status = "absent") = (handoff[k][i].status = "absent"),
           o # "no" \/ (o = owed[k] /\ (a = action[k][i] \/ run[k].step[i].status # "running"))
    PROVE  EngineInv'
<1>1. /\ TableTypes(run, handoff, action, owed)
      /\ Sound(run, handoff, action, owed, {})
      /\ Held(handoff) /\ Reading(outbox) /\ Told(run, outbox)
  BY DEF EngineInv
<1>2. /\ DOMAIN handoff = Key /\ DOMAIN action = Key /\ DOMAIN owed = Key /\ DOMAIN run = Key
      /\ \A j \in Key : /\ handoff[j] \in [Steps(j) -> HandRow] /\ action[j] \in [Steps(j) -> ActionStatus]
                        /\ run[j] \in RowOf(j) /\ owed[j] \in {"no", "due", "lost"}
  BY <1>1 DEF TableTypes
<1>3. /\ DOMAIN handoff' = Key /\ DOMAIN action' = Key /\ DOMAIN owed' = Key
      /\ \A j \in Key \ {k} : handoff'[j] = handoff[j] /\ action'[j] = action[j] /\ owed'[j] = owed[j]
      /\ handoff'[k] = [handoff[k] EXCEPT ![i] = h] /\ action'[k] = [action[k] EXCEPT ![i] = a] /\ owed'[k] = o
  OBVIOUS
<1>4. /\ handoff'[k] \in [Steps(k) -> HandRow] /\ action'[k] \in [Steps(k) -> ActionStatus]
      /\ handoff'[k][i] = h /\ action'[k][i] = a
      /\ \A x \in Steps(k) \ {i} : handoff'[k][x] = handoff[k][x] /\ action'[k][x] = action[k][x]
  BY <1>2, <1>3
<1>5. TableTypes(run', handoff', action', owed')
  <2>1. run' = run
    OBVIOUS
  <2>2. \A j \in Key : /\ handoff'[j] \in [Steps(j) -> HandRow] /\ action'[j] \in [Steps(j) -> ActionStatus]
                       /\ owed'[j] \in {"no", "due", "lost"}
    BY <1>2, <1>3, <1>4
  <2> HIDE DEF HandRow
  <2> QED BY <1>2, <1>3, <2>1, <2>2 DEF TableTypes
<1>6. ASSUME NEW j \in Key, NEW x \in Steps(j)
      PROVE  /\ WorkSound(Def(j, x).executor, run[j].step[x], handoff'[j][x], action'[j][x])
             /\ handoff'[j][x].status # "absent" => \A d \in Def(j, x).deps : run[j].step[d].status \in Settled
             /\ run[j].step[x].status = "running" /\ Def(j, x).executor = "action" =>
                    action'[j][x] = "pending" \/ owed'[j] # "no"
  <2>1. /\ WorkSound(Def(j, x).executor, run[j].step[x], handoff[j][x], action[j][x])
        /\ handoff[j][x].status # "absent" => \A d \in Def(j, x).deps : run[j].step[d].status \in Settled
        /\ run[j].step[x].status = "running" /\ Def(j, x).executor = "action" =>
               action[j][x] = "pending" \/ owed[j] # "no"
    BY <1>1 DEF Sound
  <2>2. CASE j # k
    BY <1>3, <2>1, <2>2
  <2>3. CASE j = k /\ x # i
    BY <1>3, <1>4, <2>1, <2>3
  <2>4. CASE j = k /\ x = i
    BY <1>3, <1>4, <2>1, <2>4
  <2> QED BY <2>2, <2>3, <2>4
<1>7. Sound(run', handoff', action', owed', {})
  <2>1. run' = run
    OBVIOUS
  <2>2. ASSUME NEW j \in Key
        PROVE  /\ RowSound(j, run[j]) /\ Waiting(j, run[j])
               /\ \A x \in Steps(j) :
                      /\ run[j].step[x].status = "completed" /\ Def(j, x).executor = "sop" =>
                             run[Child[j][x]].status = "completed"
                      /\ run[j].step[x].status = "running" /\ Def(j, x).executor = "sop" =>
                             Live(run[Child[j][x]])
    BY <1>1 DEF Sound
  <2> QED BY <1>6, <2>1, <2>2 DEF Sound
<1>8. claims \in Nat /\ claims' \in 0..MaxClaims /\ claims <= claims'
  BY <1>1, BoundAssumption DEF Held
<1>9. Held(handoff)'
  <2>1. ASSUME NEW j \in Key, NEW x \in Steps(j) PROVE HandoffType(handoff[j][x])'
    <3>1. HandoffType(handoff[j][x])
      BY <1>1 DEF Held
    <3>2. CASE j = k /\ x = i
      <4>1. handoff'[j][x] = h
        BY <1>4, <3>2
      <4> QED BY <4>1 DEF HandoffType
    <3>3. CASE handoff'[j][x] = handoff[j][x]
      BY <1>8, <3>1, <3>3 DEF HandoffType
    <3> QED BY <1>3, <1>4, <3>2, <3>3
  <2> QED BY <1>8, <2>1 DEF Held
<1>10. Reading(outbox)'
  BY <1>1 DEF Reading, Readers
<1>11. Told(run', outbox')
  BY <1>1
<1> QED
  BY <1>5, <1>7, <1>9, <1>10, <1>11 DEF EngineInv

\* The rows of the work of a step, and what is sound of them.
LEMMA WorkOf ==
    ASSUME EngineInv, NEW k \in Key, NEW i \in Steps(k)
    PROVE  /\ DOMAIN handoff = Key /\ DOMAIN action = Key /\ DOMAIN owed = Key
           /\ handoff[k] \in [Steps(k) -> HandRow] /\ action[k] \in [Steps(k) -> ActionStatus]
           /\ handoff[k][i] \in HandRow /\ action[k][i] \in ActionStatus /\ owed[k] \in {"no", "due", "lost"}
           /\ claims \in 0..MaxClaims /\ MaxClaims \in Nat
           /\ HandoffType(handoff[k][i])
           /\ WorkSound(Def(k, i).executor, run[k].step[i], handoff[k][i], action[k][i])
           /\ run[k].step[i].status = "running" => Live(run[k])
           /\ action[k] = [action[k] EXCEPT ![i] = action[k][i]]
           /\ handoff[k] = [handoff[k] EXCEPT ![i] = handoff[k][i]]
<1>1. /\ TableTypes(run, handoff, action, owed)
      /\ Sound(run, handoff, action, owed, {})
      /\ Held(handoff)
  BY DEF EngineInv
<1>2. /\ DOMAIN handoff = Key /\ DOMAIN action = Key /\ DOMAIN owed = Key
      /\ handoff[k] \in [Steps(k) -> HandRow] /\ action[k] \in [Steps(k) -> ActionStatus]
      /\ owed[k] \in {"no", "due", "lost"}
  BY <1>1 DEF TableTypes
<1>3. claims \in 0..MaxClaims /\ MaxClaims \in Nat /\ HandoffType(handoff[k][i])
  BY <1>1, BoundAssumption DEF Held
<1>4. /\ WorkSound(Def(k, i).executor, run[k].step[i], handoff[k][i], action[k][i])
      /\ run[k].step[i].status = "running" => Live(run[k])
  BY <1>1 DEF Sound, RowSound
<1> QED
  BY <1>2, <1>3, <1>4

\* A claim, a lease that runs out, a handoff that is given back: the handoff
\* is open before and after.
LEMMA LeaseKeeps ==
    ASSUME EngineInv, NEW k \in Key, NEW i \in Steps(k), NEW token,
           HandoffClaim(k, i) \/ LeaseRunsOut(k, i) \/ HandoffRelease(k, i, token)
    PROVE  EngineInv'
<1> DEFINE h == handoff[k][i]
           h2 == handoff'[k][i]
<1>1. /\ DOMAIN handoff = Key /\ DOMAIN action = Key /\ DOMAIN owed = Key
      /\ handoff[k] \in [Steps(k) -> HandRow] /\ action[k] \in [Steps(k) -> ActionStatus]
      /\ h \in HandRow /\ action[k][i] \in ActionStatus /\ owed[k] \in {"no", "due", "lost"}
      /\ claims \in 0..MaxClaims /\ MaxClaims \in Nat
      /\ HandoffType(h)
      /\ WorkSound(Def(k, i).executor, run[k].step[i], h, action[k][i])
      /\ action[k] = [action[k] EXCEPT ![i] = action[k][i]]
  BY WorkOf
<1>2. /\ UNCHANGED <<run, action, owed, outbox, required, acked, time>>
      /\ h.status \in {"pending", "leased"}
      /\ claims' \in claims..MaxClaims
      /\ \E x \in HandRow : /\ handoff' = [handoff EXCEPT ![k][i] = x]
                            /\ x.status \in {"pending", "leased"}
                            /\ x.token \in 0..claims'
                            /\ x.live => x.status = "leased"
  <2>1. CASE HandoffClaim(k, i)
    <3> DEFINE x == [status |-> "leased", token |-> claims + 1, live |-> TRUE]
    <3>1. x \in HandRow /\ claims + 1 \in claims..MaxClaims
      BY <1>1, <2>1 DEF HandoffClaim, HandRow, HandoffStatus
    <3>2. x.status = "leased" /\ x.token = claims + 1 /\ claims + 1 \in 0..(claims + 1)
      BY <1>1
    <3>3. handoff' = [handoff EXCEPT ![k][i] = x] /\ claims' = claims + 1
      BY <2>1 DEF HandoffClaim
    <3>4. /\ UNCHANGED <<run, action, owed, outbox, required, acked, time>>
          /\ h.status \in {"pending", "leased"}
      BY <2>1 DEF HandoffClaim
    <3> HIDE DEF x
    <3> QED BY <3>1, <3>2, <3>3, <3>4
  <2>2. CASE LeaseRunsOut(k, i) \/ HandoffRelease(k, i, token)
    <3> DEFINE to == IF LeaseRunsOut(k, i) THEN "leased" ELSE "pending"
               x == [h EXCEPT !.status = to, !.live = FALSE]
    <3>1. h.status = "leased" /\ claims' = claims /\ UNCHANGED <<run, action, owed, outbox, required, acked, time>>
      BY <2>2 DEF LeaseRunsOut, HandoffRelease, RequireLease
    <3>2. /\ x \in HandRow /\ x.status \in {"pending", "leased"} /\ x.live = FALSE /\ x.token = h.token
      BY <1>1 DEF HandRow, HandoffStatus
    <3>3. handoff' = [handoff EXCEPT ![k][i] = x]
      <4>1. CASE LeaseRunsOut(k, i)
        <5>1. x = [h EXCEPT !.live = FALSE]
          BY <1>1, <3>1, <4>1 DEF HandRow
        <5>2. handoff' = [handoff EXCEPT ![k][i].live = FALSE]
          BY <4>1 DEF LeaseRunsOut
        <5> QED BY <5>1, <5>2
      <4>2. CASE ~LeaseRunsOut(k, i)
        <5>1. handoff' = [handoff EXCEPT ![k][i].status = "pending", ![k][i].live = FALSE]
          BY <2>2, <4>2 DEF HandoffRelease
        <5>2. x = [h EXCEPT !.status = "pending", !.live = FALSE]
          BY <4>2
        <5> QED BY <1>1, <5>1, <5>2
      <4> QED BY <4>1, <4>2
    <3>4. h.token \in 0..claims /\ claims \in claims..MaxClaims
      BY <1>1 DEF HandoffType
    <3> HIDE DEF x
    <3> QED BY <3>1, <3>2, <3>3, <3>4
  <2> QED BY <2>1, <2>2
<1>3. PICK x \in HandRow : /\ handoff' = [handoff EXCEPT ![k][i] = x]
                           /\ x.status \in {"pending", "leased"}
                           /\ x.token \in 0..claims'
                           /\ x.live => x.status = "leased"
  BY <1>2
<1>4. HandoffType(x)'
  BY <1>3 DEF HandoffType, HandRow
<1>5. WorkSound(Def(k, i).executor, run[k].step[i], x, action[k][i])
  BY <1>1, <1>2, <1>3 DEF WorkSound
<1>6. /\ DOMAIN handoff' = Key /\ DOMAIN action' = Key /\ DOMAIN owed' = Key
      /\ \A j \in Key \ {k} : handoff'[j] = handoff[j] /\ action'[j] = action[j] /\ owed'[j] = owed[j]
      /\ handoff'[k] = [handoff[k] EXCEPT ![i] = x]
      /\ action'[k] = [action[k] EXCEPT ![i] = action[k][i]]
      /\ owed'[k] = owed[k]
  BY <1>1, <1>2, <1>3
<1>7. (x.status = "absent") = (h.status = "absent")
  BY <1>2, <1>3
<1>8. UNCHANGED <<run, outbox, required, acked, time>> /\ claims' \in claims..MaxClaims
  BY <1>2
<1> QED
  <2> PICK a, o : a = action[k][i] /\ o = owed[k]
    OBVIOUS
  <2>1. a \in ActionStatus /\ o \in {"no", "due", "lost"}
    BY <1>1
  <2>2. /\ handoff'[k] = [handoff[k] EXCEPT ![i] = x]
        /\ action'[k] = [action[k] EXCEPT ![i] = a]
        /\ owed'[k] = o
    BY <1>6
  <2>3. WorkSound(Def(k, i).executor, run[k].step[i], x, a)
    BY <1>5
  <2> QED BY <1>4, <1>6, <1>7, <1>8, <2>1, <2>2, <2>3, OneWork

\* The receipt of an action.
LEMMA ActionReceiptKeeps ==
    ASSUME EngineInv, NEW k \in Key, NEW i \in Steps(k), NEW outcome \in {"completed", "failed", "unfit"},
           ActionReceipt(k, i, outcome)
    PROVE  EngineInv'
<1> DEFINE late == action[k][i] = "cancelled" /\ run[k].status = "cancelled"
           o == IF late THEN owed[k] ELSE "due"
           h == handoff[k][i]
           s == run[k].step[i]
<1>1. /\ DOMAIN handoff = Key /\ DOMAIN action = Key /\ DOMAIN owed = Key
      /\ h \in HandRow /\ action[k][i] \in ActionStatus /\ owed[k] \in {"no", "due", "lost"}
      /\ claims \in 0..MaxClaims /\ MaxClaims \in Nat
      /\ HandoffType(h)
      /\ WorkSound(Def(k, i).executor, s, h, action[k][i])
      /\ s.status = "running" => Live(run[k])
      /\ handoff[k] = [handoff[k] EXCEPT ![i] = h]
  BY WorkOf
<1>2. /\ action[k][i] = "pending" \/ late
      /\ action' = [action EXCEPT ![k][i] = outcome]
      /\ owed' = [owed EXCEPT ![k] = o]
      /\ UNCHANGED <<run, handoff, outbox, required, acked, claims, time>>
  BY DEF ActionReceipt
<1>3. o \in {"no", "due", "lost"} /\ outcome \in ActionStatus
  BY <1>1 DEF ActionStatus
<1>4. WorkSound(Def(k, i).executor, s, h, outcome)
  BY <1>1, <1>2 DEF WorkSound, Fresh
<1>5. o # "no" \/ (o = owed[k] /\ s.status # "running")
  BY <1>1, <1>2 DEF Live, EndStatus
<1>6. /\ DOMAIN handoff' = Key /\ DOMAIN action' = Key /\ DOMAIN owed' = Key
      /\ \A j \in Key \ {k} : handoff'[j] = handoff[j] /\ action'[j] = action[j] /\ owed'[j] = owed[j]
      /\ handoff'[k] = [handoff[k] EXCEPT ![i] = h]
      /\ action'[k] = [action[k] EXCEPT ![i] = outcome]
      /\ owed'[k] = o
  BY <1>1, <1>2
<1>7. UNCHANGED <<run, outbox, required, acked, time>> /\ claims' \in claims..MaxClaims
  BY <1>1, <1>2
<1> QED
  <2> PICK y : y = h
    OBVIOUS
  <2>1. HandoffType(y)'
    <3>1. handoff'[k][i] = y /\ claims' = claims
      BY <1>2
    <3> QED BY <1>1, <3>1 DEF HandoffType
  <2> HIDE DEF o
  <2> QED BY <1>1, <1>3, <1>4, <1>5, <1>6, <1>7, <2>1, OneWork

\* The second transaction of an action is not seen.
LEMMA ReconcileLostKeeps ==
    ASSUME EngineInv, NEW k \in Key, ActionReconcileLost(k)
    PROVE  EngineInv'
<1>1. /\ TableTypes(run, handoff, action, owed)
      /\ Sound(run, handoff, action, owed, {})
      /\ Held(handoff) /\ Reading(outbox) /\ Told(run, outbox)
  BY DEF EngineInv
<1>2. /\ owed[k] = "due" /\ owed' = [owed EXCEPT ![k] = "lost"]
      /\ UNCHANGED <<run, handoff, action, outbox, required, acked, claims, time>>
  BY DEF ActionReconcileLost
<1>3. /\ DOMAIN owed' = Key
      /\ \A j \in Key : owed'[j] \in {"no", "due", "lost"} /\ (owed[j] # "no" => owed'[j] # "no")
  BY <1>1, <1>2 DEF TableTypes
<1>4. TableTypes(run', handoff', action', owed')
  BY <1>1, <1>2, <1>3 DEF TableTypes
<1>5. Sound(run', handoff', action', owed', {})
  <2>1. Sound(run, handoff, action, owed', {})
    BY <1>1, <1>3 DEF Sound
  <2> QED BY <1>2, <2>1
<1>6. Held(handoff)'
  BY <1>1, <1>2 DEF Held, HandoffType
<1>7. Reading(outbox)'
  BY <1>1, <1>2 DEF Reading, Readers
<1>8. Told(run', outbox')
  BY <1>1, <1>2
<1> QED
  BY <1>4, <1>5, <1>6, <1>7, <1>8 DEF EngineInv

\* Registration, acknowledgement and compaction leave the runs alone, and
\* take away only what was read.
LEMMA OutboxKeeps ==
    ASSUME EngineInv, OutboxNext
    PROVE  EngineInv'
<1>1. /\ TableTypes(run, handoff, action, owed)
      /\ Sound(run, handoff, action, owed, {})
      /\ Held(handoff) /\ Reading(outbox) /\ Told(run, outbox)
  BY DEF EngineInv
<1>2. UNCHANGED <<run, handoff, action, owed, claims, time>>
  BY DEF OutboxNext, OutboxConsumerRegister, OutboxAck, OutboxCompact
<1>3. TableTypes(run', handoff', action', owed') /\ Sound(run', handoff', action', owed', {})
  BY <1>1, <1>2
<1>4. Held(handoff)'
  BY <1>1, <1>2 DEF Held, HandoffType
<1>5. Reading(outbox)' /\ Told(run', outbox')
  <2>1. /\ time \in Nat /\ outbox \in [Key -> Event \cup {None}]
        /\ required \in [Consumer -> Nat \cup {None}] /\ acked \in [Key -> SUBSET Consumer]
        /\ \A c \in Consumer : required[c] = None \/ required[c] \in 0..(time + 1)
        /\ \A k \in Key :
               /\ outbox[k] # None => outbox[k].at \in 1..time
               /\ acked[k] # {} => outbox[k] # None
               /\ outbox[k] # None /\ outbox[k].compacted =>
                      Readers(outbox[k]) # {} /\ Readers(outbox[k]) \subseteq acked[k]
    BY <1>1 DEF Reading
  <2>2. ASSUME NEW c \in Consumer, NEW start \in {0, time + 1}, OutboxConsumerRegister(c, start)
        PROVE  Reading(outbox)' /\ Told(run', outbox')
    <3>1. /\ required[c] = None /\ required' = [required EXCEPT ![c] = start]
          /\ \A k \in Key : outbox[k] # None /\ outbox[k].at >= start => ~outbox[k].compacted
          /\ UNCHANGED <<outbox, acked, time>>
      BY <2>2 DEF OutboxConsumerRegister
    <3>2. start \in Nat /\ start \in 0..(time + 1)
      BY <2>1
    <3>3. required' \in [Consumer -> Nat \cup {None}]
      BY <2>1, <3>1, <3>2
    <3>4. \A x \in Consumer : required'[x] = None \/ required'[x] \in 0..(time + 1)
      BY <2>1, <3>1, <3>2
    <3>5. ASSUME NEW k \in Key, outbox[k] # None, outbox[k].compacted
          PROVE  Readers(outbox[k])' = Readers(outbox[k])
      <4>1. ~(start <= outbox[k].at)
        <5>1. outbox[k].at \in 1..time
          BY <2>1, <3>5
        <5> QED BY <2>1, <3>1, <3>2, <3>5, <5>1
      <4>2. \A x \in Consumer : x # c => required'[x] = required[x]
        BY <2>1, <3>1
      <4>3. required'[c] = start
        BY <2>1, <3>1
      <4>4. \A x \in Consumer : (required'[x] # None /\ required'[x] <= outbox[k].at)
                            <=> (required[x] # None /\ required[x] <= outbox[k].at)
        BY <3>1, <4>1, <4>2, <4>3
      <4>5. outbox' = outbox
        BY <3>1
      <4> QED BY <4>4, <4>5 DEF Readers
    <3>6. Reading(outbox)'
      <4>1. outbox' = outbox /\ acked' = acked /\ time' = time
        BY <3>1
      <4>2. ASSUME NEW k \in Key, outbox[k] # None, outbox[k].compacted
            PROVE  Readers(outbox[k])' # {} /\ Readers(outbox[k])' \subseteq acked[k]
        BY <2>1, <3>5, <4>2
      <4> QED BY <2>1, <3>3, <3>4, <4>1, <4>2 DEF Reading
    <3> QED BY <1>1, <1>2, <3>1, <3>6
  <2>3. ASSUME NEW k \in Key, NEW c \in Consumer, OutboxAck(k, c)
        PROVE  Reading(outbox)' /\ Told(run', outbox')
    <3>1. /\ outbox[k] # None /\ acked' = [acked EXCEPT ![k] = @ \cup {c}]
          /\ UNCHANGED <<outbox, required, time>>
      BY <2>3 DEF OutboxAck
    <3>2. /\ acked' \in [Key -> SUBSET Consumer]
          /\ \A j \in Key : acked[j] \subseteq acked'[j] /\ (acked'[j] # {} => outbox[j] # None)
      BY <2>1, <3>1
    <3>3. \A j \in Key : Readers(outbox[j])' = Readers(outbox[j])
      BY <3>1 DEF Readers
    <3>4. Reading(outbox)'
      <4>1. outbox' = outbox /\ required' = required /\ time' = time
        BY <3>1
      <4> QED BY <2>1, <3>2, <3>3, <4>1 DEF Reading
    <3> QED BY <1>1, <1>2, <3>1, <3>4
  <2>4. ASSUME NEW before, OutboxCompact(before)
        PROVE  Reading(outbox)' /\ Told(run', outbox')
    <3>1. /\ outbox' = [k \in Key |-> IF Compactable(k, before)
                                      THEN [outbox[k] EXCEPT !.compacted = TRUE] ELSE outbox[k]]
          /\ UNCHANGED <<required, acked, time>>
      BY <2>4 DEF OutboxCompact
    <3>2. ASSUME NEW k \in Key
          PROVE  /\ outbox'[k] \in Event \cup {None}
                 /\ outbox'[k] = None <=> outbox[k] = None
                 /\ outbox[k] # None => outbox'[k].outcome = outbox[k].outcome /\ outbox'[k].at = outbox[k].at
                 /\ outbox'[k] # None /\ outbox'[k].compacted =>
                        Readers(outbox[k]) # {} /\ Readers(outbox[k]) \subseteq acked[k]
      <4>1. CASE Compactable(k, before)
        <5>1. /\ outbox[k] \in Event /\ outbox[k] # None
              /\ Readers(outbox[k]) # {} /\ Readers(outbox[k]) \subseteq acked[k]
          BY <2>1, <4>1 DEF Compactable
        <5>2. outbox'[k] = [outbox[k] EXCEPT !.compacted = TRUE]
          BY <3>1, <4>1
        <5>3. /\ outbox'[k] \in Event
              /\ outbox'[k].outcome = outbox[k].outcome /\ outbox'[k].at = outbox[k].at
          BY <5>1, <5>2 DEF Event
        <5>4. outbox'[k] # None
          BY <5>3, NoneAssumption
        <5> QED BY <5>1, <5>3, <5>4
      <4>2. CASE ~Compactable(k, before)
        <5>1. outbox'[k] = outbox[k] /\ outbox[k] \in Event \cup {None}
          BY <2>1, <3>1, <4>2
        <5> QED BY <2>1, <5>1
      <4> QED BY <4>1, <4>2
    <3>3. outbox' \in [Key -> Event \cup {None}]
      BY <3>1, <3>2
    <3>4. \A k \in Key : outbox[k] # None => Readers(outbox[k])' = Readers(outbox[k])
      <4> SUFFICES ASSUME NEW k \in Key, outbox[k] # None PROVE Readers(outbox[k])' = Readers(outbox[k])
        OBVIOUS
      <4>1. outbox'[k].at = outbox[k].at /\ required' = required
        BY <3>1, <3>2
      <4> QED BY <4>1 DEF Readers
    <3>5. Reading(outbox)'
      <4>1. required' = required /\ acked' = acked /\ time' = time
        BY <3>1
      <4>2. ASSUME NEW k \in Key
            PROVE  /\ outbox'[k] # None => outbox'[k].at \in 1..time
                   /\ acked[k] # {} => outbox'[k] # None
                   /\ outbox'[k] # None /\ outbox'[k].compacted =>
                          Readers(outbox[k])' # {} /\ Readers(outbox[k])' \subseteq acked[k]
        BY <2>1, <3>2, <3>4
      <4> QED BY <2>1, <3>3, <4>1, <4>2 DEF Reading
    <3>6. Told(run', outbox')
      <4>1. ASSUME NEW k \in Key
            PROVE  /\ outbox'[k] # None => Terminal(run[k]) /\ outbox'[k].outcome = run[k].status
                   /\ Terminal(run[k]) => outbox'[k] # None
        BY <1>1, <3>2 DEF Told, ToldTruly
      <4> QED BY <1>2, <4>1 DEF Told, ToldTruly
    <3> QED BY <3>5, <3>6
  <2> QED BY <2>2, <2>3, <2>4 DEF OutboxNext
<1> QED
  BY <1>3, <1>4, <1>5 DEF EngineInv

\* Nothing happens.
LEMMA StutterKeeps ==
    ASSUME EngineInv, UNCHANGED engineVars
    PROVE  EngineInv'
<1>1. UNCHANGED <<run, handoff, action, outbox, required, acked, owed, claims, time>>
  BY DEF engineVars
<1>2. /\ TableTypes(run, handoff, action, owed)
      /\ Sound(run, handoff, action, owed, {})
      /\ Held(handoff) /\ Reading(outbox) /\ Told(run, outbox)
  BY DEF EngineInv
<1>3. Held(handoff)' /\ Reading(outbox)'
  BY <1>1, <1>2 DEF Held, HandoffType, Reading, Readers
<1> QED
  BY <1>1, <1>2, <1>3 DEF EngineInv

\* EngineInv is inductive.
LEMMA NextKeeps ==
    ASSUME EngineInv, [Next]_engineVars
    PROVE  EngineInv'
<1>1. ASSUME NEW k \in Key, RunStart(k) \/ RunRefresh(k) \/ RunCancel(k) PROVE EngineInv'
  BY <1>1, RunStartKeeps, RefreshKeeps, RunCancelKeeps
<1>2. ASSUME NEW k \in Key, NEW i \in Steps(k),
             HandoffClaim(k, i) \/ LeaseRunsOut(k, i) \/ HandoffRetry(k, i) \/ HandoffRetryAsNewRun(k, i)
      PROVE  EngineInv'
  BY <1>2, LeaseKeeps, HandoffRetryKeeps, RetryAsNewRunKeeps
<1>3. ASSUME NEW k \in Key, NEW i \in Steps(k), NEW token, HandoffRelease(k, i, token) PROVE EngineInv'
  BY <1>3, LeaseKeeps
<1>4. ASSUME NEW k \in Key, NEW i \in Steps(k), NEW token, NEW outcome \in {"completed", "failed"},
             RunAdvance(k, i, token, outcome)
      PROVE  EngineInv'
  BY <1>4, RunAdvanceKeeps
<1>5. ASSUME NEW k \in Key, NEW i \in Steps(k), NEW outcome \in {"completed", "failed", "unfit"},
             ActionReceipt(k, i, outcome)
      PROVE  EngineInv'
  BY <1>5, ActionReceiptKeeps
<1>6. ASSUME NEW k \in Key, ActionReconcile(k) \/ ActionReconcileLost(k) PROVE EngineInv'
  BY <1>6, RefreshKeeps, ReconcileLostKeeps
<1>7. CASE UNCHANGED engineVars
  BY <1>7, StutterKeeps
<1>8. CASE OutboxNext
  BY <1>8, OutboxKeeps
<1>9. CASE RunNext
  BY <1>1, <1>9 DEF RunNext
<1>10. CASE HandoffNext
  BY <1>2, <1>3, <1>4, <1>10 DEF HandoffNext
<1>11. CASE ActionNext
  BY <1>5, <1>6, <1>11 DEF ActionNext
<1> QED
  BY <1>7, <1>8, <1>9, <1>10, <1>11 DEF Next

\* The state of the engine is always sound.
THEOREM EngineIsSound == EngineSpec => []EngineInv
<1>1. Init => EngineInv
  BY InitSound
<1>2. EngineInv /\ [Next]_engineVars => EngineInv'
  BY NextKeeps
<1> QED
  BY <1>1, <1>2, PTL DEF EngineSpec

-----------------------------------------------------------------------------
(* The properties *)

\* A run's rows are of their types (EngineTypeOK).
THEOREM EngineTypes == EngineSpec => []EngineTypeOK
<1>1. ASSUME EngineInv PROVE EngineTypeOK
  <2>1. /\ TableTypes(run, handoff, action, owed) /\ Held(handoff) /\ Reading(outbox)
    BY <1>1 DEF EngineInv
  <2>2. ASSUME NEW k \in Key, NEW i \in Steps(k)
        PROVE  /\ StepType(run[k].step[i]) /\ HandoffType(handoff[k][i])
               /\ action[k][i] \in {"absent", "pending", "completed", "failed", "unfit", "cancelled"}
    <3>1. run[k].step[i] \in StepRow /\ action[k][i] \in ActionStatus
      BY <2>1 DEF TableTypes, RowOf
    <3> QED BY <2>1, <3>1 DEF Held, StepRow, StepType, ActionStatus
  <2>3. ASSUME NEW k \in Key
        PROVE  /\ run[k].status \in RunStatus /\ EventType(outbox[k])
               /\ acked[k] \subseteq Consumer /\ owed[k] \in {"no", "due", "lost"}
    <3>1. /\ run[k] \in RowOf(k) /\ owed[k] \in {"no", "due", "lost"}
          /\ outbox[k] \in Event \cup {None} /\ (outbox[k] # None => outbox[k].at \in 1..time)
          /\ acked[k] \subseteq Consumer
      BY <2>1 DEF TableTypes, Reading
    <3> QED BY <3>1 DEF RowOf, EventType, Event
  <2>4. /\ \A c \in Consumer : required[c] = None \/ required[c] \in 0..(time + 1)
        /\ claims \in 0..MaxClaims /\ time \in Nat
    BY <2>1 DEF Held, Reading
  <2> QED BY <2>2, <2>3, <2>4 DEF EngineTypeOK
<1> QED
  BY <1>1, EngineIsSound, PTL

\* sop_handoff_retry and reconcile_run keep a template's order: nothing runs
\* before what it depends on is settled.
THEOREM OrderOfSteps == EngineSpec => []DependencyOrder
<1>1. ASSUME EngineInv PROVE DependencyOrder
  BY <1>1 DEF EngineInv, Sound, RowSound, DependencyOrder
<1> QED
  BY <1>1, EngineIsSound, PTL

\* No handoff can be claimed and no action dispatched for a run that is over
\* or a step that does not wait for it.
THEOREM OpenWork == EngineSpec => []OpenWorkIsWanted
<1>1. ASSUME EngineInv PROVE OpenWorkIsWanted
  BY <1>1 DEF EngineInv, Sound, RowSound, WorkSound, OpenWorkIsWanted
<1> QED
  BY <1>1, EngineIsSound, PTL

\* What a completed step stands on is never taken back.
THEOREM StepsAreBacked == EngineSpec => []CompletedIsBacked
<1>1. ASSUME EngineInv PROVE CompletedIsBacked
  <2> SUFFICES ASSUME NEW k \in Key, NEW i \in Steps(k), run[k].step[i].status = "completed"
               PROVE  CASE Def(k, i).executor \in Manual -> handoff[k][i].status = "completed"
                        [] Def(k, i).executor = "action" -> action[k][i] = "completed"
                        [] Def(k, i).executor = "sop"    -> run[Child[k][i]].status = "completed"
                        [] OTHER                         -> TRUE
    BY DEF CompletedIsBacked
  <2>1. /\ WorkSound(Def(k, i).executor, run[k].step[i], handoff[k][i], action[k][i])
        /\ Def(k, i).executor = "sop" => run[Child[k][i]].status = "completed"
    BY <1>1 DEF EngineInv, Sound
  <2> QED BY <2>1 DEF WorkSound, Manual
<1> QED
  BY <1>1, EngineIsSound, PTL

\* No lost wake-up: a run that is not over waits for something still to come.
THEOREM NoLostWakeUp == EngineSpec => []WaitsForSomething
<1>1. ASSUME EngineInv PROVE WaitsForSomething
  <2> SUFFICES ASSUME NEW k \in Key, run[k].status \in {"running", "awaiting_confirmation"}
               PROVE  /\ \E i \in Steps(k) : run[k].step[i].status = "running"
                      /\ \A i \in Steps(k) :
                             /\ run[k].step[i].status = "running" => StillOpen(k, i)
                             /\ run[k].step[i].status = "pending" => StillBlocked(k, i)
    BY DEF WaitsForSomething
  <2>1. Waiting(k, run[k]) /\ RowSound(k, run[k])
    BY <1>1 DEF EngineInv, Sound
  <2>2. ASSUME NEW i \in Steps(k), run[k].step[i].status = "running" PROVE StillOpen(k, i)
    <3>1. /\ WorkSound(Def(k, i).executor, run[k].step[i], handoff[k][i], action[k][i])
          /\ Def(k, i).executor = "action" => action[k][i] = "pending" \/ owed[k] # "no"
          /\ Def(k, i).executor = "sop" => Live(run[Child[k][i]])
      BY <1>1, <2>2 DEF EngineInv, Sound
    <3>2. Def(k, i).executor \in Executor /\ Def(k, i).executor # "engine"
      BY <2>1, <2>2, StepsOrdered DEF RowSound
    <3> QED BY <2>2, <3>1, <3>2 DEF StillOpen, WorkSound, Executor, Manual
  <2>3. ASSUME NEW i \in Steps(k), run[k].step[i].status = "pending" PROVE StillBlocked(k, i)
    BY <2>1, <2>3 DEF Waiting, StillBlocked
  <2>4. \E i \in Steps(k) : run[k].step[i].status = "running"
    BY <2>1 DEF Waiting
  <2> QED BY <2>2, <2>3, <2>4
<1> QED
  BY <1>1, EngineIsSound, PTL

\* A terminal event's payload goes only when all it was kept for have read it.
THEOREM NothingUnreadIsCompacted == EngineSpec => []CompactedWasRead
<1>1. ASSUME EngineInv PROVE CompactedWasRead
  BY <1>1 DEF EngineInv, Reading, CompactedWasRead
<1> QED
  BY <1>1, EngineIsSound, PTL

-----------------------------------------------------------------------------
(* The engine as a SopRunLife *)

\* The runs that are moved are told of together.
LEMMA MoveStep ==
    ASSUME EngineInv, EngineInv', Moved
    PROVE  RunLife!Move
<1>1. acked' = acked /\ \A k \in Key : /\ RunLife!Course(StageOf(run[k]), StageOf(run'[k]))
                                       /\ acked[k] # {} => StageOf(run'[k]) = StageOf(run[k])
  BY DEF Moved, Moves
<1>2. Told(run', outbox')
  BY DEF EngineInv
<1>3. ASSUME NEW k \in Key
      PROVE  (IF outbox'[k] = None THEN None ELSE outbox'[k].outcome) = RunLife!ToldOf(StageOf(run'[k]))
  <2>1. /\ outbox'[k] # None <=> Terminal(run'[k])
        /\ outbox'[k] # None => outbox'[k].outcome = run'[k].status
    BY <1>2 DEF Told, ToldTruly
  <2> QED BY <2>1 DEF RunLife!ToldOf, RunLife!Ends, StageOf, Live, Terminal, EndStatus
<1> QED
  BY <1>1, <1>3 DEF RunLife!Move, StageOf

\* An acknowledgement is of something that was told.
LEMMA AckStep ==
    ASSUME EngineInv, NEW k \in Key, NEW c \in Consumer, OutboxAck(k, c)
    PROVE  RunLife!Consume(k)
<1>1. /\ outbox[k] # None /\ acked' = [acked EXCEPT ![k] = @ \cup {c}]
      /\ run' = run /\ outbox' = outbox
  BY DEF OutboxAck
<1>2. acked \in [Key -> SUBSET Consumer] /\ outbox[k] \in Event \cup {None}
  BY DEF EngineInv, Reading
<1>3. outbox[k].outcome # None
  BY <1>1, <1>2, NoneAssumption DEF Event
<1>4. {j \in Key : acked'[j] # {}} = {j \in Key : acked[j] # {}} \cup {k}
  BY <1>1, <1>2
<1> QED
  BY <1>1, <1>3, <1>4 DEF RunLife!Consume

\* Nothing is told when no run is moved.
LEMMA QuietStep ==
    ASSUME run' = run, acked' = acked,
           \A k \in Key : /\ outbox'[k] = None <=> outbox[k] = None
                          /\ outbox[k] # None => outbox'[k].outcome = outbox[k].outcome
    PROVE  UNCHANGED RunLife!lifeVars
<1>1. [k \in Key |-> IF outbox'[k] = None THEN None ELSE outbox'[k].outcome]
      = [k \in Key |-> IF outbox[k] = None THEN None ELSE outbox[k].outcome]
  OBVIOUS
<1> QED
  BY <1>1 DEF RunLife!lifeVars

\* Every action is a step of a SopRunLife, or none.
LEMMA EngineStep ==
    ASSUME EngineInv, EngineInv', [Next]_engineVars
    PROVE  [RunLife!LifeNext]_(RunLife!lifeVars)
<1>1. ASSUME Moved PROVE RunLife!LifeNext
  BY <1>1, MoveStep DEF RunLife!LifeNext
<1>2. ASSUME UNCHANGED <<run, outbox, acked>> PROVE UNCHANGED RunLife!lifeVars
  BY <1>2, QuietStep
<1>3. CASE RunNext
  BY <1>1, <1>3, RunStartKeeps, RefreshKeeps, RunCancelKeeps DEF RunNext
<1>4. CASE HandoffNext
  <2>1. ASSUME NEW k \in Key, NEW i \in Steps(k), HandoffRetry(k, i) \/ HandoffRetryAsNewRun(k, i) PROVE Moved
    BY <2>1, HandoffRetryKeeps, RetryAsNewRunKeeps
  <2>2. ASSUME NEW k \in Key, NEW i \in Steps(k), NEW token, NEW outcome \in {"completed", "failed"},
               RunAdvance(k, i, token, outcome)
        PROVE  Moved
    BY <2>2, RunAdvanceKeeps
  <2>3. ASSUME NEW k \in Key, NEW i \in Steps(k), NEW token,
               HandoffClaim(k, i) \/ LeaseRunsOut(k, i) \/ HandoffRelease(k, i, token)
        PROVE  UNCHANGED <<run, outbox, acked>>
    BY <2>3 DEF HandoffClaim, LeaseRunsOut, HandoffRelease
  <2> QED BY <1>1, <1>2, <1>4, <2>1, <2>2, <2>3 DEF HandoffNext
<1>5. CASE ActionNext
  <2>1. ASSUME NEW k \in Key, ActionReconcile(k) PROVE Moved
    BY <2>1, RefreshKeeps
  <2>2. ASSUME NEW k \in Key, ActionReconcileLost(k) PROVE UNCHANGED <<run, outbox, acked>>
    BY <2>2 DEF ActionReconcileLost
  <2>3. ASSUME NEW k \in Key, NEW i \in Steps(k), NEW outcome, ActionReceipt(k, i, outcome)
        PROVE  UNCHANGED <<run, outbox, acked>>
    BY <2>3 DEF ActionReceipt
  <2> QED BY <1>1, <1>2, <1>5, <2>1, <2>2, <2>3 DEF ActionNext
<1>6. CASE OutboxNext
  <2>1. ASSUME NEW c \in Consumer, NEW start, OutboxConsumerRegister(c, start)
        PROVE  UNCHANGED <<run, outbox, acked>>
    BY <2>1 DEF OutboxConsumerRegister
  <2>2. ASSUME NEW k \in Key, NEW c \in Consumer, OutboxAck(k, c) PROVE RunLife!LifeNext
    BY <2>2, AckStep DEF RunLife!LifeNext
  <2>3. ASSUME NEW before, OutboxCompact(before) PROVE UNCHANGED RunLife!lifeVars
    <3>1. /\ outbox' = [k \in Key |-> IF Compactable(k, before)
                                      THEN [outbox[k] EXCEPT !.compacted = TRUE] ELSE outbox[k]]
          /\ run' = run /\ acked' = acked
      BY <2>3 DEF OutboxCompact
    <3>2. ASSUME NEW k \in Key
          PROVE  /\ outbox'[k] = None <=> outbox[k] = None
                 /\ outbox[k] # None => outbox'[k].outcome = outbox[k].outcome
      <4>1. CASE Compactable(k, before)
        <5>1. outbox[k] \in Event /\ outbox[k] # None
          BY <4>1 DEF EngineInv, Reading, Compactable
        <5>2. outbox'[k] = [outbox[k] EXCEPT !.compacted = TRUE]
          BY <3>1, <4>1
        <5>3. outbox'[k] \in Event /\ outbox'[k].outcome = outbox[k].outcome
          BY <5>1, <5>2 DEF Event
        <5> QED BY <5>1, <5>3, NoneAssumption
      <4>2. CASE ~Compactable(k, before)
        BY <3>1, <4>2
      <4> QED BY <4>1, <4>2
    <3> QED BY <3>1, <3>2, QuietStep
  <2> QED BY <1>2, <1>6, <2>1, <2>2, <2>3 DEF OutboxNext
<1>7. CASE UNCHANGED engineVars
  BY <1>2, <1>7 DEF engineVars
<1> QED
  BY <1>3, <1>4, <1>5, <1>6, <1>7 DEF Next

\* The engine keeps the promise of SopRunLife (ImplementsRunLife): what
\* sop_outbox tells of a run is how it ended, and no run that was acknowledged
\* is told of otherwise, by a retry, a cancellation or a late child.
THEOREM EngineImplementsRunLife == EngineSpec => ImplementsRunLife
<1>1. Init => RunLife!LifeInit
  BY DEF Init, RunLife!LifeInit, Blank, Live
<1>2. EngineInv /\ EngineInv' /\ [Next]_engineVars => [RunLife!LifeNext]_(RunLife!lifeVars)
  BY EngineStep
<1> QED
  BY <1>1, <1>2, EngineIsSound, PTL DEF EngineSpec, ImplementsRunLife, RunLife!Life

\* Of a run whose terminal event was acknowledged or compacted the same is
\* told ever after.
Standing ==
    \A k \in Key :
        Consumed(k) =>
            /\ outbox'[k] # None
            /\ outbox'[k].outcome = outbox[k].outcome
            /\ acked'[k] # {}

AnswerStands == [][Standing]_engineVars

\* That is what SopRunLife comes to for a reader of the outbox, as an event
\* says how its run ended and compaction waits for the readers.
LEMMA LifeStands ==
    ASSUME EngineInv, EngineInv', [RunLife!LifeNext]_(RunLife!lifeVars)
    PROVE  Standing
<1> SUFFICES ASSUME NEW k \in Key, Consumed(k)
             PROVE  /\ outbox'[k] # None
                    /\ outbox'[k].outcome = outbox[k].outcome
                    /\ acked'[k] # {}
  BY DEF Standing
<1> DEFINE told(events) == [j \in Key |-> IF events[j] = None THEN None ELSE events[j].outcome]
<1>1. /\ outbox[k] \in Event /\ outbox[k] # None /\ outbox[k].outcome # None
      /\ outbox'[k] \in Event \cup {None}
      /\ acked[k] # {}
  BY NoneAssumption DEF Consumed, EngineInv, Reading, Event
<1>2. /\ Terminal(run[k]) /\ outbox[k].outcome = run[k].status
      /\ Terminal(run'[k]) <=> outbox'[k] # None
      /\ outbox'[k] # None => outbox'[k].outcome = run'[k].status
  BY <1>1 DEF EngineInv, Told, ToldTruly
<1>3. CASE RunLife!Move
  <2>1. /\ k \in {j \in Key : acked[j] # {}}
        /\ {j \in Key : acked'[j] # {}} = {j \in Key : acked[j] # {}}
    BY <1>1, <1>3 DEF RunLife!Move
  <2>2. StageOf(run'[k]) = StageOf(run[k])
    BY <1>3, <2>1 DEF RunLife!Move, StageOf
  <2> QED BY <1>1, <1>2, <2>1, <2>2 DEF StageOf, Live, Terminal, EndStatus
<1>4. CASE (\E j \in Key : RunLife!Consume(j)) \/ UNCHANGED RunLife!lifeVars
  <2>1. told(outbox') = told(outbox)
    BY <1>4 DEF RunLife!Consume, RunLife!lifeVars
  <2>2. told(outbox')[k] = told(outbox)[k]
    BY <2>1
  <2>3. {j \in Key : acked[j] # {}} \subseteq {j \in Key : acked'[j] # {}}
    BY <1>4 DEF RunLife!Consume, RunLife!lifeVars
  <2> QED BY <1>1, <2>2, <2>3
<1> QED
  BY <1>3, <1>4 DEF RunLife!LifeNext

\* An acknowledged end stands (AnswerStands): a retry, a cancellation or a late
\* child never makes sop_outbox say something else of that run.
THEOREM AcknowledgedStands == EngineSpec => AnswerStands
<1>1. EngineInv /\ EngineInv' /\ [Next]_engineVars => [Standing]_engineVars
  BY EngineStep, LifeStands
<1> QED
  BY <1>1, EngineIsSound, PTL DEF EngineSpec, AnswerStands

=============================================================================
