----------------------------- MODULE SopEngineMC -----------------------------
(***************************************************************************)
(* One of two occurrences is started.  o1 runs `main`: an agent's handoff, *)
(* then an action and a child side by side, then an engine step.  o2 runs  *)
(* `nested`: a child whose handoff may be retried as a new run, an         *)
(* operator's handoff, and a step whose condition is false.                *)
(***************************************************************************)
EXTENDS SopEngine, TLC

CONSTANTS o1, o2, c1, c2, r1, r1c, r2, r2c, r2again

Step(executor, deps, child) == [executor |-> executor, deps |-> deps, child |-> child]

MCTemplate ==
    [main   |-> <<Step("agent", {}, "none"), Step("action", {1}, "none"),
                  Step("sop", {1}, "sub"), Step("engine", {2, 3}, "none")>>,
     nested |-> <<Step("sop", {}, "sub"), Step("operator", {1}, "none"), Step("engine", {1}, "none")>>,
     sub    |-> <<Step("agent", {}, "none")>>]

MCVerdict ==
    [o \in Occurrence |-> [s \in DOMAIN MCTemplate |-> [i \in DOMAIN MCTemplate[s] |->
        IF s = "nested" /\ i = 3 THEN "false" ELSE "true"]]]

At(kind, of, step, origin, sop) ==
    [kind |-> kind, of |-> of, step |-> step, origin |-> origin, sop |-> sop]

\* The roots, their children, and the retry of the handoff of one of these.
MCPlace ==
    [k \in Key |->
        CASE k = r1       -> At("root", o1, 0, o1, "main")
          [] k = r1c      -> At("child", r1, 3, o1, "sub")
          [] k = r2       -> At("root", o2, 0, o2, "nested")
          [] k = r2c      -> At("child", r2, 1, o2, "sub")
          [] k = r2again  -> At("retry", r2c, 1, o2, "sub")]

Symmetry == Permutations(Consumer)

=============================================================================
