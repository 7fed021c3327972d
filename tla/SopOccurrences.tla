--------------------------- MODULE SopOccurrences ---------------------------
(***************************************************************************)
(* What a SOP server shows to those who start its runs and read its        *)
(* outbox: templates, one run per occurrence, the terminal event a run      *)
(* leaves in the outbox, and the acknowledgements of that event.            *)
(*                                                                         *)
(* What goes on inside a run (steps, handoffs, actions, children) is left  *)
(* out: a live run ends at some moment with some outcome.  Each operation  *)
(* is one transaction of sop_engine or sop_authority.                      *)
(***************************************************************************)
EXTENDS Integers, FiniteSets

CONSTANTS
    RunId,       \* a set of numbers: runs are created in this order
    SopId,
    Caller,      \* who starts runs and reads the outbox: dispatcher consumer ids
    Procedure,   \* outcomes a completed procedure may report of its own
    None,
    MaxVersion,  \* bound: versions of a template
    MaxRetries   \* bound: failed handoffs retried, over all runs

VARIABLES
    template,  \* sop_templates: the latest runnable version of each SOP
    run,       \* sop_runs
    outbox,    \* sop_outbox: the terminal event of each run
    acked,     \* sop_outbox_receipts: who acknowledged the event of each run
    retries

sopVars == <<template, run, outbox, acked, retries>>

EndStatus == {"completed", "failed", "cancelled"}

\* `finishes` tells the moments a run ended apart: completed_at is part of
\* the terminal event, as its creation time and in its payload.  `waited`
\* says whether the run ever waited for somebody to take a handoff.
AbsentRun == [status |-> "absent", sop |-> None, key |-> None, by |-> None,
              version |-> 0, finishes |-> 0, waited |-> FALSE]

NewRun(status, sop, key, by, version) ==
    [status |-> status, sop |-> sop, key |-> key, by |-> by, version |-> version,
     finishes |-> IF status = "live" THEN 0 ELSE 1, waited |-> status = "live"]

Ended(row, status) == [row EXCEPT !.status = status, !.finishes = @ + 1]

\* The terminal event of a run: its status, the outcome its procedure
\* reports, and when it ended.
TerminalEvent(row, says) == [outcome |-> row.status, says |-> says, at |-> row.finishes]

\* A run that did not complete reports its status.
SaysOf(status) == {status} \cup (IF status = "completed" THEN Procedure ELSE {})

SopInit ==
    /\ template = [s \in SopId |-> 1]
    /\ run = [r \in RunId |-> AbsentRun]
    /\ outbox = [r \in RunId |-> None]
    /\ acked = [r \in RunId |-> {}]
    /\ retries = 0

SopTypeOK ==
    /\ template \in [SopId -> 1..MaxVersion]
    /\ \A r \in RunId :
           /\ run[r].status \in {"absent", "live"} \cup EndStatus
           /\ run[r].finishes \in 0..(MaxRetries + 1)
           /\ run[r].status \in EndStatus <=> outbox[r] # None
           /\ outbox[r] # None =>
                  /\ outbox[r].outcome = run[r].status
                  /\ outbox[r].at = run[r].finishes
    /\ acked \in [RunId -> SUBSET Caller]
    /\ retries \in 0..MaxRetries

-----------------------------------------------------------------------------

\* sop_template_update: a new version, which runs started from now on take.
PublishTemplate(s) ==
    /\ template[s] < MaxVersion
    /\ template' = [template EXCEPT ![s] = @ + 1]
    /\ UNCHANGED <<run, outbox, acked, retries>>

\* unique(sop_id, occurrence_key): at most one run.
OccurrenceOf(sop, key) == {r \in RunId : run[r].sop = sop /\ run[r].key = key}

Fresh ==
    {r \in RunId :
        /\ run[r].status = "absent"
        /\ \A o \in RunId : o < r => run[o].status # "absent"}

\* A new occurrence gets a run, which the reconciliation in the same
\* transaction may already bring to its end.  The caller says what becomes
\* of `retries`.
StartRun(r, sop, key, by, version) ==
    /\ r \in Fresh
    /\ OccurrenceOf(sop, key) = {}
    /\ \E status \in {"live", "completed", "failed"} :
           /\ run' = [run EXCEPT ![r] = NewRun(status, sop, key, by, version)]
           /\ IF status = "live"
              THEN UNCHANGED outbox
              ELSE \E says \in SaysOf(status) :
                       outbox' = [outbox EXCEPT ![r] = TerminalEvent(run'[r], says)]
    /\ UNCHANGED <<template, acked>>

\* The end of a run and its terminal event are one transaction.
FinishRun(r, status, says) ==
    /\ run[r].status = "live"
    /\ run' = [run EXCEPT ![r] = Ended(@, status)]
    /\ outbox' = [outbox EXCEPT ![r] = TerminalEvent(run'[r], says)]
    /\ UNCHANGED <<template, acked, retries>>

\* Retrying the failed handoff of a run that ended: it failed, or it was
\* cancelled after its handoff had failed.  While nobody has
\* acknowledged its terminal event, the event is deleted and the run lives
\* again.  Otherwise the run stays, and a run of its own, at the same
\* version, does the retry; a second retry finds that run.
RetryHandoff(r) ==
    /\ run[r].status \in {"failed", "cancelled"}
    /\ run[r].waited
    /\ retries < MaxRetries
    /\ retries' = retries + 1
    /\ \/ /\ acked[r] = {}
          /\ run' = [run EXCEPT ![r].status = "live"]
          /\ outbox' = [outbox EXCEPT ![r] = None]
          /\ UNCHANGED <<template, acked>>
       \/ /\ acked[r] # {}
          /\ \E fresh \in RunId :
                 StartRun(fresh, run[r].sop, <<"retry", r>>, "sop-handoff-retry", run[r].version)

\* The event of run r is acknowledged by its id, which says nothing of what
\* the event contained when the consumer read it.
AckOutbox(r, consumer) ==
    /\ outbox[r] # None
    /\ acked' = [acked EXCEPT ![r] = @ \cup {consumer}]
    /\ UNCHANGED <<template, run, outbox, retries>>

\* What sop_outbox_list returns to a consumer.
Unacked(consumer) == {r \in RunId : outbox[r] # None /\ consumer \notin acked[r]}

SopNext ==
    \/ \E s \in SopId : PublishTemplate(s)
    \/ \E r \in RunId, status \in EndStatus : \E says \in SaysOf(status) :
           FinishRun(r, status, says)
    \/ \E r \in RunId : RetryHandoff(r)

=============================================================================
