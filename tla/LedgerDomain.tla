---------------------------- MODULE LedgerDomain ----------------------------
(***************************************************************************)
(* The ledger of a domain and the processes that share it.  Contributions  *)
(* are submitted as proposals, reviewed, and admitted: an admission is one *)
(* more event file, chained to the one before it.  Everything else is      *)
(* derived: a marker per idempotency key, and a projection of the events   *)
(* that readers query.                                                     *)
(*                                                                         *)
(* The processes share files and two file locks, nothing else.  A call is  *)
(* a sequence of file operations, and can end after any of them: the       *)
(* process dies, an operation fails, or a lock is not had in time.  Locks  *)
(* are released, files stay.                                               *)
(*                                                                         *)
(* Left out: the operations of a proposal and their validation, rejections *)
(* (of no effect on an admission), the named sequences, and the queries as *)
(* such: a page stands for the events it was computed from.                *)
(***************************************************************************)
EXTENDS Naturals, Sequences, FiniteSets

CONSTANTS
    Proc,         \* server processes on one site root, one call at a time each
    Name,         \* idempotency keys of submissions
    Key,          \* idempotency keys that callers bring to an admission
    None,
    MaxProposals  \* bound: proposals submitted

ASSUME LedgerAssumption ==
    /\ MaxProposals \in Nat
    /\ None \notin Proc \cup Name \cup Key \cup Nat
    /\ Key \cap Nat = {}

\* Proposals are numbered as they are filed; the key derived from a proposal,
\* for an admission without a key of its own, is its number.
Proposals == 1..MaxProposals

Keys == Key \cup Proposals

VARIABLES
    proposals,      \* the proposals filed: the head that each expects
    submitted,      \* proposals/idem-*.txt: the proposal each name was given to
    review,         \* what is in the *.review.json of each proposal
    ledger,         \* the event files, in the order of their names
    marker,         \* ledger/idem-*.txt: the event each key was given to
    projection,     \* the events folded into projection.sqlite
    ledgerLock, projectionLock,
    call,           \* what each process is doing
    answer          \* the admission that this step reports, or refuses for good

files == <<proposals, submitted, review, ledger, marker, projection>>

locks == <<ledgerLock, projectionLock>>

ledgerVars == <<files, locks, call, answer>>

(***************************************************************************)
(* The ledger as a chain.  The hash of an event is its sequence number and *)
(* its proposal, which is all that tells two events apart.                 *)
(***************************************************************************)
Genesis == <<0, 0>>

Hashes == Nat \X (0..MaxProposals)

Event == [seq : Nat, prev : Hashes, proposal : Proposals, key : Keys]

Hash(e) == <<e.seq, e.proposal>>

HeadAt(events, n) == IF n = 0 THEN Genesis ELSE Hash(events[n])

HeadOf(events) == HeadAt(events, Len(events))

\* What every refresh of the projection verifies first.
Verified(events) ==
    \A i \in 1..Len(events) : events[i].seq = i /\ events[i].prev = HeadAt(events, i - 1)

First(S) == CHOOSE i \in S : \A j \in S : i <= j

\* Fault: only the marker is looked up.
RecordedUnscanned(k) == marker[k]

\* The event a key was given to: by its marker or, without one, by its file.
Recorded(k) ==
    LET scan == {i \in 1..Len(ledger) : ledger[i].key = k} IN
    IF marker[k] # 0 THEN marker[k] ELSE IF scan = {} THEN 0 ELSE First(scan)

(***************************************************************************)
(* Calls.                                                                  *)
(***************************************************************************)
Idle == [pc |-> "idle", op |-> "none", name |-> None, prop |-> 0, key |-> None,
         own |-> FALSE, fit |-> FALSE, head |-> Genesis, at |-> 0, items |-> <<>>]

PC == {"idle", "head", "check", "file", "name", "life", "review", "lock", "gate", "open", "write",
       "append", "event", "marker", "refresh", "fold", "page", "pagehead"}

Op == {"none", "contribute", "review", "admit", "read", "frontier"}

Call == [pc : PC, op : Op, name : Name \cup {None}, prop : 0..MaxProposals, key : Keys \cup {None},
         own : BOOLEAN, fit : BOOLEAN, head : Hashes, at : Nat, items : Seq(Event)]

At(p, pc) == call[p].pc = pc

Go(p, c) == call' = [call EXCEPT ![p] = c]

Step(p, from, to) == At(p, from) /\ Go(p, [call[p] EXCEPT !.pc = to])

End(p) ==
    /\ Go(p, Idle)
    /\ ledgerLock' = IF ledgerLock = p THEN None ELSE ledgerLock
    /\ projectionLock' = IF projectionLock = p THEN None ELSE projectionLock

Begin(p, c) ==
    /\ At(p, "idle")
    /\ Go(p, c)
    /\ UNCHANGED <<files, locks>>

\* submit_review_admit.  proposal_submit and proposal_resubmit are its first
\* part: a contribution that ends once its proposal is named.
Contribute(p, n) == Begin(p, [Idle EXCEPT !.pc = "head", !.op = "contribute", !.name = n])

Admitting(n, k, own) ==
    [Idle EXCEPT !.pc = "lock", !.op = "admit", !.prop = n, !.key = k, !.own = own]

\* The head that the caller expects is that of the proposal, or it is another.
\* Expecting the latest one, or none, is as good as that of the proposal.
Admit(p, n, k, own) == Begin(p, Admitting(n, k, own))

\* A review that a caller asks for.
Review(p, n) == Begin(p, [Idle EXCEPT !.pc = "review", !.op = "review", !.prop = n])

\* with_stable_projection
Read(p) == Begin(p, [Idle EXCEPT !.pc = "lock", !.op = "read"])

Frontier(p) == Begin(p, [Idle EXCEPT !.pc = "refresh", !.op = "frontier"])

Abandon(p) ==
    /\ ~At(p, "idle")
    /\ End(p)
    /\ UNCHANGED files

(***************************************************************************)
(* Submission.  No lock is held: of two callers with one name, one creates *)
(* its file and the other fails, leaving a proposal that no name leads to. *)
(***************************************************************************)

\* The latest head; a head that the caller read earlier and brings along is as
\* if this step had been taken then.
SubmitHead(p) ==
    /\ At(p, "head")
    /\ Go(p, [call[p] EXCEPT !.pc = "check", !.head = HeadOf(ledger)])
    /\ UNCHANGED <<files, locks>>

Submitted(p, n) == Go(p, [Idle EXCEPT !.pc = "life", !.op = "contribute", !.prop = n])

SubmitAgain(p) ==
    /\ At(p, "check")
    /\ submitted[call[p].name] # 0
    /\ Submitted(p, submitted[call[p].name])
    /\ UNCHANGED <<files, locks>>

\* Contents are not kept: the one on file may be that of the call or another.
SubmitConflict(p) ==
    /\ At(p, "check")
    /\ submitted[call[p].name] # 0
    /\ End(p)
    /\ UNCHANGED files

SubmitNew(p) ==
    /\ Step(p, "check", "file")
    /\ submitted[call[p].name] = 0
    /\ UNCHANGED <<files, locks>>

ProposalFile(p) ==
    /\ At(p, "file")
    /\ Len(proposals) < MaxProposals
    /\ proposals' = Append(proposals, call[p].head)
    /\ Go(p, [call[p] EXCEPT !.pc = "name", !.prop = Len(proposals) + 1])
    /\ UNCHANGED <<submitted, review, ledger, marker, projection, locks>>

ProposalName(p) ==
    /\ At(p, "name")
    /\ submitted[call[p].name] = 0
    /\ submitted' = [submitted EXCEPT ![call[p].name] = call[p].prop]
    /\ Submitted(p, call[p].prop)
    /\ UNCHANGED <<proposals, review, ledger, marker, projection, locks>>

ProposalNameTaken(p) ==
    /\ At(p, "name")
    /\ submitted[call[p].name] # 0
    /\ End(p)
    /\ UNCHANGED files

Answer(verdict, n, k, i) == answer' = [verdict |-> verdict, proposal |-> n, key |-> k, at |-> i]

Admitted(n, k, i) == Answer("admitted", n, k, i)

Refused(p) == Answer("refused", call[p].prop, call[p].key, 0)

(***************************************************************************)
(* A contribution goes on from its submission to its admission, under the  *)
(* key derived from the proposal, unless it finds the proposal admitted.   *)
(***************************************************************************)
AlreadyAdmitted(p) ==
    /\ At(p, "life")
    /\ \E i \in 1..Len(ledger) :
           /\ ledger[i].proposal = call[p].prop
           /\ Admitted(call[p].prop, ledger[i].key, i)
    /\ review[call[p].prop] = "whole"
    /\ End(p)
    /\ UNCHANGED files

\* A review that does not parse ends the call here (Abandon), unless there is
\* a rejection, which is looked for first.
NotYetAdmitted(p) ==
    /\ Step(p, "life", "review")
    /\ \A i \in 1..Len(ledger) : ledger[i].proposal # call[p].prop
    /\ UNCHANGED <<files, locks>>

(***************************************************************************)
(* A review: the head is looked up for the verdict, then the file of the   *)
(* review is truncated, then it is written.  A review of the contribution, *)
(* or one that is asked for, holds no lock; that of an admission does.     *)
(* References that are not found in the projection end a call (Abandon).   *)
(***************************************************************************)
OnHead(n) == proposals[n] = HeadOf(ledger)

Judged(p) == Go(p, [call[p] EXCEPT !.pc = "open", !.fit = OnHead(call[p].prop)])

ToJudge(p) == At(p, "review") \/ (At(p, "gate") /\ Recorded(call[p].key) = 0)

\* Fault: the review under the lock is judged and not written.
JudgeUnfiled(p) ==
    /\ ToJudge(p)
    /\ IF At(p, "gate") /\ OnHead(call[p].prop) THEN Step(p, "gate", "append") ELSE Judged(p)
    /\ UNCHANGED <<files, locks>>

Judge(p) ==
    /\ ToJudge(p)
    /\ Judged(p)
    /\ UNCHANGED <<files, locks>>

OpenReview(p) ==
    /\ Step(p, "open", "write")
    /\ review' = [review EXCEPT ![call[p].prop] = "empty"]
    /\ UNCHANGED <<proposals, submitted, ledger, marker, projection, locks>>

\* Written over what another call wrote since the file was truncated, a shorter
\* review leaves the end of the longer one behind.
WriteReview(p) ==
    LET n == call[p].prop IN
    /\ At(p, "write")
    /\ \E r \in {"whole"} \cup IF review[n] = "empty" THEN {} ELSE {"torn"} :
           review' = [review EXCEPT ![n] = r]
    /\ UNCHANGED <<proposals, submitted, ledger, marker, projection>>

Reviewed(p) ==
    /\ call[p].op = "review"
    /\ WriteReview(p)
    /\ End(p)

\* It is an admission from now on, with the head that was submitted.
ReviewPassed(p) ==
    /\ call[p].op = "contribute" /\ call[p].fit
    /\ WriteReview(p)
    /\ Go(p, Admitting(call[p].prop, call[p].prop, TRUE))
    /\ UNCHANGED locks

ReviewStale(p) ==
    /\ call[p].op = "contribute" /\ ~call[p].fit
    /\ WriteReview(p)
    /\ End(p)

(***************************************************************************)
(* Admission, under the ledger lock.                                       *)
(***************************************************************************)
\* Fault: the ledger lock is not waited for.
PastTheLock(p) ==
    /\ At(p, "lock")
    /\ Go(p, [call[p] EXCEPT !.pc = IF call[p].op = "read" THEN "refresh" ELSE "gate"])
    /\ UNCHANGED <<files, locks>>

TakeLedger(p) ==
    /\ At(p, "lock")
    /\ ledgerLock = None
    /\ ledgerLock' = p
    /\ Go(p, [call[p] EXCEPT !.pc = IF call[p].op = "read" THEN "refresh" ELSE "gate"])
    /\ UNCHANGED <<files, projectionLock>>

\* The key names an admission of this proposal: it is told again, and the
\* marker that a crash left unwritten is written.
Replay(p) ==
    LET k == call[p].key  i == Recorded(k) IN
    /\ At(p, "gate")
    /\ i # 0
    /\ ledger[i].proposal = call[p].prop
    /\ marker' = [marker EXCEPT ![k] = i]
    /\ Admitted(call[p].prop, k, i)
    /\ End(p)
    /\ UNCHANGED <<proposals, submitted, review, ledger, projection>>

KeyConflict(p) ==
    LET i == Recorded(call[p].key) IN
    /\ At(p, "gate")
    /\ i # 0
    /\ ledger[i].proposal # call[p].prop
    /\ Refused(p)
    /\ End(p)
    /\ UNCHANGED files

\* The verdict was given under the lock: the proposal expects a head that has passed.
Stale(p) ==
    /\ call[p].op = "admit" /\ ~call[p].fit
    /\ WriteReview(p)
    /\ Refused(p)
    /\ End(p)

Expected(p) == call[p].own /\ OnHead(call[p].prop)

\* Only the caller expects another head: it may come back with the right one.
HeadConflict(p) ==
    /\ call[p].op = "admit" /\ call[p].fit
    /\ ~Expected(p)
    /\ WriteReview(p)
    /\ End(p)

Pass(p) ==
    /\ call[p].op = "admit" /\ call[p].fit
    /\ Expected(p)
    /\ WriteReview(p)
    /\ Go(p, [call[p] EXCEPT !.pc = "append", !.own = FALSE, !.fit = FALSE])
    /\ UNCHANGED locks

\* append_event looks for the last event once more: the new one is chained to it.
LastEvent(p) ==
    /\ At(p, "append")
    /\ Go(p, [call[p] EXCEPT !.pc = "event", !.head = HeadOf(ledger)])
    /\ UNCHANGED <<files, locks>>

EventFile(p) ==
    LET c == call[p] IN
    /\ At(p, "event")
    /\ ledger' = Append(ledger, [seq |-> c.head[1] + 1, prev |-> c.head, proposal |-> c.prop, key |-> c.key])
    /\ Go(p, [c EXCEPT !.pc = "marker", !.head = Genesis, !.at = Len(ledger) + 1])
    /\ UNCHANGED <<proposals, submitted, review, marker, projection, locks>>

EventMarker(p) ==
    /\ Step(p, "marker", "refresh")
    /\ marker[call[p].key] = 0
    /\ marker' = [marker EXCEPT ![call[p].key] = call[p].at]
    /\ UNCHANGED <<proposals, submitted, review, ledger, projection, locks>>

(***************************************************************************)
(* The refresh of the projection, under the lock of its own: the last part *)
(* of an admission and the first of every read.  Whether it was current,   *)
(* is caught up or is built anew, it then holds the events there are.      *)
(***************************************************************************)
\* Fault: a frontier takes the ledger lock too, under that of the projection.
ProjectionBeforeLedger(p) ==
    /\ At(p, "refresh")
    /\ projectionLock = None
    /\ projectionLock' = p
    /\ Go(p, IF call[p].op = "frontier" THEN [call[p] EXCEPT !.pc = "lock", !.op = "read"]
             ELSE [call[p] EXCEPT !.pc = "fold"])
    /\ UNCHANGED <<files, ledgerLock>>

TakeProjection(p) ==
    /\ projectionLock = None
    /\ projectionLock' = p
    /\ Step(p, "refresh", "fold")
    /\ UNCHANGED <<files, ledgerLock>>

Fold == Verified(ledger) /\ projection' = ledger

FoldAdmitted(p) ==
    /\ At(p, "fold")
    /\ call[p].op = "admit"
    /\ Fold
    /\ Admitted(call[p].prop, call[p].key, call[p].at)
    /\ End(p)
    /\ UNCHANGED <<proposals, submitted, review, ledger, marker>>

\* Fault: the locks are released before the read.
FoldToReadUnlocked(p) ==
    /\ call[p].op \in {"read", "frontier"}
    /\ Fold
    /\ Step(p, "fold", "page")
    /\ projectionLock' = None
    /\ ledgerLock' = IF ledgerLock = p THEN None ELSE ledgerLock
    /\ UNCHANGED <<proposals, submitted, review, ledger, marker>>

\* A stable read keeps both locks through the read.
FoldToRead(p) ==
    /\ call[p].op \in {"read", "frontier"}
    /\ Fold
    /\ Step(p, "fold", "page")
    /\ projectionLock' = IF call[p].op = "read" THEN p ELSE None
    /\ UNCHANGED <<proposals, submitted, review, ledger, marker, ledgerLock>>

ReadPage(p) ==
    /\ At(p, "page")
    /\ Go(p, [call[p] EXCEPT !.pc = "pagehead", !.items = projection])
    /\ UNCHANGED <<files, locks>>

\* The head is looked up last, and goes into the answer with the page; that of
\* a frontier is also kept in a file of its own, for pages asked for later.
ReadHead(p) ==
    /\ At(p, "pagehead")
    /\ End(p)
    /\ UNCHANGED files

(***************************************************************************)
(* The specification.                                                      *)
(***************************************************************************)
LedgerInit ==
    /\ proposals = <<>>
    /\ submitted = [n \in Name |-> 0]
    /\ review = [n \in Proposals |-> "none"]
    /\ ledger = <<>>
    /\ marker = [k \in Keys |-> 0]
    /\ projection = <<>>
    /\ ledgerLock = None /\ projectionLock = None
    /\ call = [p \in Proc |-> Idle]
    /\ answer = None

Calls(p) ==
    \/ \E n \in Name : Contribute(p, n)
    \/ \E n \in 1..Len(proposals) :
           \/ Review(p, n)
           \/ \E k \in Key \cup {n}, own \in BOOLEAN : Admit(p, n, k, own)
    \/ Read(p) \/ Frontier(p)

Proceeds(p) ==
    \/ SubmitHead(p) \/ SubmitAgain(p) \/ SubmitConflict(p) \/ SubmitNew(p)
    \/ ProposalFile(p) \/ ProposalName(p) \/ ProposalNameTaken(p) \/ NotYetAdmitted(p)
    \/ Judge(p) \/ OpenReview(p) \/ Reviewed(p) \/ ReviewPassed(p) \/ ReviewStale(p)
    \/ TakeLedger(p) \/ HeadConflict(p) \/ Pass(p) \/ LastEvent(p) \/ EventFile(p) \/ EventMarker(p)
    \/ TakeProjection(p) \/ FoldToRead(p) \/ ReadPage(p) \/ ReadHead(p)

Answers(p) ==
    AlreadyAdmitted(p) \/ Replay(p) \/ KeyConflict(p) \/ Stale(p) \/ FoldAdmitted(p)

LedgerNext ==
    \E p \in Proc : Answers(p) \/ ((Calls(p) \/ Proceeds(p) \/ Abandon(p)) /\ answer' = None)

LedgerSpec == LedgerInit /\ [][LedgerNext]_ledgerVars

(***************************************************************************)
(* Properties.                                                             *)
(***************************************************************************)

\* The files hold what their readers expect to parse; a name is written after
\* its proposal.  A review may be empty or torn, where a writer died or met another.
LedgerTypeOK ==
    /\ proposals \in Seq(Hashes)
    /\ Len(proposals) <= MaxProposals
    /\ submitted \in [Name -> 0..Len(proposals)]
    /\ review \in [Proposals -> {"none", "empty", "torn", "whole"}]
    /\ \A n \in Proposals : review[n] # "none" => n <= Len(proposals)
    /\ ledger \in Seq(Event)
    /\ marker \in [Keys -> Nat]
    /\ projection \in Seq(Event)
    /\ ledgerLock \in Proc \cup {None} /\ projectionLock \in Proc \cup {None}
    /\ call \in [Proc -> Call]

\* The chain of event files verifies at all times: two processes never append
\* to one head, whatever dies in between, so no refresh finds the ledger broken.
LedgerVerifies == Verified(ledger)

\* A retry finds what was admitted: the key of every admission leads to that
\* admission, by a marker or by the scan that a crash made necessary, a marker
\* leads to an event of its key, and whatever was admitted has a review on file
\* (which a later review may have left empty or torn).
ReplaysFound ==
    /\ \A i \in 1..Len(ledger) : Recorded(ledger[i].key) = i /\ review[ledger[i].proposal] # "none"
    /\ \A k \in Keys : marker[k] # 0 => marker[k] \in 1..Len(ledger) /\ ledger[marker[k]].key = k

\* What a call that has its page would answer now: the page with the head.
Coherent(p) == At(p, "pagehead") => HeadOf(call[p].items) = HeadOf(ledger)

\* The page of a stable read is that of the head it reports, whatever is
\* admitted meanwhile.
PageCoherent == \A p \in Proc : call[p].op = "read" => Coherent(p)

Waits(p) ==
    \/ At(p, "lock") /\ ledgerLock # None
    \/ At(p, "refresh") /\ projectionLock # None

\* Nobody needs the timeout of a lock: of the calls under way one can go on,
\* for the ledger lock is always taken before that of the projection.
NoGridlock ==
    (\E p \in Proc : ~At(p, "idle")) => \E p \in Proc : ~At(p, "idle") /\ ~Waits(p)

\* The ledger keeps the promises of an admission register.
Admission(e) == [proposal |-> e.proposal, key |-> e.key]

Promise == INSTANCE AdmissionRegister WITH
    Proposal <- Proposals, AdmissionKey <- Keys,
    base <- [n \in Proposals |-> IF n <= Len(proposals) THEN proposals[n][1] ELSE None],
    record <- [i \in 1..Len(ledger) |-> Admission(ledger[i])]

ImplementsRegister == Promise!Register

=============================================================================
