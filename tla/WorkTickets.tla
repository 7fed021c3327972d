----------------------------- MODULE WorkTickets -----------------------------
(***************************************************************************)
(* The tickets of the work lifecycle.  A source (a message) opens a ticket *)
(* or, when one of its correlation keys is known, joins the ticket that    *)
(* has the key and makes it actionable again.  An author reads a ticket    *)
(* and later admits a proposal against the revision that was read: answer  *)
(* with a draft, follow up with a task, resolve, or hand to an operator.   *)
(* A draft is claimed first, made elsewhere, recorded by a receipt and     *)
(* disposed of by evidence that it was sent or discarded; the end of a     *)
(* task brings its tickets back by a trigger.                              *)
(*                                                                         *)
(* Every call is one transaction.  A call repeated under its idempotency   *)
(* key returns the stored result and changes nothing, nor does a source    *)
(* that is known already or whose keys lead to several tickets: neither is *)
(* a step here.  Summaries, codes and the texts of tasks are left out; a   *)
(* ticket is named for the source that opened it, and a claim, a draft     *)
(* and a task for the proposal whose idempotency key gives them theirs.    *)
(***************************************************************************)
EXTENDS Naturals

CONSTANTS
    Source,       \* immutable source ids
    Key,          \* correlation keys
    Correlation,  \* the keys of each source
    Proposal,     \* idempotency keys of proposals
    None          \* no ticket

ASSUME TicketAssumption ==
    /\ Correlation \in [Source -> SUBSET Key]
    /\ None \notin Source

VARIABLES
    ticket,    \* status, revision, and the last revision announced as work due
    attached,  \* ticket_sources: the ticket of a source
    keyed,     \* ticket_correlation_keys: the ticket of a key
    proposal,  \* what its author read, and the route it was admitted on
    claim,     \* ticket_effect_claims: the state of a proposal's claim
    draftRef,  \* ticket_draft_refs: the disposition of a proposal's draft
    link       \* ticket_task_links: the state of a proposal's task

ticketVars == <<ticket, attached, keyed, proposal, claim, draftRef, link>>

Status == {"none", "actionable", "effect_claimed", "waiting_on_draft",
           "waiting_on_task", "blocked", "resolved"}

Route == {"response_draft", "followup_task", "resolved", "blocked_operator"}

Of(t) == {p \in Proposal : proposal[p].ticket = t}

TicketInit ==
    /\ ticket = [t \in Source |-> [status |-> "none", revision |-> 0, due |-> 0]]
    /\ attached = [s \in Source |-> None]
    /\ keyed = [k \in Key |-> None]
    /\ proposal = [p \in Proposal |-> [ticket |-> None, revision |-> 0, route |-> "none"]]
    /\ claim = [p \in Proposal |-> "none"]
    /\ draftRef = [p \in Proposal |-> "none"]
    /\ link = [p \in Proposal |-> "none"]

\* native_work_transition: every one is a new revision.
Transition(t, status) ==
    ticket' = [ticket EXCEPT ![t] = [status |-> status, revision |-> @.revision + 1, due |-> @.due]]

\* A transition with an event on a topic of work due, at the new revision.
Announce(t, status) ==
    ticket' = [ticket EXCEPT ![t] =
        [status |-> status, revision |-> @.revision + 1, due |-> @.revision + 1]]

Reactivate(t) == Announce(t, "actionable")

(***************************************************************************)
(* ticket_admit_source                                                     *)
(***************************************************************************)
Candidates(s) == {keyed[k] : k \in Correlation[s]} \ {None}

\* Fault: the source that opens a ticket leaves it without keys.
AdmitSourceUnkeyed(s, t) ==
    /\ attached[s] = None
    /\ Candidates(s) = {t} \/ (Candidates(s) = {} /\ t = s)
    /\ attached' = [attached EXCEPT ![s] = t]
    /\ keyed' = [k \in Key |-> IF k \in Correlation[s] /\ Candidates(s) = {t} THEN t ELSE keyed[k]]
    /\ Reactivate(t)
    /\ UNCHANGED <<proposal, claim, draftRef, link>>

AdmitSource(s, t) ==
    /\ attached[s] = None
    /\ Candidates(s) = {t} \/ (Candidates(s) = {} /\ t = s)
    /\ attached' = [attached EXCEPT ![s] = t]
    /\ keyed' = [k \in Key |-> IF k \in Correlation[s] THEN t ELSE keyed[k]]
    /\ Reactivate(t)
    /\ UNCHANGED <<proposal, claim, draftRef, link>>

(***************************************************************************)
(* ticket_processing_context_load and ticket_proposal_admit                *)
(***************************************************************************)
ReadContext(p, t) ==
    /\ proposal[p].route \in {"none", "read"}
    /\ ticket[t].status # "none"
    /\ proposal' = [proposal EXCEPT ![p] = [ticket |-> t, revision |-> ticket[t].revision, route |-> "read"]]
    /\ UNCHANGED <<ticket, attached, keyed, claim, draftRef, link>>

Current(p) == proposal[p].route = "read" /\ ticket[proposal[p].ticket].revision = proposal[p].revision

Admit(p, route) == proposal' = [proposal EXCEPT ![p].route = route]

ProposeTask(p) ==
    /\ Current(p)
    /\ Admit(p, "followup_task")
    /\ link' = [link EXCEPT ![p] = "active"]
    /\ Transition(proposal[p].ticket, "waiting_on_task")
    /\ UNCHANGED <<attached, keyed, claim, draftRef>>

ProposeDraft(p) ==
    /\ Current(p)
    /\ Admit(p, "response_draft")
    /\ claim' = [claim EXCEPT ![p] = "claimed"]
    /\ Transition(proposal[p].ticket, "effect_claimed")
    /\ UNCHANGED <<attached, keyed, draftRef, link>>

Unfinished(t) == {p \in Of(t) : link[p] = "active" \/ claim[p] = "claimed" \/ draftRef[p] = "open"}

ProposeResolved(p) ==
    /\ Current(p)
    /\ Unfinished(proposal[p].ticket) = {}
    /\ Admit(p, "resolved")
    /\ Transition(proposal[p].ticket, "resolved")
    /\ UNCHANGED <<attached, keyed, claim, draftRef, link>>

ProposeBlocked(p) ==
    /\ Current(p)
    /\ Admit(p, "blocked_operator")
    /\ Transition(proposal[p].ticket, "blocked")
    /\ UNCHANGED <<attached, keyed, claim, draftRef, link>>

(***************************************************************************)
(* ticket_draft_receipt_record, ticket_draft_disposition_reconcile         *)
(***************************************************************************)
\* The revision a claim was made at: the one its proposal led to.
Claimed(p) == claim[p] # "none" /\ ticket[proposal[p].ticket].revision = proposal[p].revision + 1

\* The other open drafts of the ticket give way to this one.
Supersede(p, disposition) ==
    draftRef' = [q \in Proposal |->
        IF q = p THEN disposition
        ELSE IF q \in Of(proposal[p].ticket) /\ draftRef[q] = "open" THEN "superseded"
        ELSE draftRef[q]]

RecordReceipt(p) ==
    /\ Claimed(p)
    /\ claim' = [claim EXCEPT ![p] = IF @ = "claimed" THEN "completed" ELSE @]
    /\ Supersede(p, IF draftRef[p] = "none" THEN "open" ELSE draftRef[p])
    /\ Transition(proposal[p].ticket, "waiting_on_draft")
    /\ UNCHANGED <<attached, keyed, proposal, link>>

\* The ticket went on since the claim, or this is a receipt under a second key:
\* the claim loses, whatever state it was in.
SupersedeClaim(p) ==
    /\ claim[p] # "none" /\ ~Claimed(p)
    /\ claim' = [claim EXCEPT ![p] = "superseded"]
    /\ UNCHANGED <<ticket, attached, keyed, proposal, draftRef, link>>

\* The key of the call is the observation's, and a draft has one observation.
Disposable(p) == draftRef[p] \in {"open", "superseded"}

\* Fault: the other drafts of the ticket stay open.
ReconcileSentAlone(p) ==
    /\ Disposable(p)
    /\ draftRef' = [draftRef EXCEPT ![p] = "sent"]
    /\ Announce(proposal[p].ticket, "resolved")
    /\ UNCHANGED <<attached, keyed, proposal, claim, link>>

ReconcileSent(p) ==
    /\ Disposable(p)
    /\ Supersede(p, "sent")
    /\ Announce(proposal[p].ticket, "resolved")
    /\ UNCHANGED <<attached, keyed, proposal, claim, link>>

\* Neither a superseded draft nor a resolved ticket is an exception.
ReconcileDiscarded(p) ==
    /\ Disposable(p)
    /\ draftRef' = [draftRef EXCEPT ![p] = "discarded"]
    /\ Reactivate(proposal[p].ticket)
    /\ UNCHANGED <<attached, keyed, proposal, claim, link>>

\* The trigger work_task_terminal_reactivate_tickets, on closed or confirmed.
FinishTask(p) ==
    /\ link[p] = "active"
    /\ link' = [link EXCEPT ![p] = "terminal"]
    /\ Reactivate(proposal[p].ticket)
    /\ UNCHANGED <<attached, keyed, proposal, claim, draftRef>>

\* The calls of authors, of the task lifecycle and of message admission.
WorkStep ==
    \/ \E s, t \in Source : AdmitSource(s, t)
    \/ \E p \in Proposal, t \in Source : ReadContext(p, t)
    \/ \E p \in Proposal : \/ ProposeTask(p) \/ ProposeDraft(p)
                           \/ ProposeResolved(p) \/ ProposeBlocked(p)
                           \/ FinishTask(p)

Receipt(p) == RecordReceipt(p) \/ SupersedeClaim(p)

Reconcile(p) == ReconcileSent(p) \/ ReconcileDiscarded(p)

TicketNext == WorkStep \/ \E p \in Proposal : Receipt(p) \/ Reconcile(p)

TicketSpec == TicketInit /\ [][TicketNext]_ticketVars

-----------------------------------------------------------------------------
TicketTypeOK ==
    /\ ticket \in [Source -> [status : Status, revision : Nat, due : Nat]]
    /\ attached \in [Source -> Source \cup {None}]
    /\ keyed \in [Key -> Source \cup {None}]
    /\ proposal \in [Proposal -> [ticket : Source \cup {None}, revision : Nat,
                                  route : Route \cup {"none", "read"}]]
    /\ claim \in [Proposal -> {"none", "claimed", "completed", "superseded"}]
    /\ draftRef \in [Proposal -> {"none", "open", "superseded", "sent", "discarded"}]
    /\ link \in [Proposal -> {"none", "active", "terminal"}]

(***************************************************************************)
(* What a ticket waits for is there: an actionable ticket was announced as *)
(* work due at its revision, a claimed effect is still open at it, a ticket *)
(* that waits for a draft has exactly the one recorded last, one that      *)
(* waits for a task has one that will bring it back, and a resolved ticket *)
(* has no draft that is neither sent nor given up.  Otherwise nobody would *)
(* ever look at the ticket again, whatever order sources, late receipts,   *)
(* dispositions of old drafts and ends of tasks came in.                   *)
(***************************************************************************)
OneOpenDraft == \A p, q \in Proposal :
    draftRef[p] = "open" /\ draftRef[q] = "open" /\ proposal[p].ticket = proposal[q].ticket => p = q

Backed(t) ==
    LET r == ticket[t].revision IN
    /\ ticket[t].status = "actionable" => ticket[t].due = r
    /\ ticket[t].status = "effect_claimed" =>
          \E p \in Of(t) : claim[p] = "claimed" /\ proposal[p].revision + 1 = r
    /\ ticket[t].status = "waiting_on_draft" =>
          \E p \in Of(t) : draftRef[p] = "open" /\ proposal[p].revision + 2 = r
    /\ ticket[t].status = "waiting_on_task" => \E p \in Of(t) : link[p] = "active"
    /\ ticket[t].status = "resolved" => \A p \in Of(t) : draftRef[p] # "open"

TicketsBacked == OneOpenDraft /\ \A t \in Source : Backed(t)

(***************************************************************************)
(* Sources that share a correlation key are on one ticket: two answers     *)
(* are never prepared to one conversation because its messages came in an  *)
(* unlucky order.                                                          *)
(***************************************************************************)
OneConversation == \A s, u \in Source :
    attached[s] # None /\ attached[u] # None /\ Correlation[s] \cap Correlation[u] # {}
        => attached[s] = attached[u]

=============================================================================
