---------------------------- MODULE TicketDrafts ----------------------------
(***************************************************************************)
(* Tickets together with the two components that answer them.  The draft   *)
(* authority of graph-mail makes, tracks and discards drafts in a mailbox  *)
(* and records what became of them; the reconciler brings these            *)
(* dispositions to the tickets and acknowledges them.                      *)
(*                                                                         *)
(* The authority holds a transaction open over its calls to the mailbox:   *)
(* what it wrote is lost when it fails or dies between two calls, what the *)
(* mailbox did is not, and people use the mailbox all the while.  A pass   *)
(* of the reconciler is one call at a time, any of which may fail, lose    *)
(* its reply or be the last one of a pass that dies.                       *)
(*                                                                         *)
(* Left out: the contents of messages, digests and linkage checks, edits   *)
(* of a draft (they only make a conditional delete fail), the mailbox      *)
(* refresh at the end of a pass, and the order of the items of one page.   *)
(***************************************************************************)
EXTENDS WorkTickets, Sequences, FiniteSets

CONSTANTS
    MaxMessages,  \* bound: messages made for draft operations
    MaxFaults,    \* bound: calls that fail and processes that die
    Page          \* dispositions and operations looked at in one pass

ASSUME DraftAssumption == MaxMessages \in Nat /\ MaxFaults \in Nat /\ Page \in Nat

VARIABLES
    mail,         \* the messages made under an operation key, oldest first
    draft,        \* the message of a completed operation, 0 without one
    completed,    \* completed operations, oldest first
    intent,       \* graph_ticket_draft_discard_intents
    observation,  \* the disposition that was observed
    observed,     \* observed drafts, oldest first
    acked,        \* dispositions the reconciler acknowledged
    store,        \* who holds the write transaction of the authority, and where it is
    pass,         \* the reconciler: where it is, and what it still has to do
    erased,       \* drafts the authority deleted, whether or not it knows
    faults

mailVars == <<mail, erased>>
authorityVars == <<draft, completed, intent, observation, observed, acked>>
draftVars == <<ticketVars, mailVars, authorityVars, store, pass, faults>>

Free == [pc |-> "free", of |-> None, message |-> 0, found |-> FALSE]

Idle == [pc |-> "idle", todo |-> {}, at |-> None]

DraftInit ==
    /\ TicketInit
    /\ mail = [p \in Proposal |-> <<>>]
    /\ draft = [p \in Proposal |-> 0]
    /\ completed = <<>>
    /\ intent = [p \in Proposal |-> "none"]
    /\ observation = [p \in Proposal |-> "none"]
    /\ observed = <<>>
    /\ acked = {}
    /\ store = Free
    /\ pass = Idle
    /\ erased = {}
    /\ faults = 0

(***************************************************************************)
(* The mailbox.                                                            *)
(***************************************************************************)
In(p, n, state) == n \in DOMAIN mail[p] /\ mail[p][n] = state

\* find_ticket_remote_draft
Unsent(p) == {n \in DOMAIN mail[p] : mail[p][n] = "draft"}

\* A message is purged when it is deleted after it was sent.
MailState == {"draft", "sent", "deleted", "purged"}

\* find_ticket_remote_messages: what is in the mailbox now.
Remote(p) == {n \in DOMAIN mail[p] : mail[p][n] \in {"draft", "sent"}}

Made == UNION {{p} \X DOMAIN mail[p] : p \in Proposal}

\* Somebody sends or deletes a draft, or deletes what was sent.
Human(p, n, state) ==
    /\ \/ In(p, n, "draft") /\ state \in {"sent", "deleted"}
       \/ In(p, n, "sent") /\ state = "purged"
    /\ mail' = [mail EXCEPT ![p][n] = state]
    /\ UNCHANGED <<ticketVars, authorityVars, erased, store, pass, faults>>

(***************************************************************************)
(* ticket_draft_upsert: under the lock it looks for an unsent message of   *)
(* the operation, makes one if there is none, reads and composes it, and   *)
(* completes the operation.                                                *)
(***************************************************************************)
UpsertBegin(p) ==
    /\ claim[p] # "none"
    /\ store = Free
    /\ draft[p] = 0
    /\ \/ /\ Unsent(p) = {} /\ Cardinality(Made) < MaxMessages
          /\ store' = [pc |-> "create", of |-> p, message |-> 0, found |-> FALSE]
       \/ \E n \in DOMAIN mail[p] :
          /\ Unsent(p) = {n}
          /\ store' = [pc |-> "compose", of |-> p, message |-> n, found |-> TRUE]
    /\ UNCHANGED <<ticketVars, mailVars, authorityVars, pass, faults>>

UpsertCreate(p) ==
    /\ store.pc = "create" /\ store.of = p
    /\ mail' = [mail EXCEPT ![p] = Append(@, "draft")]
    /\ store' = [store EXCEPT !.pc = "compose", !.message = Len(mail[p]) + 1]
    /\ UNCHANGED <<ticketVars, erased, authorityVars, pass, faults>>

\* A message that was sent meanwhile is taken if an earlier attempt composed it.
Composable == \/ In(store.of, store.message, "draft")
              \/ store.found /\ In(store.of, store.message, "sent")

UpsertComplete(p) ==
    /\ store.pc = "compose" /\ store.of = p
    /\ Composable
    /\ draft' = [draft EXCEPT ![p] = store.message]
    /\ completed' = Append(completed, p)
    /\ store' = Free
    /\ UNCHANGED <<ticketVars, mailVars, intent, observation, observed, acked, pass, faults>>

(***************************************************************************)
(* ticket_draft_discard: under the lock it verifies that the draft is the  *)
(* only message of the operation and unsent, deletes it on condition that  *)
(* it did not change, and records the disposition.  No message at all is   *)
(* evidence only with an intent that was verified before.                  *)
(***************************************************************************)
\* Fault: a message that was sent does not stand in the way.
DiscardableUnsent(p) ==
    /\ Unsent(p) \subseteq {draft[p]}
    /\ Remote(p) = {} => intent[p] = "verified"
    /\ Remote(p) # {} => In(p, draft[p], "draft")

Discardable(p) ==
    /\ Remote(p) \subseteq {draft[p]}
    /\ Remote(p) = {} => intent[p] = "verified"
    /\ Remote(p) # {} => In(p, draft[p], "draft")

DiscardBegin(p) ==
    /\ store = Free
    /\ draft[p] # 0
    /\ intent[p] # "completed"
    /\ Discardable(p)
    /\ store' = [pc |-> IF Remote(p) = {} THEN "record" ELSE "delete",
                 of |-> p, message |-> draft[p], found |-> TRUE]
    /\ UNCHANGED <<ticketVars, mailVars, authorityVars, pass, faults>>

DiscardDelete(p) ==
    /\ store.pc = "delete" /\ store.of = p
    /\ In(p, store.message, "draft")
    /\ mail' = [mail EXCEPT ![p][store.message] = "deleted"]
    /\ erased' = erased \cup {p}
    /\ store' = [store EXCEPT !.pc = "record"]
    /\ UNCHANGED <<ticketVars, authorityVars, pass, faults>>

\* An operation has one observation: a second one is dropped.
Observe(p, disposition) ==
    IF observation[p] = "none"
    THEN /\ observation' = [observation EXCEPT ![p] = disposition]
         /\ observed' = Append(observed, p)
    ELSE UNCHANGED <<observation, observed>>

DiscardRecord(p) ==
    /\ store.pc = "record" /\ store.of = p
    /\ Observe(p, "discarded")
    /\ intent' = [intent EXCEPT ![p] = "completed"]
    /\ store' = Free
    /\ UNCHANGED <<ticketVars, mailVars, draft, completed, acked, pass, faults>>

\* The draft was sent or deleted under the authority's hands: its call is refused.
Refused ==
    \/ store.pc = "compose" /\ ~Composable
    \/ store.pc = "delete" /\ ~In(store.of, store.message, "draft")

\* All that the transaction wrote is gone, also the verified intent of a
\* discard whose delete was carried out.
Rollback ==
    /\ store # Free
    /\ Refused \/ faults < MaxFaults
    /\ faults' = IF Refused THEN faults ELSE faults + 1
    /\ store' = Free
    /\ UNCHANGED <<ticketVars, mailVars, authorityVars, pass>>

\* The holder of the claim has the operation's receipt recorded, when it likes.
DraftReceipt(p) ==
    /\ draft[p] # 0
    /\ Receipt(p)
    /\ UNCHANGED <<mailVars, authorityVars, store, pass, faults>>

(***************************************************************************)
(* The reconciler.                                                         *)
(***************************************************************************)
Oldest(n, I) == {i \in I : Cardinality({j \in I : j < i}) < n}

\* The candidates of a scan: the oldest operations without an observation.
ScanPage ==
    {completed[i] : i \in Oldest(Page, {i \in DOMAIN completed : observation[completed[i]] = "none"})}

\* ticket_disposition_list
ListPage == {observed[i] : i \in Oldest(Page, {i \in DOMAIN observed : observed[i] \notin acked})}

PassStart ==
    /\ pass.pc = "idle"
    /\ pass' = [pc |-> "scan", todo |-> ScanPage, at |-> None]
    /\ UNCHANGED <<ticketVars, mailVars, authorityVars, store, faults>>

Without(p) == [pass EXCEPT !.todo = @ \ {p}]

SeenSent(p) == \E n \in DOMAIN mail[p] : Remote(p) = {n} /\ mail[p][n] = "sent"

Scan(p) ==
    /\ pass.pc = "scan" /\ p \in pass.todo
    /\ \/ SeenSent(p) /\ store = Free /\ Observe(p, "sent")
       \/ ~SeenSent(p) /\ UNCHANGED <<observation, observed>>
    /\ pass' = Without(p)
    /\ UNCHANGED <<ticketVars, mailVars, draft, completed, intent, acked, store, faults>>

List ==
    /\ pass.pc = "scan" /\ pass.todo = {}
    /\ pass' = [pc |-> "reconcile", todo |-> ListPage, at |-> None]
    /\ UNCHANGED <<ticketVars, mailVars, authorityVars, store, faults>>

\* A repeated call returns what the first one did.
Applied(p) == draftRef[p] \in {"sent", "discarded"}

\* Fault: a draft the tickets do not know counts as reconciled.
ReconciledOrUnknown(p) ==
    \/ IF observation[p] = "sent" THEN ReconcileSent(p) ELSE ReconcileDiscarded(p)
    \/ draftRef[p] \in {"none", "sent", "discarded"} /\ UNCHANGED ticketVars

Reconciled(p) ==
    \/ IF observation[p] = "sent" THEN ReconcileSent(p) ELSE ReconcileDiscarded(p)
    \/ Applied(p) /\ UNCHANGED ticketVars

Bring(p) ==
    /\ pass.pc = "reconcile" /\ p \in pass.todo
    /\ Reconciled(p)
    /\ pass' = [pc |-> "ack", todo |-> pass.todo \ {p}, at |-> p]
    /\ UNCHANGED <<mailVars, authorityVars, store, faults>>

\* ticket_draft_ref_not_found: the item is left, for this pass.
Unknown(p) ==
    /\ pass.pc = "reconcile" /\ p \in pass.todo
    /\ draftRef[p] = "none"
    /\ pass' = Without(p)
    /\ UNCHANGED <<ticketVars, mailVars, authorityVars, store, faults>>

Acknowledge ==
    /\ pass.pc = "ack"
    /\ store = Free
    /\ acked' = acked \cup {pass.at}
    /\ pass' = [pass EXCEPT !.pc = "reconcile", !.at = None]
    /\ UNCHANGED <<ticketVars, mailVars, draft, completed, intent, observation, observed, store, faults>>

PassEnd ==
    /\ pass.pc = "reconcile" /\ pass.todo = {}
    /\ pass' = Idle
    /\ UNCHANGED <<ticketVars, mailVars, authorityVars, store, faults>>

\* A call fails and its item is left, or the pass dies.
PassFault ==
    /\ pass.pc # "idle"
    /\ faults < MaxFaults
    /\ faults' = faults + 1
    /\ \/ pass' = Idle
       \/ pass.pc = "ack" /\ pass' = [pass EXCEPT !.pc = "reconcile", !.at = None]
       \/ pass.pc # "ack" /\ \E p \in pass.todo : pass' = Without(p)
    /\ UNCHANGED <<ticketVars, mailVars, authorityVars, store>>

-----------------------------------------------------------------------------
OnTickets == UNCHANGED <<mailVars, authorityVars, store, pass, faults>>

Mailbox == \E p \in Proposal : \E n \in DOMAIN mail[p], state \in MailState : Human(p, n, state)

Authority ==
    \/ \E p \in Proposal : \/ UpsertBegin(p) \/ UpsertCreate(p) \/ UpsertComplete(p)
                           \/ DiscardBegin(p) \/ DiscardDelete(p) \/ DiscardRecord(p)
                           \/ DraftReceipt(p)
    \/ Rollback

Reconciler ==
    \/ \E p \in Proposal : Scan(p) \/ Bring(p) \/ Unknown(p)
    \/ PassStart \/ List \/ Acknowledge \/ PassEnd \/ PassFault

DraftNext == (WorkStep /\ OnTickets) \/ Mailbox \/ Authority \/ Reconciler

DraftSpec == DraftInit /\ [][DraftNext]_draftVars

-----------------------------------------------------------------------------
DraftTypeOK ==
    /\ TicketTypeOK
    /\ mail \in [Proposal -> Seq(MailState)]
    /\ draft \in [Proposal -> Nat] /\ \A p \in Proposal : draft[p] <= Len(mail[p])
    /\ completed \in Seq(Proposal) /\ observed \in Seq(Proposal)
    /\ intent \in [Proposal -> {"none", "verified", "completed"}]
    /\ observation \in [Proposal -> {"none", "sent", "discarded"}]
    /\ acked \subseteq Proposal /\ erased \subseteq Proposal
    /\ store \in [pc : {"create", "compose", "delete", "record"}, of : Proposal,
                  message : Nat, found : BOOLEAN] \cup {Free}
    /\ pass \in [pc : {"idle", "scan", "reconcile", "ack"}, todo : SUBSET Proposal,
                 at : Proposal \cup {None}]
    /\ faults \in 0..MaxFaults

(***************************************************************************)
(* Receipts are evidence.  A disposition "sent" has a message of the       *)
(* operation that was sent; "discarded" has the draft of the operation     *)
(* deleted unsent, by the authority, and nothing else of the operation in  *)
(* the mailbox, also not what an attempt that was rolled back has left.    *)
(* (What such an attempt made, and somebody sent and purged, leaves        *)
(* nothing to be seen: the operation is then discarded although it sent.)  *)
(***************************************************************************)
ReceiptsAreEvidence == \A p \in Proposal :
    /\ observation[p] = "sent" => \E n \in DOMAIN mail[p] : mail[p][n] \in {"sent", "purged"}
    /\ observation[p] = "discarded" =>
           p \in erased /\ In(p, draft[p], "deleted") /\ Remote(p) = {}

(***************************************************************************)
(* A disposition is acknowledged only when its ticket has it, for good:    *)
(* what is acknowledged is never listed again, whichever calls failed,     *)
(* lost their reply or were repeated.                                      *)
(***************************************************************************)
AckedIsReconciled == \A p \in acked : Applied(p) /\ draftRef[p] = observation[p]

(***************************************************************************)
(* ticket_draft_discard "persists a restart-safe discard intent": what the *)
(* authority deleted it can still account for.                             *)
(***************************************************************************)
IntentSurvives == \A p \in erased : store.of = p \/ intent[p] # "none"

=============================================================================
