-------------------------- MODULE TicketDraftsProofs --------------------------
(***************************************************************************)
(* Proofs about WorkTickets and TicketDrafts, for any sources, keys,       *)
(* proposals, pages and numbers of messages and faults.  First the tickets *)
(* alone: what a ticket waits for is there, and sources that share a key   *)
(* share a ticket.  The composition does to the tickets what WorkTickets   *)
(* allows, so what holds there holds here; receipts are evidence; and what *)
(* is acknowledged is on its ticket.                                       *)
(*                                                                         *)
(* TicketsBacked is not inductive.  That a receipt finds its draft without *)
(* a disposition, and that an author who reads a ticket has no claim yet,  *)
(* follows from how far a proposal can be at which revision of its ticket. *)
(***************************************************************************)
EXTENDS TicketDrafts, TLAPS

-----------------------------------------------------------------------------
(* The work lifecycle alone *)

\* A proposal is about a ticket, and what it has is what its route gives.
Routed == \A p \in Proposal :
    /\ proposal[p].route # "none" => proposal[p].ticket \in Source
    /\ claim[p] # "none" => proposal[p].route = "response_draft"
    /\ link[p] # "none" => proposal[p].route = "followup_task"
    /\ draftRef[p] # "none" => claim[p] # "none"

\* A claim is one revision, a recorded draft two revisions after what was read.
BehindAt(p) ==
    LET r == ticket[proposal[p].ticket].revision IN
    /\ claim[p] # "none" => r >= proposal[p].revision + 1
    /\ draftRef[p] # "none" => r >= proposal[p].revision + 2

Behind == \A p \in Proposal : BehindAt(p)

\* The keys of a source lead to its ticket.
KeysLead == \A s \in Source : attached[s] # None =>
    \A k \in Correlation[s] : keyed[k] = attached[s]

TicketInv == TicketTypeOK /\ Routed /\ Behind /\ TicketsBacked /\ KeysLead

-----------------------------------------------------------------------------
LEMMA TicketInitInv == TicketInit => TicketInv
  <1> SUFFICES ASSUME TicketInit PROVE TicketInv
    OBVIOUS
  <1>1. TicketTypeOK
    BY DEF TicketInit, TicketTypeOK, Status, Route
  <1>2. Routed /\ Behind /\ KeysLead
    BY DEF TicketInit, Routed, Behind, BehindAt, KeysLead
  <1>3. TicketsBacked
    BY DEF TicketInit, TicketsBacked, OneOpenDraft, Backed, Of
  <1> QED BY <1>1, <1>2, <1>3 DEF TicketInv

\* A step that leaves a ticket, its proposals' claims, drafts and tasks alone
\* leaves it backed.
LEMMA BackedKept ==
  ASSUME NEW t \in Source, Backed(t), ticket'[t] = ticket[t],
         \A p \in Proposal : p \in Of(t) <=> p \in Of(t)',
         \A p \in Of(t) : /\ claim'[p] = claim[p] /\ draftRef'[p] = draftRef[p]
                          /\ link'[p] = link[p] /\ proposal'[p].revision = proposal[p].revision
  PROVE  Backed(t)'
  BY DEF Backed, Of

\* Revisions only grow, so a proposal that gets nothing new stays behind.
LEMMA LaterIsBehind ==
  ASSUME TicketInv, TicketTypeOK', NEW p \in Proposal,
         \A u \in Source : ticket'[u].revision >= ticket[u].revision,
         proposal'[p].ticket = proposal[p].ticket, proposal'[p].revision = proposal[p].revision,
         claim'[p] # "none" => claim[p] # "none",
         draftRef'[p] # "none" => draftRef[p] # "none"
  PROVE  BehindAt(p)'
  <1> DEFINE u == proposal[p].ticket
  <1>1. CASE claim[p] = "none"
    <2>1. draftRef[p] = "none"
      BY <1>1 DEF TicketInv, Routed
    <2> QED BY <1>1, <2>1 DEF BehindAt
  <1>2. CASE claim[p] # "none"
    <2>1. u \in Source
      BY <1>2 DEF TicketInv, Routed
    <2>2. ticket[u].revision \in Nat /\ ticket'[u].revision \in Nat /\ proposal[p].revision \in Nat
      BY <2>1 DEF TicketInv, TicketTypeOK
    <2>3. ticket'[u].revision >= ticket[u].revision
      BY <2>1
    <2>4. /\ claim[p] # "none" => ticket[u].revision >= proposal[p].revision + 1
          /\ draftRef[p] # "none" => ticket[u].revision >= proposal[p].revision + 2
      BY DEF TicketInv, Behind, BehindAt
    <2>5. proposal'[p].ticket = u
      OBVIOUS
    <2> HIDE DEF u
    <2>6. /\ claim'[p] # "none" => ticket'[u].revision >= proposal[p].revision + 1
          /\ draftRef'[p] # "none" => ticket'[u].revision >= proposal[p].revision + 2
      BY <2>2, <2>3, <2>4
    <2> QED BY <2>5, <2>6 DEF BehindAt
  <1> QED BY <1>1, <1>2

\* Revisions go up by one, and nothing happens to the other tickets.
LEMMA Moves ==
  ASSUME TicketTypeOK, NEW t \in Source, NEW status \in Status,
         Transition(t, status) \/ Announce(t, status)
  PROVE  /\ ticket' \in [Source -> [status : Status, revision : Nat, due : Nat]]
         /\ ticket'[t].status = status /\ ticket'[t].revision = ticket[t].revision + 1
         /\ \A u \in Source : u # t => ticket'[u] = ticket[u]
         /\ \A u \in Source : ticket'[u].revision >= ticket[u].revision
  <1>1. ticket \in [Source -> [status : Status, revision : Nat, due : Nat]]
    BY DEF TicketTypeOK
  <1>2. CASE Transition(t, status)
    BY <1>1, <1>2 DEF Transition
  <1>3. CASE Announce(t, status)
    BY <1>1, <1>3 DEF Announce
  <1> QED BY <1>2, <1>3

\* What is done to one ticket and to its proposals leaves the others backed.
LEMMA OthersBacked ==
  ASSUME TicketInv, NEW t \in Source, Backed(t)',
         \A u \in Source : u # t => ticket'[u] = ticket[u],
         \A p \in Proposal : /\ proposal'[p].ticket = proposal[p].ticket
                             /\ proposal'[p].revision = proposal[p].revision,
         \A p \in Proposal : proposal[p].ticket # t =>
             /\ claim'[p] = claim[p] /\ draftRef'[p] = draftRef[p] /\ link'[p] = link[p]
  PROVE  \A u \in Source : Backed(u)'
  <1> SUFFICES ASSUME NEW u \in Source, u # t PROVE Backed(u)'
    OBVIOUS
  <1>1. Backed(u) /\ ticket'[u] = ticket[u]
    BY DEF TicketInv, TicketsBacked
  <1>2. \A p \in Proposal : p \in Of(u) <=> p \in Of(u)'
    BY DEF Of
  <1>3. \A p \in Of(u) : p \in Proposal /\ proposal[p].ticket # t
    BY DEF Of
  <1> QED BY <1>1, <1>2, <1>3, BackedKept

LEMMA AdmitSourceInv ==
  ASSUME TicketInv, NEW s \in Source, NEW t \in Source, AdmitSource(s, t)
  PROVE  TicketInv'
  <1> USE TicketAssumption DEF TicketInv
  <1>1. TicketTypeOK'
    BY DEF AdmitSource, Reactivate, Announce, TicketTypeOK, Status
  <1>2. \A u \in Source : ticket'[u].revision >= ticket[u].revision
    BY DEF AdmitSource, Reactivate, Announce, TicketTypeOK
  <1>3. Routed' /\ OneOpenDraft'
    BY DEF AdmitSource, Routed, TicketsBacked, OneOpenDraft
  <1>4. Behind'
    BY <1>1, <1>2, LaterIsBehind DEF AdmitSource, Behind
  <1>5. ASSUME NEW u \in Source PROVE Backed(u)'
    <2>1. CASE u = t
      BY <2>1 DEF AdmitSource, Reactivate, Announce, TicketTypeOK, Backed
    <2>2. CASE u # t
      BY <2>2, BackedKept DEF AdmitSource, Reactivate, Announce, TicketTypeOK, TicketsBacked, Of
    <2> QED BY <2>1, <2>2
  <1>6. KeysLead'
    <2> SUFFICES ASSUME NEW u \in Source, attached'[u] # None, NEW k \in Correlation[u]
                 PROVE  keyed'[k] = attached'[u]
      BY DEF KeysLead
    <2>1. k \in Key /\ t # None
      BY DEF TicketTypeOK
    <2>2. CASE u = s
      BY <2>1, <2>2 DEF AdmitSource, TicketTypeOK
    <2>3. CASE u # s
      <3>1. attached'[u] = attached[u] /\ keyed[k] = attached[u] /\ keyed[k] # None
        BY <2>3 DEF AdmitSource, TicketTypeOK, KeysLead
      <3>2. k \in Correlation[s] => keyed[k] = t
        BY <3>1, <2>1 DEF AdmitSource, Candidates
      <3> QED BY <3>1, <3>2, <2>1 DEF AdmitSource
    <2> QED BY <2>2, <2>3
  <1> QED BY <1>1, <1>3, <1>4, <1>5, <1>6 DEF TicketsBacked

LEMMA ReadContextInv ==
  ASSUME TicketInv, NEW p \in Proposal, NEW t \in Source, ReadContext(p, t)
  PROVE  TicketInv'
  <1> USE DEF TicketInv
  <1>1. TicketTypeOK'
    BY DEF ReadContext, TicketTypeOK, Route
  <1>2. claim[p] = "none" /\ draftRef[p] = "none" /\ link[p] = "none"
    BY DEF ReadContext, Routed, TicketTypeOK
  <1>3. /\ proposal'[p].ticket = t /\ proposal'[p].route = "read"
        /\ \A q \in Proposal : q # p => proposal'[q] = proposal[q]
    BY DEF ReadContext, TicketTypeOK
  <1>4. Routed' /\ Behind'
    BY <1>2, <1>3 DEF ReadContext, Routed, Behind, BehindAt
  <1>5. OneOpenDraft'
    BY <1>2, <1>3 DEF ReadContext, TicketsBacked, OneOpenDraft
  <1>6. ASSUME NEW u \in Source PROVE Backed(u)'
    <2>1. Backed(u) /\ ticket' = ticket /\ claim' = claim /\ draftRef' = draftRef /\ link' = link
      BY DEF ReadContext, TicketsBacked
    <2>2. \A q \in Proposal : q # p => (q \in Of(u) <=> q \in Of(u)')
      BY <1>3 DEF Of
    <2>3. Of(u) \subseteq Proposal /\ Of(u)' \subseteq Proposal
      BY DEF Of
    <2> QED BY <1>2, <1>3, <2>1, <2>2, <2>3 DEF Backed
  <1>7. KeysLead'
    BY DEF ReadContext, KeysLead
  <1> QED BY <1>1, <1>4, <1>5, <1>6, <1>7 DEF TicketsBacked

\* What the four routes have in common.
LEMMA AdmitKeeps ==
  ASSUME TicketInv, NEW p \in Proposal, NEW route \in Route, Current(p), Admit(p, route)
  PROVE  /\ proposal[p].ticket \in Source /\ proposal'[p].route = route
         /\ claim[p] = "none" /\ draftRef[p] = "none" /\ link[p] = "none"
         /\ proposal[p].revision = ticket[proposal[p].ticket].revision
         /\ \A q \in Proposal : /\ proposal'[q].ticket = proposal[q].ticket
                                /\ proposal'[q].revision = proposal[q].revision
                                /\ q # p => proposal'[q] = proposal[q]
         /\ proposal' \in [Proposal -> [ticket : Source \cup {None}, revision : Nat,
                                       route : Route \cup {"none", "read"}]]
  <1>1. proposal[p].route = "read" /\ proposal[p].ticket \in Source
    BY DEF TicketInv, Routed, Current
  <1>2. claim[p] = "none" /\ draftRef[p] = "none" /\ link[p] = "none"
    BY <1>1 DEF TicketInv, Routed
  <1>3. /\ proposal'[p].route = route
        /\ \A q \in Proposal : /\ proposal'[q].ticket = proposal[q].ticket
                               /\ proposal'[q].revision = proposal[q].revision
                               /\ q # p => proposal'[q] = proposal[q]
        /\ proposal' \in [Proposal -> [ticket : Source \cup {None}, revision : Nat,
                                      route : Route \cup {"none", "read"}]]
    BY DEF Admit, TicketInv, TicketTypeOK
  <1> QED BY <1>1, <1>2, <1>3 DEF Current

\* A proposal that is admitted gets at most a claim or a task, and no draft.
LEMMA ProposeInv ==
  ASSUME TicketInv, NEW p \in Proposal,
         ProposeTask(p) \/ ProposeDraft(p) \/ ProposeResolved(p) \/ ProposeBlocked(p)
  PROVE  TicketInv'
  <1> DEFINE t == proposal[p].ticket
  <1>1. PICK route \in Route, status \in Status :
          /\ Current(p) /\ Admit(p, route) /\ Transition(t, status)
          /\ <<route, status>> \in {<<"followup_task", "waiting_on_task">>,
                <<"response_draft", "effect_claimed">>, <<"resolved", "resolved">>,
                <<"blocked_operator", "blocked">>}
          /\ claim' = IF route = "response_draft" THEN [claim EXCEPT ![p] = "claimed"] ELSE claim
          /\ link' = IF route = "followup_task" THEN [link EXCEPT ![p] = "active"] ELSE link
          /\ route = "resolved" => Unfinished(t) = {}
          /\ UNCHANGED <<attached, keyed, draftRef>>
    BY DEF ProposeTask, ProposeDraft, ProposeResolved, ProposeBlocked, Route, Status
  <1>2. /\ t \in Source /\ proposal'[p].route = route
        /\ claim[p] = "none" /\ draftRef[p] = "none" /\ link[p] = "none"
        /\ proposal[p].revision = ticket[t].revision
        /\ \A q \in Proposal : /\ proposal'[q].ticket = proposal[q].ticket
                               /\ proposal'[q].revision = proposal[q].revision
                               /\ q # p => proposal'[q] = proposal[q]
        /\ proposal' \in [Proposal -> [ticket : Source \cup {None}, revision : Nat,
                                      route : Route \cup {"none", "read"}]]
    BY <1>1, AdmitKeeps
  <1>3. /\ ticket' \in [Source -> [status : Status, revision : Nat, due : Nat]]
        /\ ticket'[t].status = status /\ ticket'[t].revision = ticket[t].revision + 1
        /\ \A u \in Source : u # t => ticket'[u] = ticket[u]
        /\ \A u \in Source : ticket'[u].revision >= ticket[u].revision
    <2>1. TicketTypeOK
      BY DEF TicketInv
    <2> QED BY <1>1, <1>2, <2>1, Moves
  <1>4. /\ claim'[p] = (IF route = "response_draft" THEN "claimed" ELSE "none")
        /\ link'[p] = (IF route = "followup_task" THEN "active" ELSE "none")
        /\ \A q \in Proposal : q # p => claim'[q] = claim[q] /\ link'[q] = link[q]
        /\ draftRef' = draftRef
    BY <1>1, <1>2 DEF TicketInv, TicketTypeOK
  <1>5. TicketTypeOK'
    BY <1>1, <1>2, <1>3 DEF TicketInv, TicketTypeOK
  <1>6. Routed'
    BY <1>1, <1>2, <1>4 DEF TicketInv, Routed
  <1>7. Behind'
    <2> SUFFICES ASSUME NEW q \in Proposal PROVE BehindAt(q)'
      BY DEF Behind
    <2>1. CASE q = p
      <3>1. proposal[p].revision \in Nat
        BY DEF TicketInv, TicketTypeOK
      <3>2. /\ proposal'[q].ticket = t /\ proposal'[q].revision = proposal[p].revision
            /\ ticket'[t].revision >= proposal[p].revision + 1 /\ draftRef'[q] = "none"
        BY <1>2, <1>3, <1>4, <2>1, <3>1
      <3> QED BY <3>2 DEF BehindAt
    <2>2. CASE q # p
      BY <1>2, <1>3, <1>4, <1>5, <2>2, LaterIsBehind
    <2> QED BY <2>1, <2>2
  <1>8. OneOpenDraft'
    BY <1>2, <1>4 DEF TicketInv, TicketsBacked, OneOpenDraft
  <1>9. \A u \in Source : Backed(u)'
    <2>1. p \in Of(t)'
      BY <1>2 DEF Of
    <2>2. proposal'[p].revision + 1 = ticket'[t].revision
      BY <1>2, <1>3
    <2>3. route = "resolved" => \A q \in Of(t)' : draftRef'[q] # "open"
      BY <1>1, <1>2, <1>4 DEF Of, Unfinished
    <2>4. t' = t /\ claim'[p] = (IF route = "response_draft" THEN "claimed" ELSE "none")
      BY <1>2, <1>4
    <2>5. /\ status = "effect_claimed" =>
                \E q \in Of(t)' : claim'[q] = "claimed" /\ proposal'[q].revision + 1 = ticket'[t].revision
          /\ status = "waiting_on_task" => \E q \in Of(t)' : link'[q] = "active"
          /\ status = "resolved" => route = "resolved"
          /\ status \notin {"actionable", "waiting_on_draft"}
      BY <1>1, <1>4, <2>1, <2>2
    <2>6. Backed(t)'
      BY <1>3, <2>3, <2>4, <2>5 DEF Backed
    <2> QED BY <1>2, <1>3, <1>4, <2>6, OthersBacked
  <1>10. KeysLead'
    BY <1>1 DEF TicketInv, KeysLead
  <1> QED BY <1>5, <1>6, <1>7, <1>8, <1>9, <1>10 DEF TicketInv, TicketsBacked

\* What holds of every step that disposes of drafts or ends tasks of one
\* ticket and moves it: the proposals keep their places.
LEMMA DisposeInv ==
  ASSUME TicketInv, NEW p \in Proposal, NEW status \in Status, proposal[p].route # "none",
         LET t == proposal[p].ticket IN Transition(t, status) \/ Announce(t, status),
         UNCHANGED <<attached, keyed, proposal>>, TicketTypeOK', Behind',
         \A q \in Proposal : /\ claim'[q] = "none" <=> claim[q] = "none"
                             /\ link'[q] = "none" <=> link[q] = "none"
                             /\ draftRef'[q] # "none" => claim[q] # "none",
         \A q \in Proposal : proposal[q].ticket # proposal[p].ticket =>
             claim'[q] = claim[q] /\ draftRef'[q] = draftRef[q] /\ link'[q] = link[q],
         OneOpenDraft', Backed(proposal[p].ticket)'
  PROVE  TicketInv'
  <1> DEFINE t == proposal[p].ticket
  <1>1. t \in Source /\ TicketTypeOK
    BY DEF TicketInv, Routed
  <1>2. \A u \in Source : u # t => ticket'[u] = ticket[u]
    BY <1>1, Moves
  <1>3. Routed'
    BY DEF TicketInv, Routed
  <1>4. KeysLead'
    BY DEF TicketInv, KeysLead
  <1>5. \A u \in Source : Backed(u)'
    BY <1>1, <1>2, OthersBacked
  <1> QED BY <1>3, <1>4, <1>5 DEF TicketInv, TicketsBacked

LEMMA SupersedeClaimInv ==
  ASSUME TicketInv, NEW p \in Proposal, SupersedeClaim(p)
  PROVE  TicketInv'
  <1>1. /\ claim[p] # "none" /\ claim'[p] = "superseded"
        /\ ticket[proposal[p].ticket].revision # proposal[p].revision + 1
        /\ \A q \in Proposal : q # p => claim'[q] = claim[q]
        /\ UNCHANGED <<ticket, attached, keyed, proposal, draftRef, link>>
    BY DEF SupersedeClaim, Claimed, TicketInv, TicketTypeOK
  <1>2. TicketTypeOK'
    BY DEF SupersedeClaim, TicketInv, TicketTypeOK
  <1>3. Routed'
    BY <1>1 DEF TicketInv, Routed
  <1>4. Behind'
    BY <1>1 DEF TicketInv, Behind, BehindAt
  <1>5. OneOpenDraft' /\ KeysLead'
    BY <1>1 DEF TicketInv, TicketsBacked, OneOpenDraft, KeysLead
  <1>6. ASSUME NEW u \in Source PROVE Backed(u)'
    <2>1. Backed(u)
      BY DEF TicketInv, TicketsBacked
    <2>2. \A q : q \in Of(u) <=> q \in Of(u)'
      BY <1>1 DEF Of
    <2>3. \A q \in Of(u) : proposal[q].revision + 1 = ticket[u].revision => claim'[q] = claim[q]
      BY <1>1 DEF Of
    <2> QED BY <1>1, <2>1, <2>2, <2>3 DEF Backed
  <1> QED BY <1>2, <1>3, <1>4, <1>5, <1>6 DEF TicketInv, TicketsBacked

\* The revision of a claim is still that of its ticket, so its draft is new.
LEMMA RecordReceiptInv ==
  ASSUME TicketInv, NEW p \in Proposal, RecordReceipt(p)
  PROVE  TicketInv'
  <1> DEFINE t == proposal[p].ticket
  <1>1. /\ claim[p] # "none" /\ ticket[t].revision = proposal[p].revision + 1
        /\ proposal[p].route # "none" /\ t \in Source /\ TicketTypeOK
        /\ proposal[p].revision \in Nat
    BY DEF RecordReceipt, Claimed, TicketInv, TicketTypeOK, Routed
  <1>2. draftRef[p] = "none"
    BY <1>1 DEF TicketInv, Behind, BehindAt
  <1>3. /\ draftRef'[p] = "open"
        /\ \A q \in Proposal : q # p =>
              draftRef'[q] = IF q \in Of(t) /\ draftRef[q] = "open" THEN "superseded" ELSE draftRef[q]
        /\ \A q \in Proposal : q # p => claim'[q] = claim[q]
        /\ claim'[p] # "none"
        /\ UNCHANGED <<attached, keyed, proposal, link>>
    BY <1>1, <1>2 DEF RecordReceipt, Supersede, TicketTypeOK
  <1>4. Transition(t, "waiting_on_draft") /\ "waiting_on_draft" \in Status
    BY DEF RecordReceipt, Status
  <1>5. /\ ticket' \in [Source -> [status : Status, revision : Nat, due : Nat]]
        /\ ticket'[t].status = "waiting_on_draft" /\ ticket'[t].revision = ticket[t].revision + 1
        /\ \A u \in Source : ticket'[u].revision >= ticket[u].revision
    BY <1>1, <1>4, Moves
  <1>6. TicketTypeOK'
    BY <1>1, <1>5 DEF RecordReceipt, Supersede, TicketTypeOK
  <1>7. Behind'
    <2> SUFFICES ASSUME NEW q \in Proposal PROVE BehindAt(q)'
      BY DEF Behind
    <2>1. CASE q = p
      <3>1. /\ proposal'[q].ticket = t /\ proposal'[q].revision = proposal[p].revision
            /\ ticket'[t].revision >= proposal[p].revision + 2
        BY <1>1, <1>3, <1>5, <2>1
      <3>2. ticket'[t].revision >= proposal[p].revision + 1
        BY <1>1, <1>5
      <3> QED BY <3>1, <3>2 DEF BehindAt
    <2>2. CASE q # p
      BY <1>3, <1>5, <1>6, <2>2, LaterIsBehind
    <2> QED BY <2>1, <2>2
  <1>8. /\ OneOpenDraft'
        /\ \A q \in Proposal : proposal[q].ticket # t => q # p /\ q \notin Of(t)
    BY <1>3 DEF TicketInv, TicketsBacked, OneOpenDraft, Of
  <1>9. Backed(t)'
    <2>1. t' = t /\ p \in Of(t)'
      BY <1>3 DEF Of
    <2>2. draftRef'[p] = "open" /\ proposal'[p].revision + 2 = ticket'[t].revision
      BY <1>1, <1>3, <1>5
    <2> QED BY <1>5, <2>1, <2>2 DEF Backed
  <1>10. \A q \in Proposal : /\ claim'[q] = "none" <=> claim[q] = "none"
                             /\ draftRef'[q] # "none" => claim[q] # "none"
    BY <1>1, <1>3 DEF TicketInv, Routed
  <1> QED BY <1>1, <1>3, <1>4, <1>6, <1>7, <1>8, <1>9, <1>10, DisposeInv

LEMMA ReconcileInv ==
  ASSUME TicketInv, NEW p \in Proposal, Reconcile(p)
  PROVE  TicketInv'
  <1> DEFINE t == proposal[p].ticket
  <1>1. /\ draftRef[p] # "none" /\ claim[p] # "none" /\ proposal[p].route # "none"
        /\ t \in Source /\ TicketTypeOK
    BY DEF Reconcile, ReconcileSent, ReconcileDiscarded, Disposable, TicketInv, Routed
  <1>2. PICK status \in {"resolved", "actionable"} :
          /\ Announce(t, status)
          /\ status = "resolved" => Supersede(p, "sent")
          /\ status = "actionable" => draftRef' = [draftRef EXCEPT ![p] = "discarded"]
          /\ UNCHANGED <<attached, keyed, proposal, claim, link>>
    BY DEF Reconcile, ReconcileSent, ReconcileDiscarded, Reactivate
  <1>3. /\ draftRef'[p] \notin {"none", "open"}
        /\ \A q \in Proposal : q # p => draftRef'[q] = draftRef[q] \/ draftRef'[q] = "superseded"
        /\ \A q \in Proposal : draftRef'[q] # "none" => draftRef[q] # "none"
        /\ \A q \in Proposal : q \notin Of(t) => draftRef'[q] = draftRef[q]
        /\ status = "resolved" => \A q \in Of(t) : draftRef'[q] # "open"
        /\ draftRef' \in [Proposal -> {"none", "open", "superseded", "sent", "discarded"}]
    <2>1. draftRef \in [Proposal -> {"none", "open", "superseded", "sent", "discarded"}]
      BY <1>1 DEF TicketTypeOK
    <2>2. CASE status = "resolved"
      <3>1. draftRef' = [q \in Proposal |->
              IF q = p THEN "sent"
              ELSE IF q \in Of(t) /\ draftRef[q] = "open" THEN "superseded" ELSE draftRef[q]]
        BY <1>2, <2>2 DEF Supersede
      <3>2. p \in Of(t) /\ Of(t) \subseteq Proposal
        BY DEF Of
      <3> HIDE DEF t
      <3> QED BY <1>1, <2>1, <2>2, <3>1, <3>2
    <2>3. CASE status = "actionable"
      <3>1. draftRef' = [draftRef EXCEPT ![p] = "discarded"]
        BY <1>2, <2>3
      <3>2. p \in Of(t) /\ Of(t) \subseteq Proposal
        BY DEF Of
      <3> HIDE DEF t
      <3> QED BY <1>1, <2>1, <2>3, <3>1, <3>2
    <2> QED BY <2>2, <2>3
  <1>4. status \in Status
    BY DEF Status
  <1>5. /\ ticket' \in [Source -> [status : Status, revision : Nat, due : Nat]]
        /\ ticket'[t].status = status
        /\ \A u \in Source : ticket'[u].revision >= ticket[u].revision
    BY <1>1, <1>2, <1>4, Moves
  <1>6. TicketTypeOK'
    BY <1>1, <1>2, <1>3, <1>5 DEF TicketTypeOK
  <1>7. Behind'
    BY <1>2, <1>3, <1>5, <1>6, LaterIsBehind DEF Behind
  <1>8. OneOpenDraft'
    BY <1>2, <1>3 DEF TicketInv, TicketsBacked, OneOpenDraft
  <1>9. Backed(t)'
    <2>1. t' = t /\ Of(t)' = Of(t)
      BY <1>2 DEF Of
    <2>2. ticket'[t].due = ticket'[t].revision
      BY <1>1, <1>2 DEF Announce, TicketTypeOK
    <2> QED BY <1>2, <1>3, <1>5, <2>1, <2>2 DEF Backed
  <1>10. \A q \in Proposal : proposal[q].ticket # t => draftRef'[q] = draftRef[q]
    BY <1>3 DEF Of
  <1>11. \A q \in Proposal : draftRef'[q] # "none" => claim[q] # "none"
    BY <1>3 DEF TicketInv, Routed
  <1> QED BY <1>1, <1>2, <1>4, <1>6, <1>7, <1>8, <1>9, <1>10, <1>11, DisposeInv

LEMMA FinishTaskInv ==
  ASSUME TicketInv, NEW p \in Proposal, FinishTask(p)
  PROVE  TicketInv'
  <1> DEFINE t == proposal[p].ticket
  <1>1. proposal[p].route # "none" /\ t \in Source /\ TicketTypeOK
    BY DEF FinishTask, TicketInv, Routed
  <1>2. /\ Announce(t, "actionable") /\ "actionable" \in Status
        /\ UNCHANGED <<attached, keyed, proposal, claim, draftRef>>
    BY DEF FinishTask, Reactivate, Status
  <1>3. /\ link[p] = "active" /\ link'[p] = "terminal"
        /\ \A q \in Proposal : q # p => link'[q] = link[q]
        /\ link' \in [Proposal -> {"none", "active", "terminal"}]
    BY <1>1 DEF FinishTask, TicketTypeOK
  <1>4. /\ ticket' \in [Source -> [status : Status, revision : Nat, due : Nat]]
        /\ ticket'[t].status = "actionable"
        /\ \A u \in Source : ticket'[u].revision >= ticket[u].revision
    BY <1>1, <1>2, Moves
  <1>5. TicketTypeOK'
    BY <1>1, <1>2, <1>3, <1>4 DEF TicketTypeOK
  <1>6. Behind'
    BY <1>2, <1>4, <1>5, LaterIsBehind DEF Behind
  <1>7. OneOpenDraft'
    BY <1>2 DEF TicketInv, TicketsBacked, OneOpenDraft
  <1>8. Backed(t)'
    <2>1. t' = t /\ ticket'[t].due = ticket'[t].revision
      BY <1>1, <1>2 DEF Announce, TicketTypeOK
    <2> QED BY <1>4, <2>1 DEF Backed
  <1>9. \A q \in Proposal : draftRef'[q] # "none" => claim[q] # "none"
    BY <1>2 DEF TicketInv, Routed
  <1> QED BY <1>1, <1>2, <1>3, <1>5, <1>6, <1>7, <1>8, <1>9, DisposeInv

-----------------------------------------------------------------------------
THEOREM TicketInvariant == TicketSpec => []TicketInv
  <1>1. TicketInit => TicketInv
    BY TicketInitInv
  <1>2. TicketInv /\ [TicketNext]_ticketVars => TicketInv'
    <2> SUFFICES ASSUME TicketInv, [TicketNext]_ticketVars PROVE TicketInv'
      OBVIOUS
    <2>1. ASSUME NEW s \in Source, NEW t \in Source, AdmitSource(s, t) PROVE TicketInv'
      BY <2>1, AdmitSourceInv
    <2>2. ASSUME NEW p \in Proposal, NEW t \in Source, ReadContext(p, t) PROVE TicketInv'
      BY <2>2, ReadContextInv
    <2>3. ASSUME NEW p \in Proposal,
                 ProposeTask(p) \/ ProposeDraft(p) \/ ProposeResolved(p) \/ ProposeBlocked(p)
          PROVE  TicketInv'
      BY <2>3, ProposeInv
    <2>4. ASSUME NEW p \in Proposal, FinishTask(p) PROVE TicketInv'
      BY <2>4, FinishTaskInv
    <2>5. ASSUME NEW p \in Proposal, Receipt(p) PROVE TicketInv'
      BY <2>5, RecordReceiptInv, SupersedeClaimInv DEF Receipt
    <2>6. ASSUME NEW p \in Proposal, Reconcile(p) PROVE TicketInv'
      BY <2>6, ReconcileInv
    <2>7. CASE UNCHANGED ticketVars
      <3>1. ticket' = ticket /\ attached' = attached /\ keyed' = keyed /\ proposal' = proposal
        BY <2>7 DEF ticketVars
      <3>2. claim' = claim /\ draftRef' = draftRef /\ link' = link
        BY <2>7 DEF ticketVars
      <3> QED BY <3>1, <3>2 DEF TicketInv, TicketTypeOK, Routed, Behind, BehindAt, TicketsBacked,
                 OneOpenDraft, Backed, Of, KeysLead
    <2> QED BY <2>1, <2>2, <2>3, <2>4, <2>5, <2>6, <2>7 DEF TicketNext, WorkStep
  <1> QED BY <1>1, <1>2, PTL DEF TicketSpec

\* Tickets, claims, drafts and tasks keep their types.
THEOREM TicketTypes == TicketSpec => []TicketTypeOK
  <1>1. TicketInv => TicketTypeOK
    BY DEF TicketInv
  <1> QED BY <1>1, TicketInvariant, PTL

\* What a ticket waits for is there.
THEOREM TicketsStayBacked == TicketSpec => []TicketsBacked
  <1>1. TicketInv => TicketsBacked
    BY DEF TicketInv
  <1> QED BY <1>1, TicketInvariant, PTL

\* Sources that share a correlation key are on one ticket.
THEOREM ConversationsStayWhole == TicketSpec => []OneConversation
  <1>1. TicketInv => OneConversation
    BY DEF TicketInv, KeysLead, OneConversation
  <1> QED BY <1>1, TicketInvariant, PTL


-----------------------------------------------------------------------------
(* The tickets *)

LEMMA DraftStepOnTickets == DraftNext => [TicketNext]_ticketVars
  <1> SUFFICES ASSUME DraftNext PROVE TicketNext \/ UNCHANGED ticketVars
    OBVIOUS
  <1>1. CASE WorkStep /\ OnTickets
    BY <1>1 DEF TicketNext
  <1>2. CASE Mailbox
    BY <1>2 DEF Mailbox, Human
  <1>3. CASE Authority
    BY <1>3 DEF Authority, UpsertBegin, UpsertCreate, UpsertComplete, DiscardBegin,
                DiscardDelete, DiscardRecord, DraftReceipt, Rollback, TicketNext
  <1>4. CASE Reconciler
    BY <1>4 DEF Reconciler, Scan, Bring, Reconciled, Reconcile, Unknown, PassStart, List,
                Acknowledge, PassEnd, PassFault, TicketNext
  <1> QED BY <1>1, <1>2, <1>3, <1>4 DEF DraftNext

\* Every step of the composition is a call of the work lifecycle or leaves the
\* tickets alone.
THEOREM DraftsImplementTickets == DraftSpec => TicketSpec
  <1>1. DraftInit => TicketInit
    BY DEF DraftInit
  <1>2. [DraftNext]_draftVars => [TicketNext]_ticketVars
    BY DraftStepOnTickets DEF draftVars
  <1> QED BY <1>1, <1>2, PTL DEF DraftSpec, TicketSpec

\* Whatever happens to drafts, what a ticket waits for is there.
THEOREM DraftsKeepTicketsBacked == DraftSpec => []TicketsBacked
  BY DraftsImplementTickets, TicketsStayBacked, PTL

\* Whatever happens to drafts, a conversation has one ticket.
THEOREM DraftsKeepConversations == DraftSpec => []OneConversation
  BY DraftsImplementTickets, ConversationsStayWhole, PTL

-----------------------------------------------------------------------------
(* Types *)

MailTypeOK ==
    /\ mail \in [Proposal -> Seq(MailState)]
    /\ draft \in [Proposal -> Nat] /\ \A p \in Proposal : draft[p] <= Len(mail[p])
    /\ erased \subseteq Proposal

RecordTypeOK ==
    /\ completed \in Seq(Proposal) /\ observed \in Seq(Proposal)
    /\ intent \in [Proposal -> {"none", "verified", "completed"}]
    /\ observation \in [Proposal -> {"none", "sent", "discarded"}]
    /\ acked \subseteq Proposal

Held == [pc : {"create", "compose", "delete", "record"}, of : Proposal,
         message : Nat, found : BOOLEAN]

Passes == [pc : {"idle", "scan", "reconcile", "ack"}, todo : SUBSET Proposal,
           at : Proposal \cup {None}]

PlaceTypeOK ==
    /\ store \in Held \cup {Free}
    /\ pass \in Passes /\ (pass.pc = "ack" => pass.at \in Proposal)
    /\ faults \in 0..MaxFaults

OwnTypeOK == MailTypeOK /\ RecordTypeOK /\ PlaceTypeOK

LEMMA ObserveType ==
  ASSUME RecordTypeOK, NEW p \in Proposal, NEW d \in {"sent", "discarded"}, Observe(p, d)
  PROVE  /\ observed' \in Seq(Proposal)
         /\ observation' \in [Proposal -> {"none", "sent", "discarded"}]
  <1>1. CASE observation[p] = "none"
    <2>1. observation' = [observation EXCEPT ![p] = d] /\ observed' = Append(observed, p)
      BY <1>1 DEF Observe
    <2> QED BY <2>1 DEF RecordTypeOK
  <1>2. CASE observation[p] # "none"
    BY <1>2 DEF Observe, RecordTypeOK
  <1> QED BY <1>1, <1>2

LEMMA OldestIn == ASSUME NEW n, NEW I PROVE Oldest(n, I) \subseteq I
  BY DEF Oldest

LEMMA PagesAreProposals ==
  ASSUME RecordTypeOK PROVE ScanPage \subseteq Proposal /\ ListPage \subseteq Proposal
  <1>1. /\ \A i \in DOMAIN completed : completed[i] \in Proposal
        /\ \A i \in DOMAIN observed : observed[i] \in Proposal
    BY DEF RecordTypeOK
  <1> QED BY <1>1, OldestIn DEF ScanPage, ListPage

LEMMA MailboxType == ASSUME OwnTypeOK, Mailbox PROVE OwnTypeOK'
  <1>0. PICK p \in Proposal : \E n \in DOMAIN mail[p], state \in MailState : Human(p, n, state)
    BY DEF Mailbox
  <1>1. PICK n \in DOMAIN mail[p], state \in MailState : Human(p, n, state)
    BY <1>0
  <1>2. MailTypeOK'
    BY <1>1 DEF Human, OwnTypeOK, MailTypeOK, MailState, authorityVars
  <1>3. RecordTypeOK' /\ PlaceTypeOK'
    BY <1>1 DEF Human, OwnTypeOK, RecordTypeOK, PlaceTypeOK, authorityVars
  <1> QED BY <1>2, <1>3 DEF OwnTypeOK

LEMMA UpsertType ==
  ASSUME OwnTypeOK, NEW p \in Proposal, UpsertBegin(p) \/ UpsertCreate(p) \/ UpsertComplete(p)
  PROVE  OwnTypeOK'
  <1>1. CASE UpsertBegin(p)
    <2>1. MailTypeOK' /\ RecordTypeOK'
      BY <1>1 DEF UpsertBegin, OwnTypeOK, MailTypeOK, RecordTypeOK, mailVars, authorityVars
    <2>2. PlaceTypeOK'
      <3>1. \A n \in DOMAIN mail[p] : n \in Nat
        BY DEF OwnTypeOK, MailTypeOK
      <3>2. \/ store' = [pc |-> "create", of |-> p, message |-> 0, found |-> FALSE]
            \/ \E n \in Nat : store' = [pc |-> "compose", of |-> p, message |-> n, found |-> TRUE]
        BY <1>1, <3>1 DEF UpsertBegin
      <3>3. store' \in Held
        <4>1. CASE store' = [pc |-> "create", of |-> p, message |-> 0, found |-> FALSE]
          BY <4>1 DEF Held
        <4>2. ASSUME NEW n \in Nat,
                     store' = [pc |-> "compose", of |-> p, message |-> n, found |-> TRUE]
              PROVE  store' \in Held
          BY <4>2 DEF Held
        <4> QED BY <3>2, <4>1, <4>2
      <3> QED BY <1>1, <3>3 DEF UpsertBegin, OwnTypeOK, PlaceTypeOK
    <2> QED BY <2>1, <2>2 DEF OwnTypeOK
  <1>2. CASE UpsertCreate(p)
    <2>1. mail[p] \in Seq(MailState) /\ Len(mail[p]) \in Nat
      BY DEF OwnTypeOK, MailTypeOK
    <2>2. MailTypeOK'
      <3>1. Append(mail[p], "draft") \in Seq(MailState)
        BY <2>1 DEF MailState
      <3>2. Len(Append(mail[p], "draft")) = Len(mail[p]) + 1
        BY <2>1
      <3>3. mail' = [mail EXCEPT ![p] = Append(mail[p], "draft")] /\ draft' = draft /\ erased' = erased
        BY <1>2 DEF UpsertCreate, authorityVars
      <3> QED BY <2>1, <3>1, <3>2, <3>3 DEF OwnTypeOK, MailTypeOK
    <2>3. PlaceTypeOK'
      <3>1. store \in Held
        BY <1>2 DEF UpsertCreate, OwnTypeOK, PlaceTypeOK, Free
      <3>2. store' = [store EXCEPT !.pc = "compose", !.message = Len(mail[p]) + 1]
        BY <1>2 DEF UpsertCreate
      <3>3. store' \in Held
        <4> DEFINE m == Len(mail[p]) + 1
        <4>1. m \in Nat /\ store' = [store EXCEPT !.pc = "compose", !.message = m]
          BY <2>1, <3>2
        <4> HIDE DEF m
        <4> QED BY <3>1, <4>1 DEF Held
      <3> QED BY <1>2, <3>3 DEF UpsertCreate, OwnTypeOK, PlaceTypeOK
    <2>4. RecordTypeOK'
      BY <1>2 DEF UpsertCreate, OwnTypeOK, RecordTypeOK, authorityVars
    <2> QED BY <2>2, <2>3, <2>4 DEF OwnTypeOK
  <1>3. CASE UpsertComplete(p)
    <2>1. store.message \in DOMAIN mail[p]
      BY <1>3 DEF UpsertComplete, Composable, In
    <2>2. store.message \in Nat /\ store.message <= Len(mail[p])
      BY <2>1 DEF OwnTypeOK, MailTypeOK
    <2>3. MailTypeOK'
      BY <1>3, <2>2 DEF UpsertComplete, OwnTypeOK, MailTypeOK, mailVars
    <2>4. RecordTypeOK'
      BY <1>3 DEF UpsertComplete, OwnTypeOK, RecordTypeOK
    <2>5. PlaceTypeOK'
      BY <1>3 DEF UpsertComplete, OwnTypeOK, PlaceTypeOK
    <2> QED BY <2>3, <2>4, <2>5 DEF OwnTypeOK
  <1> QED BY <1>1, <1>2, <1>3

LEMMA DiscardType ==
  ASSUME OwnTypeOK, NEW p \in Proposal,
         DiscardBegin(p) \/ DiscardDelete(p) \/ DiscardRecord(p) \/ DraftReceipt(p)
  PROVE  OwnTypeOK'
  <1>1. CASE DiscardBegin(p)
    <2>1. MailTypeOK' /\ RecordTypeOK'
      BY <1>1 DEF DiscardBegin, OwnTypeOK, MailTypeOK, RecordTypeOK, mailVars, authorityVars
    <2>2. PlaceTypeOK'
      BY <1>1 DEF DiscardBegin, OwnTypeOK, MailTypeOK, PlaceTypeOK, Held
    <2> QED BY <2>1, <2>2 DEF OwnTypeOK
  <1>2. CASE DiscardDelete(p)
    <2>1. MailTypeOK'
      BY <1>2 DEF DiscardDelete, In, OwnTypeOK, MailTypeOK, MailState, authorityVars
    <2>2. RecordTypeOK'
      BY <1>2 DEF DiscardDelete, OwnTypeOK, RecordTypeOK, authorityVars
    <2>3. PlaceTypeOK'
      BY <1>2 DEF DiscardDelete, OwnTypeOK, PlaceTypeOK, Free, Held
    <2> QED BY <2>1, <2>2, <2>3 DEF OwnTypeOK
  <1>3. CASE DiscardRecord(p)
    <2>1. RecordTypeOK'
      BY <1>3, ObserveType DEF DiscardRecord, OwnTypeOK, RecordTypeOK
    <2>2. MailTypeOK' /\ PlaceTypeOK'
      BY <1>3 DEF DiscardRecord, OwnTypeOK, MailTypeOK, PlaceTypeOK, mailVars
    <2> QED BY <2>1, <2>2 DEF OwnTypeOK
  <1>4. CASE DraftReceipt(p)
    BY <1>4 DEF DraftReceipt, OwnTypeOK, MailTypeOK, RecordTypeOK, PlaceTypeOK, mailVars, authorityVars
  <1> QED BY <1>1, <1>2, <1>3, <1>4

LEMMA RollbackType == ASSUME OwnTypeOK, Rollback PROVE OwnTypeOK'
  BY DraftAssumption
     DEF Rollback, OwnTypeOK, MailTypeOK, RecordTypeOK, PlaceTypeOK, mailVars, authorityVars

LEMMA ReconcilerType == ASSUME OwnTypeOK, Reconciler PROVE OwnTypeOK'
  <1> USE DEF OwnTypeOK
  <1>1. ASSUME NEW p \in Proposal, Scan(p) PROVE OwnTypeOK'
    <2>1. RecordTypeOK'
      BY <1>1, ObserveType DEF Scan, RecordTypeOK
    <2>2. MailTypeOK' /\ PlaceTypeOK'
      BY <1>1 DEF Scan, Without, MailTypeOK, PlaceTypeOK, Passes, mailVars
    <2> QED BY <2>1, <2>2
  <1>2. CASE PassStart \/ List
    <2>1. PlaceTypeOK'
      BY <1>2, PagesAreProposals DEF PassStart, List, PlaceTypeOK, Passes
    <2>2. MailTypeOK' /\ RecordTypeOK'
      BY <1>2 DEF PassStart, List, MailTypeOK, RecordTypeOK, mailVars, authorityVars
    <2> QED BY <2>1, <2>2
  <1>3. ASSUME NEW p \in Proposal, Bring(p) \/ Unknown(p) PROVE OwnTypeOK'
    <2>1. PlaceTypeOK'
      BY <1>3 DEF Bring, Unknown, Without, PlaceTypeOK, Passes
    <2>2. MailTypeOK' /\ RecordTypeOK'
      BY <1>3 DEF Bring, Unknown, MailTypeOK, RecordTypeOK, mailVars, authorityVars
    <2> QED BY <2>1, <2>2
  <1>4. CASE PassEnd \/ PassFault
    <2>1. Idle \in Passes
      BY DEF Idle, Passes
    <2>2. pass' \in Passes /\ pass'.pc # "ack"
      BY <1>4, <2>1 DEF PassEnd, Idle, PassFault, Without, PlaceTypeOK, Passes
    <2>3. faults' \in 0..MaxFaults
      BY <1>4, DraftAssumption DEF PassEnd, PassFault, PlaceTypeOK
    <2>4. PlaceTypeOK'
      BY <1>4, <2>2, <2>3 DEF PassEnd, PassFault, PlaceTypeOK
    <2>5. MailTypeOK' /\ RecordTypeOK'
      BY <1>4 DEF PassEnd, PassFault, MailTypeOK, RecordTypeOK, mailVars, authorityVars
    <2> QED BY <2>4, <2>5
  <1>5. CASE Acknowledge
    <2>1. PlaceTypeOK'
      BY <1>5 DEF Acknowledge, PlaceTypeOK, Passes
    <2>2. MailTypeOK' /\ RecordTypeOK'
      BY <1>5 DEF Acknowledge, MailTypeOK, RecordTypeOK, PlaceTypeOK, mailVars
    <2> QED BY <2>1, <2>2
  <1> QED BY <1>1, <1>2, <1>3, <1>4, <1>5 DEF Reconciler

LEMMA OwnTypeKept == ASSUME OwnTypeOK, [DraftNext]_draftVars PROVE OwnTypeOK'
  <1>1. CASE (WorkStep /\ OnTickets) \/ UNCHANGED draftVars
    <2>1. UNCHANGED <<mailVars, authorityVars, store, pass, faults>>
      BY <1>1 DEF OnTickets, draftVars
    <2> QED BY <2>1 DEF OwnTypeOK, MailTypeOK, RecordTypeOK, PlaceTypeOK, mailVars, authorityVars
  <1>2. CASE Mailbox
    BY <1>2, MailboxType
  <1>3. CASE Authority
    BY <1>3, UpsertType, DiscardType, RollbackType DEF Authority
  <1>4. CASE Reconciler
    BY <1>4, ReconcilerType
  <1> QED BY <1>1, <1>2, <1>3, <1>4 DEF DraftNext

LEMMA DraftOwnTypes == DraftSpec => []OwnTypeOK
  <1>1. DraftInit => OwnTypeOK
    <2> SUFFICES ASSUME DraftInit PROVE OwnTypeOK
      OBVIOUS
    <2>1. MailTypeOK /\ RecordTypeOK
      BY DEF DraftInit, MailTypeOK, RecordTypeOK
    <2>2. PlaceTypeOK
      BY DraftAssumption DEF DraftInit, PlaceTypeOK, Free, Idle, Passes
    <2> QED BY <2>1, <2>2 DEF OwnTypeOK
  <1>2. OwnTypeOK /\ [DraftNext]_draftVars => OwnTypeOK'
    BY OwnTypeKept
  <1> QED BY <1>1, <1>2, PTL DEF DraftSpec

\* Mails, records, the transaction and the pass keep their types.
THEOREM DraftTypes == DraftSpec => []DraftTypeOK
  <1>1. TicketTypeOK /\ OwnTypeOK => DraftTypeOK
    BY DEF DraftTypeOK, OwnTypeOK, MailTypeOK, RecordTypeOK, PlaceTypeOK, Held, Passes
  <1> QED BY <1>1, DraftOwnTypes, DraftsImplementTickets, TicketTypes, PTL

-----------------------------------------------------------------------------
(* Acknowledgements *)

\* A ticket has no disposition but the observed one, only what was observed is
\* listed, and what is about to be acknowledged was applied.
AckInv ==
    /\ \A p \in Proposal : Applied(p) => draftRef[p] = observation[p]
    /\ \A i \in DOMAIN observed : observation[observed[i]] # "none"
    /\ pass.pc \in {"reconcile", "ack"} => \A p \in pass.todo : observation[p] # "none"
    /\ pass.pc = "ack" => Applied(pass.at)
    /\ \A p \in acked : Applied(p)

\* What a step does to dispositions and observations.
DispositionsStay == \A p \in Proposal :
    /\ Applied(p) => draftRef'[p] = draftRef[p]
    /\ Applied(p)' => Applied(p) \/ draftRef'[p] = observation[p]

LEMMA UntouchedStay == ASSUME UNCHANGED draftRef PROVE DispositionsStay
  BY DEF DispositionsStay, Applied

LEMMA ReceiptStays ==
  ASSUME TicketInv, NEW p \in Proposal, Receipt(p) PROVE DispositionsStay
  <1>1. CASE SupersedeClaim(p)
    BY <1>1, UntouchedStay DEF SupersedeClaim
  <1>2. CASE RecordReceipt(p)
    <2>1. /\ claim[p] # "none" /\ proposal[p].revision \in Nat
          /\ ticket[proposal[p].ticket].revision = proposal[p].revision + 1
      BY <1>2 DEF RecordReceipt, Claimed, TicketInv, TicketTypeOK
    <2>2. draftRef[p] = "none"
      BY <2>1 DEF TicketInv, Behind, BehindAt
    <2>3. /\ draftRef'[p] = "open"
          /\ \A q \in Proposal : q # p =>
                draftRef'[q] = draftRef[q] \/ (draftRef[q] = "open" /\ draftRef'[q] = "superseded")
      BY <1>2, <2>2 DEF RecordReceipt, Supersede
    <2> QED BY <2>2, <2>3 DEF DispositionsStay, Applied
  <1> QED BY <1>1, <1>2 DEF Receipt

LEMMA BringStays ==
  ASSUME TicketInv, OwnTypeOK, AckInv, NEW p \in Proposal, Bring(p)
  PROVE  DispositionsStay /\ Applied(p)'
  <1>1. observation[p] \in {"sent", "discarded"}
    BY DEF Bring, AckInv, OwnTypeOK, RecordTypeOK
  <1>2. CASE Applied(p) /\ UNCHANGED ticketVars
    <2>1. UNCHANGED draftRef
      BY <1>2 DEF ticketVars
    <2> QED BY <1>2, <2>1, UntouchedStay DEF Applied
  <1>3. CASE observation[p] = "sent" /\ ReconcileSent(p)
    <2>1. /\ draftRef'[p] = "sent" /\ ~Applied(p)
          /\ \A q \in Proposal : q # p =>
                draftRef'[q] = draftRef[q] \/ (draftRef[q] = "open" /\ draftRef'[q] = "superseded")
      BY <1>3 DEF ReconcileSent, Disposable, Supersede, Applied
    <2> QED BY <1>3, <2>1 DEF DispositionsStay, Applied
  <1>4. CASE observation[p] = "discarded" /\ ReconcileDiscarded(p)
    <2>1. /\ draftRef'[p] = "discarded" /\ ~Applied(p)
          /\ \A q \in Proposal : q # p => draftRef'[q] = draftRef[q]
      BY <1>4 DEF ReconcileDiscarded, Disposable, TicketInv, TicketTypeOK, Applied
    <2> QED BY <1>4, <2>1 DEF DispositionsStay, Applied
  <1> QED BY <1>1, <1>2, <1>3, <1>4 DEF Bring, Reconciled

\* A step that makes no observation and moves no pass.
LEMMA StayInv ==
  ASSUME AckInv, OwnTypeOK, DispositionsStay,
         UNCHANGED <<observation, observed, pass, acked>>
  PROVE  AckInv'
  <1>1. \A p \in Proposal : Applied(p) => Applied(p)'
    BY DEF DispositionsStay, Applied
  <1>2. pass.pc = "ack" => pass.at \in Proposal
    BY DEF OwnTypeOK, PlaceTypeOK
  <1>3. acked \subseteq Proposal
    BY DEF OwnTypeOK, RecordTypeOK
  <1>4. \A p \in Proposal : Applied(p)' => draftRef'[p] = observation'[p]
    BY DEF AckInv, DispositionsStay
  <1> QED BY <1>1, <1>2, <1>3, <1>4 DEF AckInv

\* An operation that has an observation keeps it.
LEMMA ObserveInv ==
  ASSUME OwnTypeOK, AckInv, NEW p \in Proposal, NEW d \in {"sent", "discarded"}, Observe(p, d)
  PROVE  /\ \A q \in Proposal : observation[q] # "none" => observation'[q] = observation[q]
         /\ \A i \in DOMAIN observed' : observation'[observed'[i]] # "none"
  <1>1. CASE observation[p] = "none"
    <2>1. /\ observation' = [observation EXCEPT ![p] = d] /\ observed' = Append(observed, p)
          /\ observation \in [Proposal -> {"none", "sent", "discarded"}] /\ observed \in Seq(Proposal)
      BY <1>1 DEF Observe, OwnTypeOK, RecordTypeOK
    <2>2. \A q \in Proposal : observation[q] # "none" => observation'[q] # "none"
      BY <2>1
    <2>3. \A i \in DOMAIN observed' : observed'[i] = p \/ (i \in DOMAIN observed /\ observed'[i] = observed[i])
      BY <2>1
    <2>4. \A i \in DOMAIN observed : observed[i] \in Proposal
      BY <2>1
    <2>5. observation'[p] # "none"
      BY <2>1
    <2> QED BY <1>1, <2>1, <2>2, <2>3, <2>4, <2>5 DEF AckInv
  <1>2. CASE observation[p] # "none"
    BY <1>2 DEF Observe, AckInv
  <1> QED BY <1>1, <1>2

LEMMA DiscardRecordInv ==
  ASSUME OwnTypeOK, AckInv, NEW p \in Proposal, DiscardRecord(p) PROVE AckInv'
  <1>1. /\ \A q \in Proposal : observation[q] # "none" => observation'[q] = observation[q]
        /\ \A i \in DOMAIN observed' : observation'[observed'[i]] # "none"
    BY ObserveInv DEF DiscardRecord
  <1>2. UNCHANGED <<draftRef, pass, acked>>
    BY DEF DiscardRecord, ticketVars
  <1>3. pass.todo \subseteq Proposal
    BY DEF OwnTypeOK, PlaceTypeOK, Passes
  <1> QED BY <1>1, <1>2, <1>3 DEF AckInv, Applied

LEMMA ScanInv ==
  ASSUME OwnTypeOK, AckInv, NEW p \in Proposal, Scan(p) PROVE AckInv'
  <1>1. /\ \A q \in Proposal : observation[q] # "none" => observation'[q] = observation[q]
        /\ \A i \in DOMAIN observed' : observation'[observed'[i]] # "none"
    <2>1. CASE Observe(p, "sent")
      BY <2>1, ObserveInv
    <2>2. CASE UNCHANGED <<observation, observed>>
      BY <2>2 DEF AckInv
    <2> QED BY <2>1, <2>2 DEF Scan
  <1>2. UNCHANGED <<draftRef, acked>> /\ pass'.pc = "scan"
    BY DEF Scan, Without, ticketVars, OwnTypeOK, PlaceTypeOK, Passes
  <1> QED BY <1>1, <1>2 DEF AckInv, Applied

LEMMA BringInv ==
  ASSUME TicketInv, OwnTypeOK, AckInv, NEW p \in Proposal, Bring(p) PROVE AckInv'
  <1>1. DispositionsStay /\ Applied(p)'
    BY BringStays
  <1>2. /\ pass.pc = "reconcile" /\ pass' = [pc |-> "ack", todo |-> pass.todo \ {p}, at |-> p]
        /\ UNCHANGED <<observation, observed, acked>>
    BY DEF Bring, authorityVars
  <1>3. \A q \in Proposal : Applied(q) => Applied(q)'
    BY <1>1 DEF DispositionsStay, Applied
  <1>4. \A q \in Proposal : Applied(q)' => draftRef'[q] = observation'[q]
    BY <1>1, <1>2 DEF AckInv, DispositionsStay
  <1>5. acked \subseteq Proposal
    BY DEF OwnTypeOK, RecordTypeOK
  <1> QED BY <1>1, <1>2, <1>3, <1>4, <1>5 DEF AckInv

\* The other steps of a pass.
LEMMA PassInv ==
  ASSUME OwnTypeOK, AckInv,
         PassStart \/ List \/ Acknowledge \/ PassEnd \/ PassFault \/ \E p \in Proposal : Unknown(p)
  PROVE  AckInv'
  <1>1. UNCHANGED <<draftRef, observation, observed>>
    BY DEF PassStart, List, Acknowledge, PassEnd, PassFault, Unknown, ticketVars, authorityVars
  <1>2. pass \in Passes
    BY DEF OwnTypeOK, PlaceTypeOK
  <1>3. CASE PassStart \/ PassEnd
    BY <1>1, <1>3 DEF PassStart, PassEnd, Idle, AckInv, Applied, authorityVars
  <1>4. CASE List
    <2>1. \A p \in ListPage : observation[p] # "none"
      BY OldestIn DEF AckInv, ListPage
    <2> QED BY <1>1, <1>4, <2>1 DEF List, AckInv, Applied, authorityVars
  <1>5. CASE Acknowledge
    BY <1>1, <1>2, <1>5 DEF Acknowledge, AckInv, Applied, Passes
  <1>6. CASE PassFault \/ \E p \in Proposal : Unknown(p)
    <2>1. /\ acked' = acked
          /\ pass' = Idle \/ (pass'.pc \in {pass.pc, "reconcile"} /\ pass'.todo \subseteq pass.todo
                              /\ pass'.pc # "ack" /\ (pass'.pc = "reconcile" => pass.pc \in {"reconcile", "ack"}))
      BY <1>2, <1>6 DEF PassFault, Unknown, Without, Passes, authorityVars
    <2> QED BY <1>1, <2>1 DEF Idle, AckInv, Applied
  <1> QED BY <1>3, <1>4, <1>5, <1>6

LEMMA AckInvKept ==
  ASSUME TicketInv, OwnTypeOK, AckInv, [DraftNext]_draftVars PROVE AckInv'
  <1>1. CASE (WorkStep /\ OnTickets) \/ UNCHANGED draftVars
    <2>1. UNCHANGED <<draftRef, observation, observed, pass, acked>>
      BY <1>1 DEF WorkStep, AdmitSource, ReadContext, ProposeTask, ProposeDraft, ProposeResolved,
                  ProposeBlocked, FinishTask, OnTickets, draftVars, ticketVars, authorityVars
    <2> QED BY <2>1, UntouchedStay, StayInv
  <1>2. CASE Mailbox
    BY <1>2, UntouchedStay, StayInv DEF Mailbox, Human, ticketVars, authorityVars
  <1>3. CASE Authority
    <2>1. ASSUME NEW p \in Proposal, DiscardRecord(p) PROVE AckInv'
      BY <2>1, DiscardRecordInv
    <2>2. ASSUME NEW p \in Proposal, DraftReceipt(p) PROVE AckInv'
      BY <2>2, ReceiptStays, StayInv DEF DraftReceipt, authorityVars
    <2>3. ASSUME NEW p \in Proposal,
                 UpsertBegin(p) \/ UpsertCreate(p) \/ UpsertComplete(p)
                     \/ DiscardBegin(p) \/ DiscardDelete(p)
          PROVE  AckInv'
      <3>1. UNCHANGED <<draftRef, observation, observed, pass, acked>>
        BY <2>3 DEF UpsertBegin, UpsertCreate, UpsertComplete, DiscardBegin, DiscardDelete,
                    ticketVars, authorityVars
      <3> QED BY <3>1, UntouchedStay, StayInv
    <2>4. CASE Rollback
      BY <2>4, UntouchedStay, StayInv DEF Rollback, ticketVars, authorityVars
    <2> QED BY <1>3, <2>1, <2>2, <2>3, <2>4 DEF Authority
  <1>4. CASE Reconciler
    BY <1>4, ScanInv, BringInv, PassInv DEF Reconciler
  <1> QED BY <1>1, <1>2, <1>3, <1>4 DEF DraftNext

\* What is acknowledged is on its ticket, for good.
THEOREM AcknowledgedIsReconciled == DraftSpec => []AckedIsReconciled
  <1>1. DraftInit => AckInv
    BY DEF DraftInit, TicketInit, Idle, AckInv, Applied
  <1>2. TicketInv /\ OwnTypeOK /\ AckInv /\ [DraftNext]_draftVars => AckInv'
    BY AckInvKept
  <1>3. OwnTypeOK /\ AckInv => AckedIsReconciled
    BY DEF OwnTypeOK, RecordTypeOK, AckInv, AckedIsReconciled
  <1> QED BY <1>1, <1>2, <1>3, DraftOwnTypes, DraftsImplementTickets, TicketInvariant, PTL DEF DraftSpec

-----------------------------------------------------------------------------
(* Evidence *)

\* The draft of the operation was deleted unsent, and nothing else is to be seen.
Discarded(p) ==
    draft[p] # 0 /\ In(p, draft[p], "deleted") /\ Remote(p) = {} /\ p \in erased

\* A draft is composed only for an operation without one, and is deleted when
\* it is all that remains of its operation; no intent outlives its transaction.
AtWork(s) ==
    /\ s.pc \in {"create", "compose"} => draft[s.of] = 0
    /\ s.pc = "delete" =>
           draft[s.of] # 0 /\ s.message = draft[s.of] /\ Remote(s.of) \subseteq {s.message}
    /\ s.pc = "record" => Discarded(s.of)

\* Once nothing remains of an operation that has its draft, nothing comes back.
SeenAs(p) ==
    /\ intent[p] # "verified"
    /\ observation[p] = "sent" => \E n \in DOMAIN mail[p] : mail[p][n] \in {"sent", "purged"}
    /\ observation[p] = "discarded" => Discarded(p)

EvidenceInv == AtWork(store) /\ \A p \in Proposal : SeenAs(p)

\* What a person does to a message takes no evidence away.
LEMMA HumanKeepsEvidence ==
  ASSUME OwnTypeOK, EvidenceInv, Mailbox PROVE EvidenceInv'
  <1>1. PICK p \in Proposal : \E n \in DOMAIN mail[p], state \in MailState : Human(p, n, state)
    BY DEF Mailbox
  <1>2. PICK n \in DOMAIN mail[p], state \in MailState : Human(p, n, state)
    BY <1>1
  <1>3. /\ n \in DOMAIN mail[p] /\ mail' = [mail EXCEPT ![p][n] = state]
        /\ \/ mail[p][n] = "draft" /\ state \in {"sent", "deleted"}
           \/ mail[p][n] = "sent" /\ state = "purged"
        /\ UNCHANGED <<erased, store, draft, intent, observation>>
    BY <1>2 DEF Human, In, authorityVars
  <1>4. /\ \A q \in Proposal : DOMAIN mail'[q] = DOMAIN mail[q]
        /\ \A q \in Proposal : \A m \in DOMAIN mail[q] :
              \/ mail'[q][m] = mail[q][m]
              \/ mail[q][m] = "draft" /\ mail'[q][m] \in {"sent", "deleted"}
              \/ mail[q][m] = "sent" /\ mail'[q][m] = "purged"
    BY <1>3 DEF OwnTypeOK, MailTypeOK
  <1>5. \A q \in Proposal : Remote(q)' \subseteq Remote(q)
    BY <1>4 DEF Remote
  <1>6. store.pc # "free" => store.of \in Proposal
    BY DEF OwnTypeOK, PlaceTypeOK, Held, Free
  <1>7. \A q \in Proposal : Discarded(q) => Discarded(q)'
    BY <1>3, <1>4, <1>5 DEF Discarded, In
  <1>8. AtWork(store)'
    BY <1>3, <1>5, <1>6, <1>7 DEF EvidenceInv, AtWork
  <1>9. \A q \in Proposal : SeenAs(q)'
    BY <1>3, <1>4, <1>7 DEF EvidenceInv, SeenAs
  <1> QED BY <1>8, <1>9 DEF EvidenceInv

LEMMA UpsertKeepsEvidence ==
  ASSUME OwnTypeOK, EvidenceInv, NEW p \in Proposal,
         UpsertBegin(p) \/ UpsertCreate(p) \/ UpsertComplete(p)
  PROVE  EvidenceInv'
  <1>1. CASE UpsertBegin(p)
    BY <1>1 DEF UpsertBegin, EvidenceInv, AtWork, SeenAs, Discarded, In, Remote, mailVars, authorityVars
  <1>2. CASE UpsertCreate(p)
    <2>1. /\ store.pc = "create" /\ store.of = p /\ mail' = [mail EXCEPT ![p] = Append(mail[p], "draft")]
          /\ store'.pc = "compose" /\ store'.of = p
          /\ UNCHANGED <<erased, draft, intent, observation>>
      BY <1>2 DEF UpsertCreate, OwnTypeOK, PlaceTypeOK, Held, Free, authorityVars
    <2>2. draft[p] = 0
      BY <2>1 DEF EvidenceInv, AtWork
    <2>3. \A q \in Proposal : q # p => mail'[q] = mail[q]
      BY <2>1 DEF OwnTypeOK, MailTypeOK
    <2>4. \A n \in DOMAIN mail[p] : n \in DOMAIN mail'[p] /\ mail'[p][n] = mail[p][n]
      BY <2>1 DEF OwnTypeOK, MailTypeOK
    <2>5. \A q \in Proposal : SeenAs(q)'
      BY <2>1, <2>2, <2>3, <2>4 DEF EvidenceInv, SeenAs, Discarded, In, Remote
    <2>6. AtWork(store)'
      BY <2>1, <2>2 DEF AtWork
    <2> QED BY <2>5, <2>6 DEF EvidenceInv
  <1>3. CASE UpsertComplete(p)
    <2>1. /\ store' = Free /\ draft' = [draft EXCEPT ![p] = store.message]
          /\ store.pc = "compose" /\ store.of = p
          /\ UNCHANGED <<mail, erased, intent, observation>>
      BY <1>3 DEF UpsertComplete, mailVars
    <2>2. draft[p] = 0
      BY <2>1 DEF EvidenceInv, AtWork
    <2>3. \A q \in Proposal : draft[q] # 0 => draft'[q] = draft[q]
      BY <2>1, <2>2 DEF OwnTypeOK, MailTypeOK
    <2>4. \A q \in Proposal : SeenAs(q)'
      BY <2>1, <2>3 DEF EvidenceInv, SeenAs, Discarded, In, Remote
    <2>5. AtWork(store)'
      BY <2>1 DEF AtWork, Free
    <2> QED BY <2>4, <2>5 DEF EvidenceInv
  <1> QED BY <1>1, <1>2, <1>3

LEMMA DiscardKeepsEvidence ==
  ASSUME OwnTypeOK, EvidenceInv, NEW p \in Proposal,
         DiscardBegin(p) \/ DiscardDelete(p) \/ DiscardRecord(p)
  PROVE  EvidenceInv'
  <1>1. CASE DiscardBegin(p)
    <2>1. Remote(p) # {}
      BY <1>1 DEF DiscardBegin, Discardable, EvidenceInv, SeenAs
    <2>2. /\ store' = [pc |-> "delete", of |-> p, message |-> draft[p], found |-> TRUE]
          /\ draft[p] # 0 /\ Remote(p) \subseteq {draft[p]}
          /\ UNCHANGED <<mail, erased, draft, intent, observation>>
      BY <1>1, <2>1 DEF DiscardBegin, Discardable, mailVars, authorityVars
    <2> QED BY <2>2 DEF EvidenceInv, AtWork, SeenAs, Discarded, In, Remote
  <1>2. CASE DiscardDelete(p)
    <2>1. /\ store.pc = "delete" /\ store.of = p /\ store' = [store EXCEPT !.pc = "record"]
          /\ store.message \in DOMAIN mail[p] /\ mail[p][store.message] = "draft"
          /\ mail' = [mail EXCEPT ![p][store.message] = "deleted"] /\ erased' = erased \cup {p}
          /\ UNCHANGED <<draft, intent, observation>>
      BY <1>2 DEF DiscardDelete, In, authorityVars
    <2>2. draft[p] # 0 /\ store.message = draft[p] /\ Remote(p) \subseteq {store.message}
      BY <2>1 DEF EvidenceInv, AtWork
    <2>3. /\ \A q \in Proposal : DOMAIN mail'[q] = DOMAIN mail[q] /\ (q # p => mail'[q] = mail[q])
          /\ mail'[p][store.message] = "deleted"
          /\ \A n \in DOMAIN mail[p] : n # store.message => mail'[p][n] = mail[p][n]
      BY <2>1 DEF OwnTypeOK, MailTypeOK
    <2>4. Remote(p)' = {}
      BY <2>2, <2>3 DEF Remote
    <2>5. store'.pc = "record" /\ store'.of = p
      BY <2>1 DEF OwnTypeOK, PlaceTypeOK, Held, Free
    <2>6. Discarded(p)' /\ \A q \in Proposal : Discarded(q) => Discarded(q)'
      BY <2>1, <2>2, <2>3, <2>4 DEF Discarded, In, Remote
    <2>7. AtWork(store)'
      BY <2>5, <2>6 DEF AtWork
    <2>8. \A q \in Proposal : SeenAs(q)'
      BY <2>1, <2>3, <2>6 DEF EvidenceInv, SeenAs
    <2> QED BY <2>7, <2>8 DEF EvidenceInv
  <1>3. CASE DiscardRecord(p)
    <2>1. /\ store.pc = "record" /\ store.of = p /\ store' = Free
          /\ Observe(p, "discarded") /\ intent' = [intent EXCEPT ![p] = "completed"]
          /\ UNCHANGED <<mail, erased, draft>>
      BY <1>3 DEF DiscardRecord, mailVars
    <2>2. Discarded(p)
      BY <2>1 DEF EvidenceInv, AtWork
    <2>3. /\ \A q \in Proposal : observation'[q] = observation[q] \/ (q = p /\ observation'[q] = "discarded")
          /\ \A q \in Proposal : intent'[q] = intent[q] \/ intent'[q] = "completed"
      BY <2>1 DEF Observe, OwnTypeOK, RecordTypeOK
    <2>4. \A q \in Proposal : SeenAs(q)'
      BY <2>1, <2>2, <2>3 DEF EvidenceInv, SeenAs, Discarded, In, Remote
    <2>5. AtWork(store)'
      BY <2>1 DEF AtWork, Free
    <2> QED BY <2>4, <2>5 DEF EvidenceInv
  <1> QED BY <1>1, <1>2, <1>3

LEMMA ScanKeepsEvidence ==
  ASSUME OwnTypeOK, EvidenceInv, NEW p \in Proposal, Scan(p) PROVE EvidenceInv'
  <1>1. UNCHANGED <<mail, erased, store, draft, intent>>
    BY DEF Scan, mailVars
  <1>2. \A q \in Proposal : \/ observation'[q] = observation[q]
                            \/ q = p /\ observation'[q] = "sent" /\ SeenSent(p)
    BY DEF Scan, Observe, OwnTypeOK, RecordTypeOK
  <1> QED BY <1>1, <1>2 DEF EvidenceInv, AtWork, SeenAs, SeenSent, Discarded, In, Remote

LEMMA EvidenceKept == ASSUME OwnTypeOK, EvidenceInv, [DraftNext]_draftVars PROVE EvidenceInv'
  <1>1. ASSUME UNCHANGED <<mail, erased, store, draft, intent, observation>> PROVE EvidenceInv'
    BY <1>1 DEF EvidenceInv, AtWork, SeenAs, Discarded, In, Remote
  <1>2. CASE (WorkStep /\ OnTickets) \/ UNCHANGED draftVars
    BY <1>1, <1>2 DEF OnTickets, draftVars, mailVars, authorityVars
  <1>3. CASE Mailbox
    BY <1>3, HumanKeepsEvidence
  <1>4. CASE Authority
    <2>1. ASSUME NEW p \in Proposal, DraftReceipt(p) PROVE EvidenceInv'
      BY <1>1, <2>1 DEF DraftReceipt, mailVars, authorityVars
    <2>2. CASE Rollback
      <3>1. store' = Free /\ UNCHANGED <<mail, erased, draft, intent, observation>>
        BY <2>2 DEF Rollback, mailVars, authorityVars
      <3> QED BY <3>1 DEF EvidenceInv, AtWork, SeenAs, Discarded, In, Remote, Free
    <2> QED BY <1>4, <2>1, <2>2, UpsertKeepsEvidence, DiscardKeepsEvidence DEF Authority
  <1>5. CASE Reconciler
    <2>1. ASSUME \/ PassStart \/ List \/ Acknowledge \/ PassEnd \/ PassFault
                 \/ \E p \in Proposal : Bring(p) \/ Unknown(p)
          PROVE  EvidenceInv'
      BY <1>1, <2>1 DEF PassStart, List, Acknowledge, PassEnd, PassFault, Bring, Unknown,
                        mailVars, authorityVars
    <2> QED BY <1>5, <2>1, ScanKeepsEvidence DEF Reconciler
  <1> QED BY <1>2, <1>3, <1>4, <1>5 DEF DraftNext

\* "sent" has a message that was sent, "discarded" the operation's own draft
\* deleted unsent and nothing else of it in the mailbox.
THEOREM DispositionsAreEvidence == DraftSpec => []ReceiptsAreEvidence
  <1>1. DraftInit => EvidenceInv
    BY DEF DraftInit, Free, EvidenceInv, AtWork, SeenAs
  <1>2. OwnTypeOK /\ EvidenceInv /\ [DraftNext]_draftVars => EvidenceInv'
    BY EvidenceKept
  <1>3. EvidenceInv => ReceiptsAreEvidence
    BY DEF EvidenceInv, SeenAs, Discarded, ReceiptsAreEvidence
  <1> QED BY <1>1, <1>2, <1>3, DraftOwnTypes, PTL DEF DraftSpec

=============================================================================
