------------------------- MODULE LedgerDomainProofs -------------------------
(***************************************************************************)
(* What the ledger guarantees for any number of processes, names, keys and *)
(* proposals, whichever calls end half way: its chain verifies, what a     *)
(* retry opens is there, a stable read is coherent, and the promises of    *)
(* AdmissionRegister are kept.                                             *)
(***************************************************************************)
EXTENDS LedgerDomain, SequenceTheorems, TLAPS

(***************************************************************************)
(* The inductive invariant.  Heads that were looked up once stay heads of  *)
(* a prefix of the chain.  A proposal is admitted on the head it expects,  *)
(* heads do not recur, so it is admitted once and, once stale, never; a    *)
(* key is used once because its holder has scanned the files.  Of a review *)
(* only that it is on file can be relied on, for any other may rewrite it. *)
(***************************************************************************)
OnChain(h) == h[1] \in 0..Len(ledger) /\ h = HeadAt(ledger, h[1])

InLedger(c) ==
    \/ c.pc \in {"gate", "append", "event", "marker"}
    \/ c.pc \in {"open", "write"} /\ c.op = "admit"
    \/ c.pc \in {"refresh", "fold"} /\ c.op # "frontier"
    \/ c.pc \in {"page", "pagehead"} /\ c.op = "read"

InProjection(c) == c.pc = "fold" \/ (c.pc \in {"page", "pagehead"} /\ c.op = "read")

Locked(p) ==
    /\ InLedger(call[p]) <=> ledgerLock = p
    /\ InProjection(call[p]) <=> projectionLock = p

Armed(p) ==
    LET c == call[p] IN
    /\ c.pc \in {"head", "check", "file", "name"} => c.name \in Name
    /\ c.pc \in {"head", "check", "file", "name", "life"} => c.op = "contribute"
    /\ c.pc = "review" => c.op \in {"contribute", "review"}
    /\ c.pc \in {"gate", "append", "event", "marker"} => c.op = "admit"
    /\ c.pc = "lock" => c.op \in {"admit", "read"}
    /\ c.pc \in {"refresh", "fold"} => c.op \in {"admit", "read", "frontier"}
    /\ c.pc \in {"page", "pagehead"} => c.op \in {"read", "frontier"}
    /\ c.pc \in {"check", "file"} => OnChain(c.head)
    /\ c.pc \in {"name", "life", "review", "open", "write"} => c.prop \in 1..Len(proposals)
    /\ c.op = "admit" /\ c.pc # "idle" => c.prop \in 1..Len(proposals) /\ c.key \in Keys

Filed(n) == review[n] # "none"

Unused(k) == \A i \in 1..Len(ledger) : ledger[i].key # k

Admissible(p) ==
    LET c == call[p] IN
    /\ c.pc \in {"open", "write"} /\ c.op = "admit" => Unused(c.key) /\ c.fit = OnHead(c.prop)
    /\ c.pc \in {"append", "event"} => OnHead(c.prop) /\ Unused(c.key) /\ Filed(c.prop)
    /\ c.pc = "event" => c.head = HeadOf(ledger)

Entered(p) ==
    LET c == call[p] IN
    c.pc = "marker" \/ (c.pc \in {"refresh", "fold"} /\ c.op = "admit") =>
        c.at \in 1..Len(ledger) /\ ledger[c.at].proposal = c.prop /\ ledger[c.at].key = c.key

Reading(p) ==
    LET c == call[p] IN
    c.op = "read" =>
        /\ c.pc \in {"page", "pagehead"} => projection = ledger
        /\ c.pc = "pagehead" => c.items = ledger

CallInv(p) == Locked(p) /\ Armed(p) /\ Admissible(p) /\ Entered(p) /\ Reading(p)

Chained ==
    /\ Verified(ledger)
    /\ \A i \in 1..Len(ledger) :
           /\ proposals[ledger[i].proposal] = ledger[i].prev
           /\ Filed(ledger[i].proposal)

KeysOnce == \A i, j \in 1..Len(ledger) : ledger[i].key = ledger[j].key => i = j

Marked == \A k \in Keys : marker[k] # 0 => marker[k] \in 1..Len(ledger) /\ ledger[marker[k]].key = k

AllOnChain == \A n \in 1..Len(proposals) : OnChain(proposals[n])

FilesInv == Chained /\ KeysOnce /\ Marked /\ AllOnChain

LedgerInv == LedgerTypeOK /\ FilesInv /\ \A p \in Proc : CallInv(p)

(***************************************************************************)
(* The chain.                                                              *)
(***************************************************************************)

\* A head is a hash.
LEMMA HeadTyped ==
    ASSUME NEW events \in Seq(Event), NEW n \in 0..Len(events)
    PROVE  HeadAt(events, n) \in Hashes
<1>1. Genesis \in Hashes
  BY LedgerAssumption DEF Genesis, Hashes
<1>2. ASSUME n # 0 PROVE Hash(events[n]) \in Hashes
  <2>1. events[n] \in Event
    BY <1>2
  <2> QED
    BY <2>1, LedgerAssumption DEF Event, Hash, Hashes, Proposals
<1> QED
  BY <1>1, <1>2 DEF HeadAt

\* The head of a verified prefix tells how long it is, so heads do not recur.
LEMMA HeadLength ==
    ASSUME NEW events \in Seq(Event), Verified(events), NEW n \in 0..Len(events)
    PROVE  HeadAt(events, n)[1] = n
<1>1. CASE n = 0
  BY <1>1 DEF HeadAt, Genesis
<1>2. CASE n \in 1..Len(events)
  <2>1. events[n].seq = n
    BY <1>2 DEF Verified
  <2> QED
    BY <2>1, <1>2 DEF HeadAt, Hash
<1> QED
  BY <1>1, <1>2

\* Heads of the prefixes of a ledger stay what they are when it grows.
LEMMA HeadKept ==
    ASSUME NEW events \in Seq(Event), NEW e \in Event, NEW n \in 0..Len(events)
    PROVE  /\ n \in 0..Len(Append(events, e))
           /\ HeadAt(Append(events, e), n) = HeadAt(events, n)
BY DEF HeadAt

\* An event is of a proposal and under a key.
LEMMA EventsTyped ==
    ASSUME LedgerTypeOK, NEW i \in 1..Len(ledger)
    PROVE  ledger[i] \in Event /\ ledger[i].proposal \in Proposals /\ ledger[i].key \in Keys
<1>1. ledger[i] \in Event
  BY DEF LedgerTypeOK
<1> QED
  BY <1>1 DEF Event

(***************************************************************************)
(* What the step of one process leaves of the facts about the calls of the *)
(* others: everything, for it writes what they rely on under a lock.       *)
(***************************************************************************)
Considerate(p) ==
    /\ Len(proposals) <= Len(proposals)'
    /\ \A n \in 1..Len(proposals) : proposals'[n] = proposals[n]
    /\ \A n \in Proposals : Filed(n) => Filed(n)'
    /\ ledger' = ledger \/ (ledgerLock = p /\ \E e \in Event : ledger' = Append(ledger, e))
    /\ projection' = projection \/ projectionLock = p
    /\ \A q \in Proc \ {p} :
           /\ call'[q] = call[q]
           /\ ledgerLock = q <=> ledgerLock' = q
           /\ projectionLock = q <=> projectionLock' = q

LEMMA OthersKeep ==
    ASSUME LedgerInv, NEW p \in Proc, Considerate(p), NEW q \in Proc \ {p}
    PROVE  CallInv(q)'
<1>1. call'[q] = call[q] /\ CallInv(q) /\ p # q
  BY DEF Considerate, LedgerInv
<1> DEFINE c == call[q]
<1>2. c \in Call
  BY DEF LedgerInv, LedgerTypeOK
<1>3. ledger \in Seq(Event) /\ proposals \in Seq(Hashes)
  BY DEF LedgerInv, LedgerTypeOK
<1>4. Locked(q)'
  BY <1>1 DEF Considerate, CallInv, Locked, InLedger, InProjection
<1>5. ASSUME NEW h, OnChain(h) PROVE OnChain(h)'
  <2>1. CASE ledger' = ledger
    BY <1>5, <2>1 DEF OnChain, HeadAt
  <2>2. ASSUME NEW e \in Event, ledger' = Append(ledger, e) PROVE OnChain(h)'
    BY <1>3, <1>5, <2>2, HeadKept DEF OnChain
  <2> QED
    BY <2>1, <2>2 DEF Considerate
<1>6. Armed(q)'
  BY <1>1, <1>3, <1>5 DEF Considerate, CallInv, Armed
<1>7. InLedger(c) => ledger' = ledger
  BY <1>1 DEF Considerate, CallInv, Locked
<1>8. c.op = "admit" /\ c.pc # "idle" => c.prop \in 1..Len(proposals) /\ c.prop \in Proposals
  BY <1>1, LedgerAssumption DEF CallInv, Armed, Proposals, LedgerInv, LedgerTypeOK
<1>9. Admissible(q)'
  <2>1. c.pc \in {"append", "event"} => c.op = "admit"
    BY <1>1 DEF CallInv, Armed
  <2> QED
    BY <2>1, <1>1, <1>7, <1>8 DEF Considerate, CallInv, Admissible, InLedger, OnHead, Unused, HeadOf
<1>10. Entered(q)'
  BY <1>1, <1>7 DEF CallInv, Entered, InLedger
<1>11. Reading(q)'
  BY <1>1, <1>7 DEF Considerate, CallInv, Reading, Locked, InLedger, InProjection
<1> QED
  BY <1>4, <1>6, <1>9, <1>10, <1>11 DEF CallInv

(***************************************************************************)
(* Steps that write no file but, maybe, a review.                          *)
(***************************************************************************)

\* Locks are only taken when they are free, and released by who has them.
LockStep(p) ==
    /\ ledgerLock' = ledgerLock \/ {ledgerLock, ledgerLock'} = {p, None}
    /\ projectionLock' = projectionLock \/ {projectionLock, projectionLock'} = {p, None}

LEMMA IdleTyped == Idle \in Call
BY LedgerAssumption DEF Idle, Call, PC, Op, Genesis, Hashes

LEMMA EndIdle ==
    ASSUME LedgerInv, NEW p \in Proc, End(p)
    PROVE  CallInv(p)'
<1>1. call'[p] = Idle /\ ledgerLock' # p /\ projectionLock' # p
  BY LedgerAssumption DEF End, Go, LedgerInv, LedgerTypeOK
<1> QED
  BY <1>1 DEF Idle, CallInv, Locked, InLedger, InProjection, Armed, Admissible, Entered, Reading

LEMMA EndStep ==
    ASSUME NEW p \in Proc, End(p)
    PROVE  LockStep(p)
BY DEF End, LockStep

\* Reviews are filed for proposals there are, and are never taken away.
Filing ==
    /\ review' \in [Proposals -> {"none", "empty", "torn", "whole"}]
    /\ \A n \in Proposals : (Filed(n) => Filed(n)') /\ (Filed(n)' => n <= Len(proposals))

LEMMA NoFiling ==
    ASSUME LedgerInv, UNCHANGED review
    PROVE  Filing
BY DEF LedgerInv, LedgerTypeOK, Filing, Filed

LEMMA ReviewKeepsFiles ==
    ASSUME LedgerInv, UNCHANGED <<proposals, ledger, marker>>, Filing
    PROVE  FilesInv'
<1>1. \A i \in 1..Len(ledger) : ledger[i].proposal \in Proposals
  BY EventsTyped DEF LedgerInv
<1>2. Chained'
  BY <1>1 DEF LedgerInv, FilesInv, Chained, Verified, HeadAt, Filing
<1>3. KeysOnce' /\ Marked'
  BY DEF LedgerInv, FilesInv, KeysOnce, Marked
<1>4. AllOnChain'
  BY DEF LedgerInv, FilesInv, AllOnChain, OnChain, HeadAt
<1> QED
  BY <1>2, <1>3, <1>4 DEF FilesInv

LEMMA ReviewStep ==
    ASSUME LedgerInv, NEW p \in Proc, UNCHANGED <<proposals, submitted, ledger, marker, projection>>, Filing,
           NEW c \in Call, call' = [call EXCEPT ![p] = c], LockStep(p), CallInv(p)'
    PROVE  LedgerInv'
<1>1. LedgerTypeOK'
  BY DEF LedgerInv, LedgerTypeOK, LockStep, Filing, Filed
<1>2. FilesInv'
  BY ReviewKeepsFiles
<1>3. Considerate(p)
  <2>1. \A q \in Proc \ {p} : call'[q] = call[q] /\ q # None /\ q # p
    BY LedgerAssumption DEF LedgerInv, LedgerTypeOK
  <2>2. \A q \in Proc \ {p} :
            (ledgerLock = q <=> ledgerLock' = q) /\ (projectionLock = q <=> projectionLock' = q)
    BY <2>1 DEF LockStep
  <2>3. proposals' = proposals /\ Len(proposals) \in Nat
    BY DEF LedgerInv, LedgerTypeOK
  <2> QED
    BY <2>1, <2>2, <2>3 DEF Considerate, Filing
<1>4. ASSUME NEW q \in Proc PROVE CallInv(q)'
  BY <1>3, OthersKeep
<1> QED
  BY <1>1, <1>2, <1>4 DEF LedgerInv

LEMMA QuietStep ==
    ASSUME LedgerInv, NEW p \in Proc, UNCHANGED files,
           NEW c \in Call, call' = [call EXCEPT ![p] = c], LockStep(p), CallInv(p)'
    PROVE  LedgerInv'
<1>1. UNCHANGED <<proposals, submitted, ledger, marker, projection, review>>
  BY DEF files
<1> QED
  BY <1>1, NoFiling, ReviewStep

LEMMA QuietEnd ==
    ASSUME LedgerInv, NEW p \in Proc, UNCHANGED files, End(p)
    PROVE  LedgerInv'
<1>1. call' = [call EXCEPT ![p] = Idle]
  BY DEF End, Go
<1>2. CallInv(p)'
  BY EndIdle
<1> QED
  BY <1>1, <1>2, IdleTyped, EndStep, QuietStep

LEMMA ContributeSafe ==
    ASSUME LedgerInv, NEW p \in Proc, NEW n \in Name, Contribute(p, n)
    PROVE  LedgerInv'
<1> DEFINE c == [Idle EXCEPT !.pc = "head", !.op = "contribute", !.name = n]
<1>1. call[p] \in Call /\ CallInv(p)
  BY DEF LedgerInv, LedgerTypeOK
<1>2. c \in Call
  BY <1>1, IdleTyped, LedgerAssumption DEF Contribute, Call, PC, Op, Idle, Keys, LedgerInv, LedgerTypeOK
<1>3. UNCHANGED files /\ call' = [call EXCEPT ![p] = c] /\ LockStep(p)
  BY DEF Contribute, Begin, Go, LockStep, locks
<1>4. CallInv(p)'
  BY <1>1, <1>2, <1>3 DEF Contribute, Begin, At, files, locks, Idle, CallInv, Locked, InLedger, InProjection, Armed, Admissible, Entered, Reading, Keys, LedgerInv, LedgerTypeOK
<1> QED
  BY <1>2, <1>3, <1>4, QuietStep

LEMMA AdmitSafe ==
    ASSUME LedgerInv, NEW p \in Proc, NEW n \in 1..Len(proposals), NEW k \in Key \cup {n}, NEW own \in BOOLEAN,
           Admit(p, n, k, own)
    PROVE  LedgerInv'
<1> DEFINE c == Admitting(n, k, own)
<1>1. call[p] \in Call /\ CallInv(p)
  BY DEF LedgerInv, LedgerTypeOK
<1>0. n \in 0..MaxProposals /\ k \in Keys
  BY LedgerAssumption DEF Proposals, Keys, LedgerInv, LedgerTypeOK
<1>2. c \in Call
  BY <1>0, <1>1, IdleTyped, LedgerAssumption DEF Admitting, Call, PC, Op, Idle
<1>3. UNCHANGED files /\ call' = [call EXCEPT ![p] = c] /\ LockStep(p)
  BY DEF Admit, Begin, Go, LockStep, locks
<1>4. CallInv(p)'
  BY <1>0, <1>1, <1>3 DEF Admit, Admitting, Begin, At, files, locks, Idle, CallInv, Locked, InLedger, InProjection, Armed, Admissible, Entered, Reading, LedgerInv, LedgerTypeOK
<1> QED
  BY <1>2, <1>3, <1>4, QuietStep

LEMMA ReviewSafe ==
    ASSUME LedgerInv, NEW p \in Proc, NEW n \in 1..Len(proposals), Review(p, n)
    PROVE  LedgerInv'
<1> DEFINE c == [Idle EXCEPT !.pc = "review", !.op = "review", !.prop = n]
<1>1. call[p] \in Call /\ CallInv(p)
  BY DEF LedgerInv, LedgerTypeOK
<1>2. n \in 0..MaxProposals
  BY LedgerAssumption DEF LedgerInv, LedgerTypeOK
<1>3. c \in Call
  BY <1>2, IdleTyped DEF Call, PC, Op, Idle
<1>4. UNCHANGED files /\ call' = [call EXCEPT ![p] = c] /\ LockStep(p)
  BY DEF Review, Begin, Go, LockStep, locks
<1>5. CallInv(p)'
  BY <1>1, <1>4 DEF Review, Begin, At, files, locks, Idle, CallInv, Locked, InLedger, InProjection, Armed, Admissible, Entered, Reading, LedgerInv, LedgerTypeOK
<1> QED
  BY <1>3, <1>4, <1>5, QuietStep

LEMMA ReadSafe ==
    ASSUME LedgerInv, NEW p \in Proc, Read(p)
    PROVE  LedgerInv'
<1> DEFINE c == [Idle EXCEPT !.pc = "lock", !.op = "read"]
<1>1. call[p] \in Call /\ CallInv(p)
  BY DEF LedgerInv, LedgerTypeOK
<1>2. c \in Call
  BY <1>1, IdleTyped, LedgerAssumption DEF Read, Call, PC, Op, Idle, Keys, LedgerInv, LedgerTypeOK
<1>3. UNCHANGED files /\ call' = [call EXCEPT ![p] = c] /\ LockStep(p)
  BY DEF Read, Begin, Go, LockStep, locks
<1>4. CallInv(p)'
  BY <1>1, <1>2, <1>3 DEF Read, Begin, At, files, locks, Idle, CallInv, Locked, InLedger, InProjection, Armed, Admissible, Entered, Reading, Keys, LedgerInv, LedgerTypeOK
<1> QED
  BY <1>2, <1>3, <1>4, QuietStep

LEMMA FrontierSafe ==
    ASSUME LedgerInv, NEW p \in Proc, Frontier(p)
    PROVE  LedgerInv'
<1> DEFINE c == [Idle EXCEPT !.pc = "refresh", !.op = "frontier"]
<1>1. call[p] \in Call /\ CallInv(p)
  BY DEF LedgerInv, LedgerTypeOK
<1>2. c \in Call
  BY <1>1, IdleTyped, LedgerAssumption DEF Frontier, Call, PC, Op, Idle, Keys, LedgerInv, LedgerTypeOK
<1>3. UNCHANGED files /\ call' = [call EXCEPT ![p] = c] /\ LockStep(p)
  BY DEF Frontier, Begin, Go, LockStep, locks
<1>4. CallInv(p)'
  BY <1>1, <1>2, <1>3 DEF Frontier, Begin, At, files, locks, Idle, CallInv, Locked, InLedger, InProjection, Armed, Admissible, Entered, Reading, Keys, LedgerInv, LedgerTypeOK
<1> QED
  BY <1>2, <1>3, <1>4, QuietStep

LEMMA SubmitHeadSafe ==
    ASSUME LedgerInv, NEW p \in Proc, SubmitHead(p)
    PROVE  LedgerInv'
<1> DEFINE c == [call[p] EXCEPT !.pc = "check", !.head = HeadOf(ledger)]
<1>1. call[p] \in Call /\ CallInv(p)
  BY DEF LedgerInv, LedgerTypeOK
<1>0. HeadOf(ledger) \in Hashes /\ HeadOf(ledger)[1] = Len(ledger) /\ Len(ledger) \in Nat
  BY HeadTyped, HeadLength DEF HeadOf, LedgerInv, LedgerTypeOK, FilesInv, Chained
<1>2. c \in Call
  BY <1>0, <1>1, IdleTyped, LedgerAssumption DEF SubmitHead, Call, PC, Op, Idle, Keys, LedgerInv, LedgerTypeOK
<1>3. UNCHANGED files /\ call' = [call EXCEPT ![p] = c] /\ LockStep(p)
  BY DEF SubmitHead, Go, LockStep, locks
<1>4. CallInv(p)'
  BY <1>0, <1>1, <1>2, <1>3 DEF SubmitHead, At, files, locks, Idle, CallInv, Locked, InLedger, InProjection, Armed, Admissible, Entered, Reading, OnChain, HeadOf, HeadAt, OnHead, Unused, LedgerInv, LedgerTypeOK
<1> QED
  BY <1>2, <1>3, <1>4, QuietStep

LEMMA SubmitAgainSafe ==
    ASSUME LedgerInv, NEW p \in Proc, SubmitAgain(p)
    PROVE  LedgerInv'
<1> DEFINE c == [Idle EXCEPT !.pc = "life", !.op = "contribute", !.prop = submitted[call[p].name]]
<1>1. call[p] \in Call /\ CallInv(p)
  BY DEF LedgerInv, LedgerTypeOK
<1>0. submitted[call[p].name] \in 1..Len(proposals)
  BY <1>1 DEF SubmitAgain, At, CallInv, Armed, LedgerInv, LedgerTypeOK
<1>5. submitted[call[p].name] \in 0..MaxProposals
  BY <1>0, LedgerAssumption DEF LedgerInv, LedgerTypeOK
<1>2. c \in Call
  BY <1>5, IdleTyped DEF Call, PC, Op, Idle
<1>3. UNCHANGED files /\ call' = [call EXCEPT ![p] = c] /\ LockStep(p)
  BY DEF SubmitAgain, Submitted, Go, LockStep, locks
<1>4. CallInv(p)'
  BY <1>0, <1>1, <1>2, <1>3 DEF SubmitAgain, Submitted, At, files, locks, Idle, CallInv, Locked, InLedger, InProjection, Armed, Admissible, Entered, Reading, Keys, LedgerInv, LedgerTypeOK
<1> QED
  BY <1>2, <1>3, <1>4, QuietStep

LEMMA SubmitNewSafe ==
    ASSUME LedgerInv, NEW p \in Proc, SubmitNew(p)
    PROVE  LedgerInv'
<1> DEFINE c == [call[p] EXCEPT !.pc = "file"]
<1>1. call[p] \in Call /\ CallInv(p)
  BY DEF LedgerInv, LedgerTypeOK
<1>2. c \in Call
  BY <1>1, IdleTyped, LedgerAssumption DEF SubmitNew, Call, PC, Op, Idle, Keys, LedgerInv, LedgerTypeOK
<1>3. UNCHANGED files /\ call' = [call EXCEPT ![p] = c] /\ LockStep(p)
  BY DEF SubmitNew, Step, Go, LockStep, locks
<1>4. CallInv(p)'
  BY <1>1, <1>2, <1>3 DEF SubmitNew, Step, At, files, locks, Idle, CallInv, Locked, InLedger, InProjection, Armed, Admissible, Entered, Reading, OnChain, HeadAt, LedgerInv, LedgerTypeOK
<1> QED
  BY <1>2, <1>3, <1>4, QuietStep

LEMMA NotYetAdmittedSafe ==
    ASSUME LedgerInv, NEW p \in Proc, NotYetAdmitted(p)
    PROVE  LedgerInv'
<1> DEFINE c == [call[p] EXCEPT !.pc = "review"]
<1>1. call[p] \in Call /\ CallInv(p)
  BY DEF LedgerInv, LedgerTypeOK
<1>2. c \in Call
  BY <1>1, IdleTyped, LedgerAssumption DEF NotYetAdmitted, Call, PC, Op, Idle, Keys, LedgerInv, LedgerTypeOK
<1>3. UNCHANGED files /\ call' = [call EXCEPT ![p] = c] /\ LockStep(p)
  BY DEF NotYetAdmitted, Step, Go, LockStep, locks
<1>4. CallInv(p)'
  BY <1>1, <1>2, <1>3 DEF NotYetAdmitted, Step, At, files, locks, Idle, CallInv, Locked, InLedger, InProjection, Armed, Admissible, Entered, Reading, Keys, LedgerInv, LedgerTypeOK
<1> QED
  BY <1>2, <1>3, <1>4, QuietStep

LEMMA TakeLedgerSafe ==
    ASSUME LedgerInv, NEW p \in Proc, TakeLedger(p)
    PROVE  LedgerInv'
<1> DEFINE c == [call[p] EXCEPT !.pc = IF call[p].op = "read" THEN "refresh" ELSE "gate"]
<1>1. call[p] \in Call /\ CallInv(p)
  BY DEF LedgerInv, LedgerTypeOK
<1>2. c \in Call
  BY <1>1, IdleTyped, LedgerAssumption DEF TakeLedger, Call, PC, Op, Idle, Keys, LedgerInv, LedgerTypeOK
<1>3. UNCHANGED files /\ call' = [call EXCEPT ![p] = c] /\ LockStep(p)
  BY DEF TakeLedger, Go, LockStep, locks
<1>4. CallInv(p)'
  BY <1>1, <1>2, <1>3 DEF TakeLedger, At, files, locks, Idle, CallInv, Locked, InLedger, InProjection, Armed, Admissible, Entered, Reading, Op, Call, LedgerInv, LedgerTypeOK
<1> QED
  BY <1>2, <1>3, <1>4, QuietStep

LEMMA LastEventSafe ==
    ASSUME LedgerInv, NEW p \in Proc, LastEvent(p)
    PROVE  LedgerInv'
<1> DEFINE c == [call[p] EXCEPT !.pc = "event", !.head = HeadOf(ledger)]
<1>1. call[p] \in Call /\ CallInv(p)
  BY DEF LedgerInv, LedgerTypeOK
<1>0. HeadOf(ledger) \in Hashes /\ HeadOf(ledger)[1] = Len(ledger) /\ Len(ledger) \in Nat
  BY HeadTyped, HeadLength DEF HeadOf, LedgerInv, LedgerTypeOK, FilesInv, Chained
<1>2. c \in Call
  BY <1>0, <1>1, IdleTyped, LedgerAssumption DEF LastEvent, Call, PC, Op, Idle, Keys, LedgerInv, LedgerTypeOK
<1>3. UNCHANGED files /\ call' = [call EXCEPT ![p] = c] /\ LockStep(p)
  BY DEF LastEvent, Go, LockStep, locks
<1>4. CallInv(p)'
  BY <1>0, <1>1, <1>2, <1>3 DEF LastEvent, At, files, locks, Idle, CallInv, Locked, InLedger, InProjection, Armed, Admissible, Filed, Entered, Reading, OnChain, HeadOf, HeadAt, OnHead, Unused, LedgerInv, LedgerTypeOK
<1> QED
  BY <1>2, <1>3, <1>4, QuietStep

LEMMA TakeProjectionSafe ==
    ASSUME LedgerInv, NEW p \in Proc, TakeProjection(p)
    PROVE  LedgerInv'
<1> DEFINE c == [call[p] EXCEPT !.pc = "fold"]
<1>1. call[p] \in Call /\ CallInv(p)
  BY DEF LedgerInv, LedgerTypeOK
<1>2. c \in Call
  BY <1>1, IdleTyped, LedgerAssumption DEF TakeProjection, Call, PC, Op, Idle, Keys, LedgerInv, LedgerTypeOK
<1>3. UNCHANGED files /\ call' = [call EXCEPT ![p] = c] /\ LockStep(p)
  BY DEF TakeProjection, Step, Go, LockStep, locks
<1>4. CallInv(p)'
  BY <1>1, <1>2, <1>3 DEF TakeProjection, Step, At, files, locks, Idle, CallInv, Locked, InLedger, InProjection, Armed, Admissible, Entered, Reading, Keys, LedgerInv, LedgerTypeOK
<1> QED
  BY <1>2, <1>3, <1>4, QuietStep

LEMMA ReadPageSafe ==
    ASSUME LedgerInv, NEW p \in Proc, ReadPage(p)
    PROVE  LedgerInv'
<1> DEFINE c == [call[p] EXCEPT !.pc = "pagehead", !.items = projection]
<1>1. call[p] \in Call /\ CallInv(p)
  BY DEF LedgerInv, LedgerTypeOK
<1>2. c \in Call
  BY <1>1, IdleTyped, LedgerAssumption DEF ReadPage, Call, PC, Op, Idle, Keys, LedgerInv, LedgerTypeOK
<1>3. UNCHANGED files /\ call' = [call EXCEPT ![p] = c] /\ LockStep(p)
  BY DEF ReadPage, Go, LockStep, locks
<1>4. CallInv(p)'
  BY <1>1, <1>2, <1>3 DEF ReadPage, At, files, locks, Idle, CallInv, Locked, InLedger, InProjection, Armed, Admissible, Entered, Reading, Keys, LedgerInv, LedgerTypeOK
<1> QED
  BY <1>2, <1>3, <1>4, QuietStep

(***************************************************************************)
(* Steps that end a call without a write.                                  *)
(***************************************************************************)
LEMMA EndsSafe ==
    ASSUME LedgerInv, NEW p \in Proc,
           \/ Abandon(p) \/ SubmitConflict(p) \/ ProposalNameTaken(p) \/ AlreadyAdmitted(p)
           \/ KeyConflict(p) \/ ReadHead(p)
    PROVE  LedgerInv'
BY QuietEnd DEF Abandon, SubmitConflict, ProposalNameTaken, AlreadyAdmitted, KeyConflict, ReadHead

(***************************************************************************)
(* The steps of a review.                                                  *)
(***************************************************************************)

\* What a key was given to is found by its marker, or else in the files.
LEMMA RecordedKey ==
    ASSUME LedgerInv, NEW k \in Keys
    PROVE  /\ Recorded(k) # 0 => Recorded(k) \in 1..Len(ledger) /\ ledger[Recorded(k)].key = k
           /\ Recorded(k) = 0 => Unused(k)
<1> DEFINE scan == {i \in 1..Len(ledger) : ledger[i].key = k}
<1>1. CASE marker[k] # 0
  BY <1>1 DEF Recorded, LedgerInv, FilesInv, Marked
<1>2. ASSUME marker[k] = 0, NEW i \in scan
      PROVE  Recorded(k) \in scan /\ Recorded(k) # 0
  <2>1. \A j \in scan : i <= j
    BY DEF LedgerInv, FilesInv, KeysOnce
  <2>2. First(scan) \in scan
    BY <2>1 DEF First
  <2>3. Recorded(k) = First(scan)
    BY <1>2 DEF Recorded
  <2> QED
    BY <2>2, <2>3
<1>3. CASE marker[k] = 0 /\ scan = {}
  BY <1>3 DEF Recorded, Unused
<1> QED
  BY <1>1, <1>2, <1>3

\* Who is at the gate has a proposal and a key.
LEMMA GateArmed ==
    ASSUME LedgerInv, NEW p \in Proc, At(p, "gate")
    PROVE  /\ call[p].prop \in 1..Len(proposals) /\ call[p].prop \in Proposals
           /\ call[p].key \in Keys /\ call[p].op = "admit"
BY LedgerAssumption DEF LedgerInv, LedgerTypeOK, CallInv, Armed, At, Proposals

LEMMA JudgeSafe ==
    ASSUME LedgerInv, NEW p \in Proc, Judge(p)
    PROVE  LedgerInv'
<1> DEFINE fit == OnHead(call[p].prop)
           c == [call[p] EXCEPT !.pc = "open", !.fit = fit]
<1>1. call[p] \in Call /\ CallInv(p)
  BY DEF LedgerInv, LedgerTypeOK
<1>2. UNCHANGED files /\ call' = [call EXCEPT ![p] = c] /\ UNCHANGED <<ledgerLock, projectionLock>>
  BY DEF Judge, Judged, Go, locks
<1>3. c \in Call
  BY <1>1 DEF Call, PC, OnHead
<1>4. call[p].pc = "gate" => Unused(call[p].key)
  BY GateArmed, RecordedKey DEF Judge, ToJudge, At
<1>5. call[p].pc \in {"review", "gate"}
  BY DEF Judge, ToJudge, At
<1>6. CallInv(p)'
  <2>1. Locked(p)' /\ Entered(p)' /\ Reading(p)'
    BY <1>1, <1>2, <1>5 DEF CallInv, Locked, InLedger, InProjection, Armed, Entered, Reading, LedgerInv, LedgerTypeOK
  <2>2. Armed(p)'
    BY <1>1, <1>2, <1>5 DEF CallInv, Armed, files, LedgerInv, LedgerTypeOK
  <2>3. Admissible(p)'
    <3>1. call'[p].pc = "open" /\ call'[p].op = call[p].op /\ call'[p].key = call[p].key
          /\ call'[p].prop = call[p].prop /\ call'[p].fit = fit
      BY <1>1, <1>2 DEF LedgerInv, LedgerTypeOK, Call
    <3>2. call[p].op = "admit" => Unused(call[p].key)
      BY <1>1, <1>4, <1>5 DEF CallInv, Armed
    <3>3. Unused(call[p].key)' = Unused(call[p].key) /\ OnHead(call[p].prop)' = OnHead(call[p].prop)
      BY <1>2, <3>1 DEF files, Unused, OnHead, HeadOf, HeadAt
    <3> QED
      BY <3>1, <3>2, <3>3 DEF Admissible, Unused, OnHead, HeadOf, HeadAt, files, Judge
  <2> QED
    BY <2>1, <2>2, <2>3 DEF CallInv
<1> QED
  BY <1>2, <1>3, <1>6, QuietStep DEF LockStep

LEMMA OpenReviewSafe ==
    ASSUME LedgerInv, NEW p \in Proc, OpenReview(p)
    PROVE  LedgerInv'
<1> DEFINE n == call[p].prop
           c == [call[p] EXCEPT !.pc = "write"]
<1>1. call[p] \in Call /\ CallInv(p) /\ call[p].pc = "open"
  BY DEF OpenReview, Step, At, LedgerInv, LedgerTypeOK
<1>2. n \in 1..Len(proposals) /\ n \in Proposals
  BY <1>1, LedgerAssumption DEF CallInv, Armed, Proposals, LedgerInv, LedgerTypeOK
<1>3. /\ UNCHANGED <<proposals, submitted, ledger, marker, projection, ledgerLock, projectionLock>>
      /\ call' = [call EXCEPT ![p] = c] /\ review' = [review EXCEPT ![n] = "empty"]
  BY DEF OpenReview, Step, Go, locks
<1>4. c \in Call
  BY <1>1 DEF Call, PC
<1>5. Filing
  BY <1>2, <1>3 DEF Filing, Filed, LedgerInv, LedgerTypeOK
<1>6. CallInv(p)'
  BY <1>1, <1>2, <1>3
  DEF CallInv, Locked, InLedger, InProjection, Armed, Admissible, Entered, Reading, Unused, OnHead, HeadOf, HeadAt, LedgerInv, LedgerTypeOK
<1> QED
  BY <1>3, <1>4, <1>5, <1>6, ReviewStep DEF LockStep

\* The review that is written is on file then, whole or not.
LEMMA Written ==
    ASSUME LedgerInv, NEW p \in Proc, WriteReview(p)
    PROVE  /\ Filing /\ review'[call[p].prop] # "none"
           /\ call[p] \in Call /\ CallInv(p) /\ call[p].pc = "write"
           /\ call[p].prop \in 1..Len(proposals) /\ call[p].prop \in Proposals
           /\ UNCHANGED <<proposals, submitted, ledger, marker, projection>>
<1>1. call[p] \in Call /\ CallInv(p) /\ call[p].pc = "write"
  BY DEF WriteReview, At, LedgerInv, LedgerTypeOK
<1>2. call[p].prop \in 1..Len(proposals) /\ call[p].prop \in Proposals
  BY <1>1, LedgerAssumption DEF CallInv, Armed, Proposals, LedgerInv, LedgerTypeOK
<1>3. PICK f \in {"whole", "torn"} : review' = [review EXCEPT ![call[p].prop] = f]
  BY DEF WriteReview
<1>4. Filing /\ review'[call[p].prop] # "none"
  BY <1>2, <1>3 DEF Filing, Filed, LedgerInv, LedgerTypeOK
<1> QED
  BY <1>1, <1>2, <1>4 DEF WriteReview, Filed

LEMMA ReviewEndsSafe ==
    ASSUME LedgerInv, NEW p \in Proc, Reviewed(p) \/ ReviewStale(p) \/ Stale(p) \/ HeadConflict(p)
    PROVE  LedgerInv'
<1>1. WriteReview(p) /\ End(p)
  BY DEF Reviewed, ReviewStale, Stale, HeadConflict
<1>2. call' = [call EXCEPT ![p] = Idle] /\ LockStep(p)
  BY <1>1, EndStep DEF End, Go
<1> QED
  BY <1>1, <1>2, Written, EndIdle, IdleTyped, ReviewStep

LEMMA ReviewPassedSafe ==
    ASSUME LedgerInv, NEW p \in Proc, ReviewPassed(p)
    PROVE  LedgerInv'
<1> DEFINE n == call[p].prop
           c == Admitting(n, n, TRUE)
<1>1. /\ Filing /\ call[p].pc = "write" /\ call[p].op = "contribute" /\ CallInv(p)
      /\ n \in 1..Len(proposals) /\ n \in Proposals
      /\ UNCHANGED <<proposals, submitted, ledger, marker, projection>>
  BY Written DEF ReviewPassed
<1>2. call' = [call EXCEPT ![p] = c] /\ UNCHANGED <<ledgerLock, projectionLock>>
  BY DEF ReviewPassed, Go, locks
<1>3. n \in Keys /\ n \in 0..MaxProposals
  BY <1>1, LedgerAssumption DEF Keys, Proposals
<1>4. c \in Call
  BY <1>3, IdleTyped DEF Admitting, Call, PC, Op, Idle
<1>5. CallInv(p)'
  <2>1. call'[p] = c
    BY <1>2 DEF LedgerInv, LedgerTypeOK
  <2> QED
    BY <2>1, <1>1, <1>2, <1>3
    DEF Admitting, Idle, CallInv, Locked, InLedger, InProjection, Armed, Admissible, Entered, Reading
<1> QED
  BY <1>1, <1>2, <1>4, <1>5, ReviewStep DEF LockStep

LEMMA PassSafe ==
    ASSUME LedgerInv, NEW p \in Proc, Pass(p)
    PROVE  LedgerInv'
<1> DEFINE c == [call[p] EXCEPT !.pc = "append", !.own = FALSE, !.fit = FALSE]
<1>1. /\ Filing /\ review'[call[p].prop] # "none" /\ call[p] \in Call /\ CallInv(p)
      /\ call[p].pc = "write" /\ call[p].op = "admit"
      /\ UNCHANGED <<proposals, submitted, ledger, marker, projection>>
  BY Written DEF Pass
<1>2. call' = [call EXCEPT ![p] = c] /\ UNCHANGED <<ledgerLock, projectionLock>>
  BY DEF Pass, Go, locks
<1>3. c \in Call
  BY <1>1 DEF Call, PC
<1>4. Unused(call[p].key) /\ OnHead(call[p].prop)
  BY <1>1 DEF Pass, Expected, CallInv, Admissible
<1>5. /\ call'[p] = c /\ c.pc = "append" /\ c.op = "admit" /\ c.key = call[p].key
      /\ c.prop = call[p].prop /\ c.name = call[p].name
  BY <1>1, <1>2 DEF LedgerInv, LedgerTypeOK, Call
<1> HIDE DEF c
<1>6. CallInv(p)'
  <2>1. Locked(p)' /\ Armed(p)' /\ Entered(p)' /\ Reading(p)'
    BY <1>1, <1>2, <1>5 DEF CallInv, Locked, InLedger, InProjection, Armed, Entered, Reading
  <2>2. Admissible(p)'
    BY <1>1, <1>4, <1>5 DEF Admissible, Filed, Unused, OnHead, HeadOf, HeadAt
  <2> QED
    BY <2>1, <2>2 DEF CallInv
<1> QED
  BY <1>1, <1>2, <1>3, <1>6, ReviewStep DEF LockStep

(***************************************************************************)
(* A replay.                                                               *)
(***************************************************************************)
LEMMA Conclude ==
    ASSUME LedgerInv, NEW p \in Proc, LedgerTypeOK', FilesInv', Considerate(p), CallInv(p)'
    PROVE  LedgerInv'
<1>1. ASSUME NEW q \in Proc PROVE CallInv(q)'
  BY OthersKeep
<1> QED
  BY <1>1 DEF LedgerInv

\* A step that changes only p's call and takes or releases p's locks.
LEMMA OnlyMine ==
    ASSUME LedgerInv, NEW p \in Proc, LockStep(p), NEW c, call' = [call EXCEPT ![p] = c]
    PROVE  \A q \in Proc \ {p} :
               /\ call'[q] = call[q]
               /\ ledgerLock = q <=> ledgerLock' = q
               /\ projectionLock = q <=> projectionLock' = q
<1>1. \A q \in Proc \ {p} : call'[q] = call[q] /\ q # None /\ q # p
  BY LedgerAssumption DEF LedgerInv, LedgerTypeOK
<1> QED
  BY <1>1 DEF LockStep

LEMMA ReplaySafe ==
    ASSUME LedgerInv, NEW p \in Proc, Replay(p)
    PROVE  LedgerInv'
<1> DEFINE k == call[p].key  i == Recorded(k)
<1>1. k \in Keys /\ i \in 1..Len(ledger) /\ ledger[i].key = k
  BY GateArmed, RecordedKey DEF Replay
<1>2. call' = [call EXCEPT ![p] = Idle] /\ LockStep(p)
  BY EndStep DEF Replay, End, Go
<1>3. marker' = [marker EXCEPT ![k] = i] /\ UNCHANGED <<proposals, submitted, review, ledger, projection>>
  BY DEF Replay
<1>4. LedgerTypeOK'
  <2>1. marker' \in [Keys -> Nat]
    BY <1>1, <1>3 DEF LedgerInv, LedgerTypeOK
  <2>2. call' \in [Proc -> Call]
    BY <1>2, IdleTyped DEF LedgerInv, LedgerTypeOK
  <2> QED
    BY <2>1, <2>2, <1>2, <1>3 DEF LedgerInv, LedgerTypeOK, LockStep
<1>5. FilesInv'
  <2>1. Chained' /\ KeysOnce' /\ AllOnChain'
    BY <1>3 DEF LedgerInv, FilesInv, Chained, Filed, Verified, HeadAt, KeysOnce, AllOnChain, OnChain
  <2>2. Marked'
    BY <1>1, <1>3 DEF LedgerInv, LedgerTypeOK, FilesInv, Marked
  <2> QED
    BY <2>1, <2>2 DEF FilesInv
<1>6. Considerate(p)
  <2>1. \A q \in Proc \ {p} :
            call'[q] = call[q] /\ (ledgerLock = q <=> ledgerLock' = q) /\ (projectionLock = q <=> projectionLock' = q)
    BY <1>2, OnlyMine
  <2> QED
    BY <2>1, <1>3 DEF Considerate, Filed, LedgerInv, LedgerTypeOK
<1>7. CallInv(p)'
  BY EndIdle DEF Replay
<1> QED
  BY <1>4, <1>5, <1>6, <1>7, Conclude

(***************************************************************************)
(* Steps that write a proposal or its name.                                *)
(***************************************************************************)
LEMMA ProposalFileSafe ==
    ASSUME LedgerInv, NEW p \in Proc, ProposalFile(p)
    PROVE  LedgerInv'
<1> DEFINE h == call[p].head
           c == [call[p] EXCEPT !.pc = "name", !.prop = Len(proposals) + 1]
<1>1. call[p] \in Call /\ CallInv(p) /\ call[p].pc = "file"
  BY DEF ProposalFile, At, LedgerInv, LedgerTypeOK
<1>2. h \in Hashes /\ OnChain(h) /\ call[p].op = "contribute" /\ call[p].name \in Name
  BY <1>1 DEF Call, CallInv, Armed
<1>3. /\ proposals' = Append(proposals, h) /\ call' = [call EXCEPT ![p] = c]
      /\ UNCHANGED <<submitted, review, ledger, marker, projection, ledgerLock, projectionLock>>
  BY DEF ProposalFile, Go, locks
<1>4. proposals \in Seq(Hashes) /\ Len(proposals) < MaxProposals
  BY DEF ProposalFile, LedgerInv, LedgerTypeOK
<1>5. /\ Len(proposals') = Len(proposals) + 1 /\ proposals' \in Seq(Hashes)
      /\ \A n \in 1..Len(proposals) : proposals'[n] = proposals[n]
      /\ proposals'[Len(proposals) + 1] = h
  BY <1>2, <1>3, <1>4
<1>6. c \in Call
  <2>1. Len(proposals) + 1 \in 0..MaxProposals
    BY <1>4, LedgerAssumption
  <2> QED
    BY <2>1, <1>1 DEF Call, PC
<1>7. LedgerTypeOK'
  <2>1. call' \in [Proc -> Call]
    BY <1>3, <1>6 DEF LedgerInv, LedgerTypeOK
  <2>2. submitted' \in [Name -> 0..Len(proposals')] /\ \A n \in Proposals : review'[n] # "none" => n <= Len(proposals')
    BY <1>3, <1>4, <1>5, LedgerAssumption DEF Proposals, LedgerInv, LedgerTypeOK
  <2> QED
    BY <2>1, <2>2, <1>3, <1>4, <1>5, LedgerAssumption DEF LedgerInv, LedgerTypeOK
<1>8. FilesInv'
  <2>1. \A i \in 1..Len(ledger) : ledger[i].proposal \in 1..Len(proposals)
    BY <1>4, EventsTyped, LedgerAssumption DEF LedgerInv, LedgerTypeOK, FilesInv, Chained, Filed, Proposals
  <2>2. Chained'
    BY <1>3, <1>5, <2>1 DEF LedgerInv, FilesInv, Chained, Filed, Verified, HeadAt
  <2>3. KeysOnce' /\ Marked'
    BY <1>3 DEF LedgerInv, FilesInv, KeysOnce, Marked
  <2>4. AllOnChain'
    BY <1>2, <1>3, <1>4, <1>5 DEF LedgerInv, FilesInv, AllOnChain, OnChain, HeadAt
  <2> QED
    BY <2>2, <2>3, <2>4 DEF FilesInv
<1>9. Considerate(p)
  <2>1. LockStep(p)
    BY <1>3 DEF LockStep
  <2>2. \A q \in Proc \ {p} :
            call'[q] = call[q] /\ (ledgerLock = q <=> ledgerLock' = q) /\ (projectionLock = q <=> projectionLock' = q)
    BY <2>1, <1>3, OnlyMine
  <2> QED
    BY <2>2, <1>3, <1>4, <1>5 DEF Considerate, Filed
<1>10. CallInv(p)'
  BY <1>1, <1>2, <1>3, <1>4, <1>5
  DEF CallInv, Locked, InLedger, InProjection, Armed, Admissible, Entered, Reading, LedgerInv, LedgerTypeOK
<1> QED
  BY <1>7, <1>8, <1>9, <1>10, Conclude

LEMMA ProposalNameSafe ==
    ASSUME LedgerInv, NEW p \in Proc, ProposalName(p)
    PROVE  LedgerInv'
<1> DEFINE n == call[p].prop
           c == [Idle EXCEPT !.pc = "life", !.op = "contribute", !.prop = n]
<1>1. call[p] \in Call /\ n \in 1..Len(proposals) /\ call[p].name \in Name
  BY DEF ProposalName, At, LedgerInv, LedgerTypeOK, CallInv, Armed
<1>2. n \in 0..MaxProposals
  BY <1>1 DEF Call
<1>3. c \in Call
  BY <1>2, IdleTyped DEF Call, PC, Op, Idle
<1>4. /\ UNCHANGED <<proposals, review, ledger, marker, projection, ledgerLock, projectionLock>>
      /\ call' = [call EXCEPT ![p] = c] /\ submitted' = [submitted EXCEPT ![call[p].name] = n]
  BY DEF ProposalName, Submitted, Go, locks
<1>5. LedgerTypeOK'
  <2>1. call' \in [Proc -> Call]
    BY <1>3, <1>4 DEF LedgerInv, LedgerTypeOK
  <2>2. submitted' \in [Name -> 0..Len(proposals)]
    BY <1>1, <1>4 DEF LedgerInv, LedgerTypeOK
  <2> QED
    BY <2>1, <2>2, <1>4 DEF LedgerInv, LedgerTypeOK
<1>6. FilesInv'
  BY <1>4, NoFiling, ReviewKeepsFiles
<1>7. Considerate(p)
  <2>1. LockStep(p)
    BY <1>4 DEF LockStep
  <2>2. \A q \in Proc \ {p} :
            call'[q] = call[q] /\ (ledgerLock = q <=> ledgerLock' = q) /\ (projectionLock = q <=> projectionLock' = q)
    BY <2>1, <1>4, OnlyMine
  <2> QED
    BY <2>2, <1>4 DEF Considerate, Filed, LedgerInv, LedgerTypeOK
<1>8. CallInv(p)'
  BY <1>1, <1>4
  DEF ProposalName, At, Idle, CallInv, Locked, InLedger, InProjection, Armed, Admissible, Entered, Reading, LedgerInv, LedgerTypeOK
<1> QED
  BY <1>5, <1>6, <1>7, <1>8, Conclude

(***************************************************************************)
(* Steps that write an event, its marker or the projection.                *)
(***************************************************************************)

\* The event that is about to be written continues the chain, for a proposal
\* and under a key that have none yet.
LEMMA NextEvent ==
    ASSUME LedgerInv, NEW p \in Proc, At(p, "event")
    PROVE  /\ call[p].prop \in 1..Len(proposals) /\ Filed(call[p].prop)
           /\ call[p].head = HeadOf(ledger) /\ call[p].head[1] = Len(ledger)
           /\ proposals[call[p].prop] = HeadOf(ledger)
           /\ [seq |-> call[p].head[1] + 1, prev |-> call[p].head,
               proposal |-> call[p].prop, key |-> call[p].key] \in Event
           /\ \A i \in 1..Len(ledger) : ledger[i].proposal # call[p].prop /\ ledger[i].key # call[p].key
<1> DEFINE c == call[p]
<1>1. c \in Call /\ CallInv(p) /\ c.pc = "event" /\ ledger \in Seq(Event)
  BY DEF At, LedgerInv, LedgerTypeOK
<1>2. c.prop \in 1..Len(proposals) /\ c.key \in Keys /\ c.op = "admit"
  BY <1>1 DEF CallInv, Armed
<1>3. Filed(c.prop) /\ OnHead(c.prop) /\ Unused(c.key) /\ c.head = HeadOf(ledger)
  BY <1>1 DEF CallInv, Admissible
<1>4. Verified(ledger)
  BY DEF LedgerInv, FilesInv, Chained
<1>5. HeadOf(ledger) \in Hashes /\ HeadOf(ledger)[1] = Len(ledger)
  BY <1>1, <1>4, HeadTyped, HeadLength DEF HeadOf
<1>6. ASSUME NEW i \in 1..Len(ledger) PROVE ledger[i].proposal # c.prop
  <2>1. proposals[ledger[i].proposal] = HeadAt(ledger, i - 1)
    BY <1>4 DEF Verified, LedgerInv, FilesInv, Chained
  <2>2. HeadAt(ledger, i - 1)[1] = i - 1
    BY <1>1, <1>4, HeadLength
  <2> QED
    BY <2>1, <2>2, <1>1, <1>3, <1>5 DEF OnHead
<1>7. c.prop \in Proposals /\ Len(ledger) + 1 \in Nat
  BY <1>1, <1>2, LedgerAssumption DEF Proposals, LedgerInv, LedgerTypeOK
<1> QED
  BY <1>2, <1>3, <1>5, <1>6, <1>7 DEF Event, OnHead, Unused

LEMMA EventFileSafe ==
    ASSUME LedgerInv, NEW p \in Proc, EventFile(p)
    PROVE  LedgerInv'
<1> DEFINE d == call[p]
           e == [seq |-> d.head[1] + 1, prev |-> d.head, proposal |-> d.prop, key |-> d.key]
           c == [d EXCEPT !.pc = "marker", !.head = Genesis, !.at = Len(ledger) + 1]
<1>1. d \in Call /\ CallInv(p) /\ d.pc = "event" /\ At(p, "event") /\ ledger \in Seq(Event)
  BY DEF EventFile, At, LedgerInv, LedgerTypeOK
<1>2. d.key \in Keys /\ d.op = "admit" /\ ledgerLock = p
  BY <1>1 DEF CallInv, Armed, Locked, InLedger
<1>3. /\ UNCHANGED <<proposals, submitted, review, marker, projection, ledgerLock, projectionLock>>
      /\ call' = [call EXCEPT ![p] = c] /\ ledger' = Append(ledger, e)
  BY DEF EventFile, Go, locks
<1>4. e \in Event /\ d.prop \in 1..Len(proposals)
  BY <1>1, NextEvent
<1> HIDE DEF e
<1>5. /\ ledger' \in Seq(Event) /\ Len(ledger) \in Nat /\ Len(ledger') = Len(ledger) + 1
      /\ \A i \in 1..Len(ledger) : ledger'[i] = ledger[i]
      /\ ledger'[Len(ledger) + 1] = e
  BY <1>1, <1>3, <1>4
<1>6. c \in Call
  <2>1. Genesis \in Hashes /\ Len(ledger) + 1 \in Nat
    BY <1>5, LedgerAssumption DEF Genesis, Hashes
  <2> QED
    BY <2>1, <1>1 DEF Call, PC
<1>7. LedgerTypeOK'
  <2>1. call' \in [Proc -> Call]
    BY <1>3, <1>6 DEF LedgerInv, LedgerTypeOK
  <2> QED
    BY <2>1, <1>3, <1>5 DEF LedgerInv, LedgerTypeOK
<1>8. \A n \in 0..Len(ledger) : n \in 0..Len(ledger') /\ HeadAt(ledger', n) = HeadAt(ledger, n)
  BY <1>1, <1>3, <1>4, <1>5, HeadKept
<1>9. /\ e.seq = Len(ledger) + 1 /\ e.prev = HeadAt(ledger, Len(ledger)) /\ proposals[e.proposal] = e.prev
      /\ e.proposal = d.prop /\ e.key = d.key /\ Filed(e.proposal)
  BY <1>1, NextEvent DEF e, HeadOf
<1>10. \A i \in 1..Len(ledger) : ledger[i].proposal # d.prop /\ ledger[i].key # d.key
  BY <1>1, NextEvent
<1>11. FilesInv'
  <2>1. Verified(ledger')
    BY <1>5, <1>8, <1>9 DEF Verified, LedgerInv, FilesInv, Chained
  <2>2. Chained'
    BY <2>1, <1>3, <1>5, <1>9 DEF LedgerInv, FilesInv, Chained, Filed
  <2>3. KeysOnce'
    BY <1>5, <1>9, <1>10 DEF LedgerInv, FilesInv, KeysOnce
  <2>4. Marked'
    BY <1>3, <1>5 DEF LedgerInv, FilesInv, Marked
  <2>5. AllOnChain'
    BY <1>3, <1>8 DEF LedgerInv, FilesInv, AllOnChain, OnChain
  <2> QED
    BY <2>2, <2>3, <2>4, <2>5 DEF FilesInv
<1>12. Considerate(p)
  <2>1. LockStep(p)
    BY <1>3 DEF LockStep
  <2>2. \A q \in Proc \ {p} :
            call'[q] = call[q] /\ (ledgerLock = q <=> ledgerLock' = q) /\ (projectionLock = q <=> projectionLock' = q)
    BY <2>1, <1>3, OnlyMine
  <2> QED
    BY <2>2, <1>2, <1>3, <1>4 DEF Considerate, Filed, LedgerInv, LedgerTypeOK
<1>13. CallInv(p)'
  BY <1>1, <1>2, <1>3, <1>4, <1>5, <1>9
  DEF CallInv, Locked, InLedger, InProjection, Armed, Admissible, Entered, Reading, LedgerInv, LedgerTypeOK
<1> QED
  BY <1>7, <1>11, <1>12, <1>13, Conclude

LEMMA EventMarkerSafe ==
    ASSUME LedgerInv, NEW p \in Proc, EventMarker(p)
    PROVE  LedgerInv'
<1> DEFINE d == call[p]
           c == [d EXCEPT !.pc = "refresh"]
<1>1. d \in Call /\ CallInv(p) /\ d.pc = "marker" /\ ledger \in Seq(Event)
  BY DEF EventMarker, Step, At, LedgerInv, LedgerTypeOK
<1>2. /\ UNCHANGED <<proposals, submitted, review, ledger, projection, ledgerLock, projectionLock>>
      /\ call' = [call EXCEPT ![p] = c] /\ marker' = [marker EXCEPT ![d.key] = d.at]
  BY DEF EventMarker, Step, Go, locks
<1>3. d.key \in Keys /\ d.op = "admit" /\ d.at \in 1..Len(ledger) /\ ledger[d.at].key = d.key
  BY <1>1 DEF CallInv, Armed, Entered
<1>4. c \in Call
  BY <1>1 DEF Call, PC
<1>5. LedgerTypeOK'
  <2>1. call' \in [Proc -> Call]
    BY <1>2, <1>4 DEF LedgerInv, LedgerTypeOK
  <2>2. marker' \in [Keys -> Nat]
    BY <1>1, <1>2, <1>3 DEF LedgerInv, LedgerTypeOK
  <2> QED
    BY <2>1, <2>2, <1>2 DEF LedgerInv, LedgerTypeOK
<1>6. FilesInv'
  <2>1. Chained' /\ KeysOnce' /\ AllOnChain'
    BY <1>2 DEF LedgerInv, FilesInv, Chained, Filed, Verified, HeadAt, KeysOnce, AllOnChain, OnChain
  <2>2. Marked'
    BY <1>2, <1>3 DEF LedgerInv, LedgerTypeOK, FilesInv, Marked
  <2> QED
    BY <2>1, <2>2 DEF FilesInv
<1>7. Considerate(p)
  <2>1. LockStep(p)
    BY <1>2 DEF LockStep
  <2>2. \A q \in Proc \ {p} :
            call'[q] = call[q] /\ (ledgerLock = q <=> ledgerLock' = q) /\ (projectionLock = q <=> projectionLock' = q)
    BY <2>1, <1>2, OnlyMine
  <2> QED
    BY <2>2, <1>2 DEF Considerate, Filed, LedgerInv, LedgerTypeOK
<1>8. CallInv(p)'
  BY <1>1, <1>2, <1>3
  DEF CallInv, Locked, InLedger, InProjection, Armed, Admissible, Entered, Reading, LedgerInv, LedgerTypeOK
<1> QED
  BY <1>5, <1>6, <1>7, <1>8, Conclude

\* What the two ways on from the refresh of the projection have in common.
LEMMA FoldSafe ==
    ASSUME LedgerInv, NEW p \in Proc, At(p, "fold"), Fold, LockStep(p),
           UNCHANGED <<proposals, submitted, review, ledger, marker>>,
           NEW c \in Call, call' = [call EXCEPT ![p] = c], CallInv(p)'
    PROVE  LedgerInv'
<1>1. projectionLock = p
  BY DEF LedgerInv, CallInv, Locked, InProjection, At
<1>2. LedgerTypeOK'
  BY DEF Fold, LedgerInv, LedgerTypeOK, LockStep
<1>3. FilesInv'
  BY NoFiling, ReviewKeepsFiles
<1>4. Considerate(p)
  <2>1. \A q \in Proc \ {p} :
            call'[q] = call[q] /\ (ledgerLock = q <=> ledgerLock' = q) /\ (projectionLock = q <=> projectionLock' = q)
    BY OnlyMine
  <2> QED
    BY <2>1, <1>1 DEF Considerate, Filed, LedgerInv, LedgerTypeOK
<1> QED
  BY <1>2, <1>3, <1>4, Conclude

LEMMA FoldAdmittedSafe ==
    ASSUME LedgerInv, NEW p \in Proc, FoldAdmitted(p)
    PROVE  LedgerInv'
<1>1. call' = [call EXCEPT ![p] = Idle] /\ LockStep(p)
  BY EndStep DEF FoldAdmitted, End, Go
<1>2. CallInv(p)'
  BY EndIdle DEF FoldAdmitted
<1> QED
  BY <1>1, <1>2, IdleTyped, FoldSafe DEF FoldAdmitted

LEMMA FoldToReadSafe ==
    ASSUME LedgerInv, NEW p \in Proc, FoldToRead(p)
    PROVE  LedgerInv'
<1> DEFINE c == [call[p] EXCEPT !.pc = "page"]
<1>1. call[p] \in Call /\ CallInv(p) /\ call[p].pc = "fold"
  BY DEF FoldToRead, Step, At, LedgerInv, LedgerTypeOK
<1>2. c \in Call /\ projectionLock = p
  BY <1>1 DEF Call, PC, CallInv, Locked, InProjection
<1>3. call' = [call EXCEPT ![p] = c] /\ UNCHANGED ledgerLock /\ call[p].op \in {"read", "frontier"}
  BY DEF FoldToRead, Step, Go
<1>4. LockStep(p)
  BY <1>2, <1>3 DEF FoldToRead, LockStep
<1>5. CallInv(p)'
  BY <1>1, <1>2, <1>3, LedgerAssumption
  DEF FoldToRead, Fold, CallInv, Locked, InLedger, InProjection, Armed, Admissible, Entered, Reading, LedgerInv, LedgerTypeOK
<1> QED
  BY <1>1, <1>2, <1>3, <1>4, <1>5, FoldSafe DEF FoldToRead, At

(***************************************************************************)
(* The invariant, and the properties that follow from it.                  *)
(***************************************************************************)
LEMMA InitInv == LedgerInit => LedgerInv
<1> SUFFICES ASSUME LedgerInit PROVE LedgerInv
  OBVIOUS
<1>1. LedgerTypeOK
  BY IdleTyped, LedgerAssumption DEF LedgerInit, LedgerTypeOK
<1>2. FilesInv
  BY DEF LedgerInit, FilesInv, Chained, Filed, Verified, KeysOnce, Marked, AllOnChain
<1>3. ASSUME NEW p \in Proc PROVE CallInv(p)
  BY LedgerAssumption
  DEF LedgerInit, Idle, CallInv, Locked, InLedger, InProjection, Armed, Admissible, Entered, Reading
<1> QED
  BY <1>1, <1>2, <1>3 DEF LedgerInv

LEMMA StutterInv ==
    ASSUME LedgerInv, UNCHANGED ledgerVars
    PROVE  LedgerInv'
<1>1. UNCHANGED <<proposals, submitted, review, ledger, marker, projection, ledgerLock, projectionLock, call>>
  BY DEF ledgerVars, files, locks
<1>2. LedgerTypeOK'
  BY <1>1 DEF LedgerInv, LedgerTypeOK
<1>3. FilesInv'
  BY <1>1, NoFiling, ReviewKeepsFiles
<1>4. ASSUME NEW p \in Proc PROVE CallInv(p)'
  BY <1>1
  DEF LedgerInv, CallInv, Locked, InLedger, InProjection, Armed, Admissible, Filed, Entered, Reading,
      OnChain, OnHead, Unused, HeadOf, HeadAt
<1> QED
  BY <1>2, <1>3, <1>4 DEF LedgerInv

LEMMA NextInv == LedgerInv /\ [LedgerNext]_ledgerVars => LedgerInv'
<1> SUFFICES ASSUME LedgerInv, [LedgerNext]_ledgerVars PROVE LedgerInv'
  OBVIOUS
<1>1. CASE UNCHANGED ledgerVars
  BY <1>1, StutterInv
<1>2. ASSUME NEW p \in Proc, Calls(p) PROVE LedgerInv'
  BY <1>2, ContributeSafe, ReviewSafe, AdmitSafe, ReadSafe, FrontierSafe DEF Calls
<1>3. ASSUME NEW p \in Proc, Proceeds(p) PROVE LedgerInv'
  <2>1. CASE \/ SubmitHead(p) \/ SubmitAgain(p) \/ SubmitConflict(p) \/ SubmitNew(p)
             \/ ProposalFile(p) \/ ProposalName(p) \/ ProposalNameTaken(p) \/ NotYetAdmitted(p)
    BY <2>1, SubmitHeadSafe, SubmitAgainSafe, SubmitNewSafe, ProposalFileSafe, ProposalNameSafe,
       NotYetAdmittedSafe, EndsSafe
  <2>2. CASE Judge(p) \/ OpenReview(p) \/ Reviewed(p) \/ ReviewPassed(p) \/ ReviewStale(p)
    BY <2>2, JudgeSafe, OpenReviewSafe, ReviewEndsSafe, ReviewPassedSafe
  <2>3. CASE TakeLedger(p) \/ HeadConflict(p) \/ Pass(p)
    BY <2>3, TakeLedgerSafe, ReviewEndsSafe, PassSafe
  <2>4. CASE LastEvent(p) \/ EventFile(p) \/ EventMarker(p)
    BY <2>4, LastEventSafe, EventFileSafe, EventMarkerSafe
  <2>5. CASE TakeProjection(p) \/ FoldToRead(p) \/ ReadPage(p) \/ ReadHead(p)
    BY <2>5, TakeProjectionSafe, FoldToReadSafe, ReadPageSafe, EndsSafe
  <2> QED
    BY <1>3, <2>1, <2>2, <2>3, <2>4, <2>5 DEF Proceeds
<1>5. ASSUME NEW p \in Proc, Answers(p) PROVE LedgerInv'
  BY <1>5, EndsSafe, ReplaySafe, ReviewEndsSafe, FoldAdmittedSafe DEF Answers
<1>4. ASSUME NEW p \in Proc, Abandon(p) PROVE LedgerInv'
  BY <1>4, EndsSafe
<1> QED
  BY <1>1, <1>2, <1>3, <1>4, <1>5 DEF LedgerNext

\* The inductive invariant holds throughout.
THEOREM LedgerInvariant == LedgerSpec => []LedgerInv
BY InitInv, NextInv, PTL DEF LedgerSpec

\* Every file holds what its readers parse, and every call what it works with.
THEOREM LedgerTypes == LedgerSpec => []LedgerTypeOK
<1>1. LedgerInv => LedgerTypeOK
  BY DEF LedgerInv
<1> QED
  BY <1>1, LedgerInvariant, PTL

\* The chain verifies at all times, whichever calls end half way: verify_files
\* never refuses what append_event wrote.
THEOREM ChainAlwaysVerifies == LedgerSpec => []LedgerVerifies
<1>1. LedgerInv => LedgerVerifies
  BY DEF LedgerInv, FilesInv, Chained, LedgerVerifies
<1> QED
  BY <1>1, LedgerInvariant, PTL

\* The key of every admission leads to it, by its marker or by the scan of the
\* events, and what was admitted has a review on file: a retry of
\* proposal_admit is answered with the admission there is, after any crash.
THEOREM ReplaysAlwaysFound == LedgerSpec => []ReplaysFound
<1>1. LedgerInv => ReplaysFound
  <2> SUFFICES ASSUME LedgerInv PROVE ReplaysFound
    OBVIOUS
  <2>1. ASSUME NEW i \in 1..Len(ledger) PROVE Recorded(ledger[i].key) = i
    <3>1. ledger[i].key \in Keys
      BY EventsTyped DEF LedgerInv
    <3>2. Recorded(ledger[i].key) # 0
      BY <3>1, RecordedKey DEF Unused
    <3> QED
      BY <3>1, <3>2, RecordedKey DEF LedgerInv, FilesInv, KeysOnce
  <2> QED
    BY <2>1 DEF LedgerInv, FilesInv, Chained, Filed, Marked, ReplaysFound
<1> QED
  BY <1>1, LedgerInvariant, PTL

\* What with_stable_projection returns is one snapshot.
THEOREM StableReadsCoherent == LedgerSpec => []PageCoherent
<1>1. LedgerInv => PageCoherent
  BY DEF LedgerInv, CallInv, Reading, PageCoherent, Coherent, At
<1> QED
  BY <1>1, LedgerInvariant, PTL

\* The two locks are always taken in one order, by any number of processes:
\* no call needs the ten seconds of with_authority_lock to get out.
THEOREM NeverGridlocked == LedgerSpec => []NoGridlock
<1>1. LedgerInv => NoGridlock
  <2> SUFFICES ASSUME LedgerInv, NEW p \in Proc, ~At(p, "idle")
               PROVE  \E q \in Proc : ~At(q, "idle") /\ ~Waits(q)
    BY DEF NoGridlock
  <2>1. \A q \in Proc : Locked(q) /\ Armed(q)
    BY DEF LedgerInv, CallInv
  <2>2. ledgerLock \in Proc \cup {None} /\ projectionLock \in Proc \cup {None}
    BY DEF LedgerInv, LedgerTypeOK
  <2>3. CASE projectionLock # None
    <3>1. InProjection(call[projectionLock]) /\ projectionLock \in Proc
      BY <2>1, <2>2, <2>3 DEF Locked
    <3> QED
      BY <3>1 DEF InProjection, Waits, At
  <2>4. CASE projectionLock = None /\ ledgerLock # None
    <3>1. InLedger(call[ledgerLock]) /\ ledgerLock \in Proc
      BY <2>1, <2>2, <2>4 DEF Locked
    <3> QED
      BY <3>1, <2>4 DEF InLedger, Waits, At
  <2>5. CASE projectionLock = None /\ ledgerLock = None
    BY <2>5 DEF Waits
  <2> QED
    BY <2>3, <2>4, <2>5
<1> QED
  BY <1>1, LedgerInvariant, PTL


(***************************************************************************)
(* The promises of AdmissionRegister.  The events are the record; making a *)
(* proposal is writing its file, entering one is writing an event.         *)
(***************************************************************************)
Base == [n \in Proposals |-> IF n <= Len(proposals) THEN proposals[n][1] ELSE None]

Admissions == [proposal : Proposals, key : Keys]

Record == [i \in 1..Len(ledger) |-> Admission(ledger[i])]

Promised == Promise!RegisterNext \/ UNCHANGED Promise!registerVars

LEMMA RecordTyped ==
    ASSUME ledger \in Seq(Event)
    PROVE  /\ Record \in Seq(Admissions) /\ Len(Record) = Len(ledger)
           /\ \A i \in 1..Len(ledger) :
                  /\ Record[i] = [proposal |-> ledger[i].proposal, key |-> ledger[i].key]
                  /\ Record[i].proposal = ledger[i].proposal /\ Record[i].key = ledger[i].key
<1>1. \A i \in 1..Len(ledger) : ledger[i] \in Event
  OBVIOUS
<1>2. \A i \in 1..Len(ledger) : Admission(ledger[i]) \in Admissions
  BY <1>1 DEF Event, Admission, Admissions
<1>3. Len(ledger) \in Nat
  OBVIOUS
<1> QED
  BY <1>2, <1>3 DEF Record, Admission

\* A call that files no proposal, writes no event and answers nothing is put off.
LEMMA NotSeen ==
    ASSUME UNCHANGED <<proposals, ledger>>, answer' = None
    PROVE  Promised
BY DEF Promised, Promise!RegisterNext, Promise!PutOff, Admission

LEMMA ConfirmSeen ==
    ASSUME NEW i \in 1..Len(ledger), UNCHANGED <<proposals, ledger>>, ledger \in Seq(Event),
           Admitted(ledger[i].proposal, ledger[i].key, i)
    PROVE  Promised
<1>1. Len(Record) = Len(ledger) /\ Record[i] = Admission(ledger[i]) /\ Record' = Record
  BY DEF Record, Admission
<1>2. Promise!Confirm(i)
  BY <1>1 DEF Promise!Confirm, Record, Admission, Admitted, Answer
<1> QED
  BY <1>1, <1>2 DEF Promised, Promise!RegisterNext, Record

\* What the ledger tells of a pair that is refused.
Lost(n, k) ==
    /\ \A i \in 1..Len(ledger) : ledger[i].proposal # n \/ ledger[i].key # k
    /\ \/ \E i \in 1..Len(ledger) : ledger[i].key = k /\ ledger[i].proposal # n
       \/ n <= Len(proposals) /\ proposals[n][1] < Len(ledger)

LostIsHopeless == \A n \in Proposals, k \in Keys : Promise!Hopeless(n, k) <=> Lost(n, k)

LEMMA LostHopeless == LedgerTypeOK => LostIsHopeless
<1> SUFFICES ASSUME LedgerTypeOK, NEW n \in Proposals, NEW k \in Keys
             PROVE  Promise!Hopeless(n, k) <=> Lost(n, k)
  BY DEF LostIsHopeless
<1>1. ledger \in Seq(Event) /\ proposals \in Seq(Hashes) /\ n \in Nat /\ n >= 1
  BY LedgerAssumption DEF LedgerTypeOK, Proposals
<1>2. \A i \in 1..Len(ledger) :
          /\ Record[i] \in Admissions
          /\ Record[i].proposal = ledger[i].proposal /\ Record[i].key = ledger[i].key
  <2>1. Record \in Seq(Admissions) /\ Len(Record) = Len(ledger)
    BY <1>1, RecordTyped
  <2>2. \A i \in 1..Len(ledger) : Record[i].proposal = ledger[i].proposal /\ Record[i].key = ledger[i].key
    BY <1>1, RecordTyped
  <2> HIDE DEF Record
  <2>3. \A i \in 1..Len(Record) : Record[i] \in Admissions
    BY <2>1
  <2> QED
    BY <2>1, <2>2, <2>3
<1>3. Len(Record) = Len(ledger)
  BY <1>1, RecordTyped
<1>4. n <= Len(proposals) => proposals[n][1] \in Nat
  BY <1>1 DEF Hashes
<1>5. Base[n] = IF n <= Len(proposals) THEN proposals[n][1] ELSE None
  BY DEF Base
<1>6. Promise!OnRecord(n, k) <=> \E i \in 1..Len(ledger) : ledger[i].proposal = n /\ ledger[i].key = k
  <2> HIDE DEF Record
  <2>1. (\E i \in 1..Len(Record) : Record[i] = [proposal |-> n, key |-> k])
            <=> \E i \in 1..Len(ledger) : ledger[i].proposal = n /\ ledger[i].key = k
    BY <1>2, <1>3 DEF Admissions
  <2> QED
    BY <2>1 DEF Promise!OnRecord, Record
<1>7. Promise!NamesAnother(n, k) <=> \E i \in 1..Len(ledger) : ledger[i].key = k /\ ledger[i].proposal # n
  <2> HIDE DEF Record
  <2>1. (\E i \in 1..Len(Record) : Record[i].key = k /\ Record[i].proposal # n)
            <=> \E i \in 1..Len(ledger) : ledger[i].key = k /\ ledger[i].proposal # n
    BY <1>2, <1>3
  <2> QED
    BY <2>1 DEF Promise!NamesAnother, Record
<1>8. Promise!Overtaken(n) <=> n <= Len(proposals) /\ proposals[n][1] < Len(ledger)
  <2>1. Base[n] # None /\ Base[n] < Len(Record) <=> n <= Len(proposals) /\ proposals[n][1] < Len(ledger)
    BY <1>3, <1>4, <1>5, LedgerAssumption
  <2> QED
    BY <2>1 DEF Promise!Overtaken, Base, Record
<1> QED
  BY <1>6, <1>7, <1>8 DEF Promise!Hopeless, Lost

LEMMA RefuseSeen ==
    ASSUME LedgerInv, NEW p \in Proc, call[p].prop \in Proposals, call[p].key \in Keys,
           Refused(p), Lost(call[p].prop, call[p].key), UNCHANGED <<proposals, ledger>>
    PROVE  Promised
<1> DEFINE n == call[p].prop  k == call[p].key
<1>1. Promise!Hopeless(n, k)
  BY LostHopeless DEF LedgerInv, LostIsHopeless
<1>2. Promise!Refuse(n, k)
  BY <1>1 DEF Promise!Refuse, Refused, Answer, Admission
<1> QED
  BY <1>2 DEF Promised, Promise!RegisterNext

LEMMA EnterSeen ==
    ASSUME NEW n \in Proposals, NEW k \in Keys, UNCHANGED proposals, answer' = None,
           ledger \in Seq(Event), NEW e \in Event, e.proposal = n, e.key = k,
           ledger' = Append(ledger, e), n <= Len(proposals), proposals[n][1] = Len(ledger),
           \A i \in 1..Len(ledger) : ledger[i].key # k
    PROVE  Promised
<1> DEFINE a == [proposal |-> n, key |-> k]
           t == Append(Record, a)
<1>1. /\ Len(ledger) \in Nat /\ ledger' \in Seq(Event) /\ Len(ledger') = Len(ledger) + 1
      /\ \A i \in 1..Len(ledger) : ledger'[i] = ledger[i]
      /\ ledger'[Len(ledger) + 1] = e
  OBVIOUS
<1>2. /\ Record \in Seq(Admissions) /\ Len(Record) = Len(ledger)
      /\ \A i \in 1..Len(ledger) :
             Record[i].proposal = ledger[i].proposal /\ Record[i].key = ledger[i].key
  BY RecordTyped
<1>3. /\ Record' \in Seq(Admissions) /\ Len(Record') = Len(ledger) + 1
      /\ \A i \in 1..Len(ledger') :
             Record'[i].proposal = ledger'[i].proposal /\ Record'[i].key = ledger'[i].key
  <2>1. Record' = [i \in 1..Len(ledger') |-> Admission(ledger'[i])]
    BY DEF Record, Admission
  <2>2. \A i \in 1..Len(ledger') : ledger'[i] \in Event
    BY <1>1
  <2>3. \A i \in 1..Len(ledger') : Admission(ledger'[i]) \in Admissions
    BY <2>2 DEF Event, Admission, Admissions
  <2> QED
    BY <2>1, <2>3, <1>1 DEF Admission
<1>4. Record' = t
  <2> HIDE DEF Record
  <2>0. a \in Admissions
    BY DEF Admissions
  <2>1. a \in Admissions /\ t \in Seq(Admissions) /\ Len(t) = Len(ledger) + 1
    BY <1>2, <2>0
  <2>2. ASSUME NEW i \in 1..Len(t) PROVE Record'[i] = t[i]
    <3>1. Record'[i] \in Admissions /\ t[i] \in Admissions /\ i \in 1..Len(ledger')
      BY <1>1, <1>3, <2>1
    <3>2. CASE i = Len(ledger) + 1
      <4>1. t[i] = a /\ Record'[i].proposal = n /\ Record'[i].key = k
        BY <1>1, <1>2, <1>3, <2>1, <3>1, <3>2
      <4> QED
        BY <3>1, <4>1 DEF Admissions
    <3>3. CASE i # Len(ledger) + 1
      <4>1. i \in 1..Len(ledger) /\ t[i] = Record[i]
        BY <1>1, <1>2, <2>1, <3>1, <3>3
      <4>2. Record'[i].proposal = t[i].proposal /\ Record'[i].key = t[i].key
        BY <1>1, <1>2, <1>3, <3>1, <4>1
      <4> QED
        BY <3>1, <4>2 DEF Admissions
    <3> QED
      BY <3>2, <3>3
  <2> HIDE DEF t
  <2> QED
    BY <1>3, <2>1, <2>2, SeqEqual
<1>5. \A i \in 1..Len(Record) : Record[i].key # k
  <2> HIDE DEF Record
  <2> QED
    BY <1>2
<1>6. Base[n] = Len(Record) /\ Base' = Base
  BY <1>2 DEF Base
<1>7. Promise!Enter(n, k)
  BY <1>4, <1>5, <1>6 DEF Promise!Enter, Record, Base, Admission
<1> QED
  BY <1>7 DEF Promised, Promise!RegisterNext

LEMMA EventFileSeen ==
    ASSUME LedgerInv, NEW p \in Proc, EventFile(p), answer' = None
    PROVE  Promised
<1> DEFINE d == call[p]
           e == [seq |-> d.head[1] + 1, prev |-> d.head, proposal |-> d.prop, key |-> d.key]
<1>1. At(p, "event") /\ ledger' = Append(ledger, e) /\ UNCHANGED proposals
  BY DEF EventFile
<1>2. /\ e \in Event /\ d.prop \in 1..Len(proposals) /\ proposals[d.prop][1] = Len(ledger)
      /\ \A i \in 1..Len(ledger) : ledger[i].key # d.key
  BY <1>1, NextEvent
<1>3. d.prop \in Proposals /\ d.key \in Keys
  BY <1>2 DEF Event
<1>4. ledger \in Seq(Event) /\ d.prop <= Len(proposals)
  BY <1>2 DEF LedgerInv, LedgerTypeOK
<1> QED
  BY <1>1, <1>2, <1>3, <1>4, EnterSeen

LEMMA ProposalFileSeen ==
    ASSUME LedgerInv, NEW p \in Proc, ProposalFile(p), answer' = None
    PROVE  Promised
<1> DEFINE h == call[p].head
<1>1. proposals' = Append(proposals, h) /\ ledger' = ledger /\ Len(proposals) < MaxProposals /\ call[p].pc = "file"
  BY DEF ProposalFile, At
<1>2. h \in Hashes /\ h[1] \in 0..Len(ledger)
  BY <1>1 DEF LedgerInv, LedgerTypeOK, Call, CallInv, Armed, OnChain
<1>3. /\ proposals \in Seq(Hashes) /\ ledger \in Seq(Event) /\ Len(proposals) \in Nat
      /\ Len(proposals) + 1 \in Proposals
  BY <1>1, LedgerAssumption DEF LedgerInv, LedgerTypeOK, Proposals
<1>0. PICK n \in Proposals : n = Len(proposals) + 1
  BY <1>3
<1>4. /\ Len(proposals') = n /\ proposals'[n] = h
      /\ \A m \in 1..Len(proposals) : proposals'[m] = proposals[m]
  BY <1>0, <1>1, <1>2, <1>3
<1>5. Base[n] = None /\ Base' = [Base EXCEPT ![n] = h[1]]
  <2>1. Base[n] = None
    BY <1>0, <1>3 DEF Base
  <2>2. ASSUME NEW m \in Proposals
        PROVE  (IF m <= Len(proposals') THEN proposals'[m][1] ELSE None) = IF m = n THEN h[1] ELSE Base[m]
    <3>1. m \in Nat /\ m >= 1
      BY LedgerAssumption DEF Proposals
    <3> QED
      BY <3>1, <1>0, <1>3, <1>4 DEF Base
  <2>3. Base' = [m \in Proposals |-> IF m <= Len(proposals') THEN proposals'[m][1] ELSE None]
    BY DEF Base
  <2> QED
    BY <2>1, <2>2, <2>3 DEF Base
<1>6. Record' = Record /\ Len(Record) = Len(ledger)
  BY <1>1, <1>3, RecordTyped DEF Record, Admission
<1>7. Promise!Propose(n)
  <2>1. \E b \in 0..Len(Record) : Base' = [Base EXCEPT ![n] = b]
    BY <1>2, <1>5, <1>6
  <2> QED
    BY <2>1, <1>5, <1>6 DEF Promise!Propose, Base, Record, Admission
<1> QED
  BY <1>7 DEF Promised, Promise!RegisterNext

LEMMA AnswerSeen ==
    ASSUME LedgerInv, NEW p \in Proc, Answers(p)
    PROVE  Promised
<1>1. ledger \in Seq(Event) /\ UNCHANGED <<proposals, ledger>>
  BY DEF Answers, AlreadyAdmitted, Replay, KeyConflict, Stale, WriteReview, FoldAdmitted, files, LedgerInv, LedgerTypeOK
<1>2. CASE AlreadyAdmitted(p)
  <2>1. PICK i \in 1..Len(ledger) :
            ledger[i].proposal = call[p].prop /\ Admitted(call[p].prop, ledger[i].key, i)
    BY <1>2 DEF AlreadyAdmitted
  <2> QED
    BY <2>1, <1>1, ConfirmSeen
<1>3. CASE Replay(p)
  <2> DEFINE i == Recorded(call[p].key)
  <2>1. i \in 1..Len(ledger) /\ ledger[i].key = call[p].key /\ ledger[i].proposal = call[p].prop
    BY <1>3, GateArmed, RecordedKey DEF Replay
  <2>2. Admitted(call[p].prop, call[p].key, i)
    BY <1>3 DEF Replay
  <2> QED
    BY <2>1, <2>2, <1>1, ConfirmSeen
<1>4. CASE FoldAdmitted(p)
  <2> DEFINE i == call[p].at
  <2>1. i \in 1..Len(ledger) /\ ledger[i].key = call[p].key /\ ledger[i].proposal = call[p].prop
    BY <1>4 DEF FoldAdmitted, At, LedgerInv, CallInv, Entered
  <2>2. Admitted(call[p].prop, call[p].key, i)
    BY <1>4 DEF FoldAdmitted
  <2> QED
    BY <2>1, <2>2, <1>1, ConfirmSeen
<1>5. CASE KeyConflict(p)
  <2>1. At(p, "gate") /\ Refused(p)
    BY <1>5 DEF KeyConflict
  <2>2. call[p].prop \in Proposals /\ call[p].key \in Keys
    BY <2>1, GateArmed
  <2>3. Lost(call[p].prop, call[p].key)
    BY <1>5, <2>2, RecordedKey DEF KeyConflict, Lost, LedgerInv, FilesInv, KeysOnce
  <2> QED
    BY <2>1, <2>2, <2>3, <1>1, RefuseSeen
<1>6. CASE Stale(p)
  <2>1. WriteReview(p) /\ Refused(p) /\ call[p].op = "admit" /\ ~call[p].fit
    BY <1>6 DEF Stale
  <2>2. /\ CallInv(p) /\ call[p].pc = "write"
        /\ call[p].prop \in 1..Len(proposals) /\ call[p].prop \in Proposals
    BY <2>1, Written
  <2>3. Unused(call[p].key) /\ ~OnHead(call[p].prop) /\ call[p].key \in Keys
    BY <2>1, <2>2 DEF CallInv, Admissible, Armed
  <2>4. OnChain(proposals[call[p].prop]) /\ Len(ledger) \in Nat
    BY <2>2 DEF LedgerInv, LedgerTypeOK, FilesInv, AllOnChain
  <2>5. proposals[call[p].prop][1] < Len(ledger)
    BY <2>3, <2>4 DEF OnHead, HeadOf, OnChain
  <2>6. Lost(call[p].prop, call[p].key)
    BY <2>2, <2>3, <2>5 DEF Lost, Unused
  <2> QED
    BY <2>1, <2>2, <2>3, <2>6, <1>1, RefuseSeen
<1> QED
  BY <1>2, <1>3, <1>4, <1>5, <1>6 DEF Answers

\* Every step keeps the promises.
LEMMA StepSeen == LedgerInv /\ [LedgerNext]_ledgerVars => Promised
<1> SUFFICES ASSUME LedgerInv, [LedgerNext]_ledgerVars PROVE Promised
  OBVIOUS
<1>1. CASE UNCHANGED ledgerVars
  BY <1>1 DEF ledgerVars, files, Promised, Promise!registerVars, Admission
<1>2. ASSUME NEW p \in Proc, Calls(p), answer' = None PROVE Promised
  <2>1. UNCHANGED files
    BY <1>2 DEF Calls, Contribute, Review, Admit, Read, Frontier, Begin
  <2> QED
    BY <1>2, <2>1, NotSeen DEF files
<1>3. ASSUME NEW p \in Proc, Proceeds(p), answer' = None PROVE Promised
  <2>1. CASE \/ SubmitHead(p) \/ SubmitAgain(p) \/ SubmitConflict(p) \/ SubmitNew(p)
             \/ ProposalName(p) \/ ProposalNameTaken(p) \/ NotYetAdmitted(p)
    BY <2>1, <1>3, NotSeen
    DEF SubmitHead, SubmitAgain, SubmitConflict, SubmitNew, ProposalName, ProposalNameTaken, NotYetAdmitted, files
  <2>2. CASE Judge(p) \/ OpenReview(p) \/ Reviewed(p) \/ ReviewPassed(p) \/ ReviewStale(p) \/ HeadConflict(p) \/ Pass(p)
    <3>1. UNCHANGED <<proposals, ledger>>
      BY <2>2 DEF Judge, OpenReview, Reviewed, ReviewPassed, ReviewStale, HeadConflict, Pass, WriteReview, files
    <3> QED
      BY <3>1, <1>3, NotSeen
  <2>3. CASE \/ TakeLedger(p) \/ LastEvent(p) \/ EventMarker(p) \/ TakeProjection(p)
             \/ FoldToRead(p) \/ ReadPage(p) \/ ReadHead(p)
    BY <2>3, <1>3, NotSeen
    DEF TakeLedger, LastEvent, EventMarker, TakeProjection, FoldToRead, ReadPage, ReadHead, files
  <2>4. CASE ProposalFile(p)
    BY <2>4, <1>3, ProposalFileSeen
  <2>5. CASE EventFile(p)
    BY <2>5, <1>3, EventFileSeen
  <2> QED
    BY <1>3, <2>1, <2>2, <2>3, <2>4, <2>5 DEF Proceeds
<1>4. ASSUME NEW p \in Proc, Abandon(p), answer' = None PROVE Promised
  BY <1>4, NotSeen DEF Abandon, files
<1> QED
  BY <1>1, <1>2, <1>3, <1>4, AnswerSeen DEF LedgerNext

\* Whatever ends half way: a proposal is admitted on the ledger it was made on
\* and a key names one admission; an answer of proposal_admit tells of an event
\* that is there, where it is, or it refuses with admission_idempotency_conflict
\* or proposal_not_admissible what can no longer be admitted.
THEOREM KeepsItsPromise == LedgerSpec => ImplementsRegister
<1>1. LedgerInit => Promise!RegisterInit
  <2> SUFFICES ASSUME LedgerInit PROVE Promise!RegisterInit
    OBVIOUS
  <2>1. Len(ledger) = 0 /\ Len(proposals) = 0 /\ answer = None
    BY DEF LedgerInit
  <2>2. Record = <<>>
    BY <2>1 DEF Record
  <2>3. Base = [n \in Proposals |-> None]
    BY <2>1, LedgerAssumption DEF Base, Proposals
  <2> QED
    BY <2>1, <2>2, <2>3 DEF Promise!RegisterInit, Record, Base
<1>2. LedgerInv /\ [LedgerNext]_ledgerVars => [Promise!RegisterNext]_(Promise!registerVars)
  BY StepSeen DEF Promised
<1> QED
  BY <1>1, <1>2, LedgerInvariant, PTL DEF LedgerSpec, ImplementsRegister, Promise!Register

\* The ledger in a step: as it was, with one proposal more, or with one event
\* more, of a proposal made on the ledger as it was and under an unused key.
LEMMA StepOfTheLedger ==
    ASSUME LedgerInv, [LedgerNext]_ledgerVars
    PROVE  \/ UNCHANGED <<proposals, ledger>>
           \/ UNCHANGED ledger /\ \E h \in Hashes : proposals' = Append(proposals, h)
           \/ /\ UNCHANGED proposals
              /\ \E e \in Event :
                     /\ ledger' = Append(ledger, e)
                     /\ e.proposal \in 1..Len(proposals) /\ proposals[e.proposal][1] = Len(ledger)
                     /\ \A i \in 1..Len(ledger) : ledger[i].key # e.key
<1>1. CASE UNCHANGED ledgerVars
  BY <1>1 DEF ledgerVars, files
<1>2. ASSUME NEW p \in Proc, Calls(p) \/ Abandon(p) \/ Answers(p) PROVE UNCHANGED <<proposals, ledger>>
  BY <1>2
  DEF Calls, Contribute, Review, Admit, Read, Frontier, Begin, Abandon, Answers, AlreadyAdmitted, Replay,
      KeyConflict, Stale, FoldAdmitted, WriteReview, files
<1>3. ASSUME NEW p \in Proc, Proceeds(p), ~ProposalFile(p), ~EventFile(p) PROVE UNCHANGED <<proposals, ledger>>
  BY <1>3
  DEF Proceeds, SubmitHead, SubmitAgain, SubmitConflict, SubmitNew, ProposalName, ProposalNameTaken, NotYetAdmitted,
      Judge, OpenReview, Reviewed, ReviewPassed, ReviewStale, HeadConflict, Pass, WriteReview,
      TakeLedger, LastEvent, EventMarker, TakeProjection, FoldToRead, ReadPage, ReadHead, files
<1>4. ASSUME NEW p \in Proc, ProposalFile(p)
      PROVE  UNCHANGED ledger /\ \E h \in Hashes : proposals' = Append(proposals, h)
  <2>1. call[p].head \in Hashes
    BY DEF LedgerInv, LedgerTypeOK, Call
  <2> QED
    BY <2>1, <1>4 DEF ProposalFile
<1>5. ASSUME NEW p \in Proc, EventFile(p)
      PROVE  /\ UNCHANGED proposals
             /\ \E e \in Event :
                    /\ ledger' = Append(ledger, e)
                    /\ e.proposal \in 1..Len(proposals) /\ proposals[e.proposal][1] = Len(ledger)
                    /\ \A i \in 1..Len(ledger) : ledger[i].key # e.key
  <2> DEFINE d == call[p]
             e == [seq |-> d.head[1] + 1, prev |-> d.head, proposal |-> d.prop, key |-> d.key]
  <2>1. At(p, "event") /\ ledger' = Append(ledger, e) /\ UNCHANGED proposals
    BY <1>5 DEF EventFile
  <2>2. /\ e \in Event /\ d.prop \in 1..Len(proposals) /\ proposals[d.prop][1] = Len(ledger)
        /\ \A i \in 1..Len(ledger) : ledger[i].key # d.key
    BY <2>1, NextEvent
  <2>3. e.proposal = d.prop /\ e.key = d.key
    OBVIOUS
  <2> HIDE DEF e
  <2> QED
    BY <2>1, <2>2, <2>3
<1> QED
  BY <1>1, <1>2, <1>3, <1>4, <1>5 DEF LedgerNext

\* A refusal of proposal_admit stands: a proposal whose head has passed, or a
\* key that names another admission, is never admitted by a later retry.
THEOREM RefusalsStand == LedgerSpec => Promise!RefusalsStand
<1>1. ASSUME LedgerInv, LedgerInv', [LedgerNext]_ledgerVars, NEW n \in Proposals, NEW k \in Keys,
             Promise!Hopeless(n, k)
      PROVE  Promise!Hopeless(n, k)'
  <2>1. Lost(n, k) /\ ledger \in Seq(Event) /\ proposals \in Seq(Hashes) /\ n \in Nat /\ n >= 1
    BY <1>1, LostHopeless, LedgerAssumption DEF LedgerInv, LedgerTypeOK, LostIsHopeless, Proposals
  <2>2. n <= Len(proposals) => proposals[n][1] \in Nat
    BY <2>1 DEF Hashes
  <2>3. Lost(n, k)'
    <3>1. CASE UNCHANGED <<proposals, ledger>>
      BY <2>1, <3>1 DEF Lost
    <3>2. ASSUME UNCHANGED ledger, NEW h \in Hashes, proposals' = Append(proposals, h) PROVE Lost(n, k)'
      <4>1. n <= Len(proposals) => n <= Len(proposals') /\ proposals'[n] = proposals[n]
        BY <2>1, <3>2
      <4> QED
        BY <2>1, <3>2, <4>1 DEF Lost
    <3>3. ASSUME UNCHANGED proposals, NEW e \in Event, ledger' = Append(ledger, e),
                 proposals[e.proposal][1] = Len(ledger), \A i \in 1..Len(ledger) : ledger[i].key # e.key
          PROVE  Lost(n, k)'
      <4>1. /\ Len(ledger) \in Nat /\ Len(ledger') = Len(ledger) + 1 /\ ledger'[Len(ledger) + 1] = e
            /\ \A i \in 1..Len(ledger) : ledger'[i] = ledger[i]
        BY <2>1, <3>3
      <4>2. e.proposal # n \/ e.key # k
        BY <2>1, <2>2, <3>3, <4>1 DEF Lost
      <4> QED
        BY <2>1, <2>2, <3>3, <4>1, <4>2 DEF Lost
    <3> QED
      BY <1>1, <3>1, <3>2, <3>3, StepOfTheLedger
  <2>4. LedgerTypeOK'
    BY <1>1 DEF LedgerInv
  <2>5. (LedgerTypeOK => LostIsHopeless)'
    BY LostHopeless, PTL
  <2> QED
    BY <2>3, <2>4, <2>5 DEF LostIsHopeless
<1>2. LedgerInv /\ LedgerInv' /\ [LedgerNext]_ledgerVars
          => [\A n \in Proposals, k \in Keys : Promise!Hopeless(n, k) => Promise!Hopeless(n, k)']_(Promise!registerVars)
  BY <1>1
<1> QED
  BY <1>2, LedgerInvariant, PTL DEF LedgerSpec, Promise!RefusalsStand

=============================================================================
