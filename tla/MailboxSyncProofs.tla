-------------------------- MODULE MailboxSyncProofs --------------------------
(***************************************************************************)
(* The safety of MailboxSync for any number of messages, folders, keys and *)
(* processes.  What a cursor has passed is a matter of the feed alone, and *)
(* the feed only grows, so a cursor that covers its messages covers them   *)
(* for ever.  A batch fills what lies between two cursors: if its prior    *)
(* cursor is covered and its records have their markers, so is its next    *)
(* one.  Markers stand behind facts, and what is announced behind markers. *)
(***************************************************************************)
EXTENDS MailboxSync, TLAPS

\* Passed and RecordOf, of any feed.
PassedIn(s, c) ==
    {i \in DOMAIN s :
        /\ s[i].version # Removed
        /\ i < c[s[i].folder]
        /\ \A j \in DOMAIN s : i < j /\ j < c[s[i].folder] =>
              ~(s[i].folder = s[j].folder /\ s[i].message = s[j].message)}

RecordIn(s, i) == <<s[i].message, s[i].version>>

\* No cursor is ahead of the feed.
Reached(s, c) == \A f \in Folder : c[f] <= Len(s) + 1

\* What c has passed has its record in F and its message in A.
Covers(s, c, F, A) ==
    \A i \in PassedIn(s, c) : RecordIn(s, i) \in F /\ s[i].message \in A

\* R holds what n has passed and b has not, and nothing that n has not passed.
Fills(s, b, n, R) ==
    /\ \A i \in PassedIn(s, n) : i \in PassedIn(s, b) \/ RecordIn(s, i) \in R
    /\ \A r \in R : r[2] # Removed => \E i \in PassedIn(s, n) : r = RecordIn(s, i)

-----------------------------------------------------------------------------
(***************************************************************************)
(* The invariant                                                           *)
(***************************************************************************)
Told == {m \in Message : Accounted(m)}

Settled(k) == gen[k].status \in {"staged", "completed", "failed"}

CursorOK == Reached(feed, cursor) /\ Covers(feed, cursor, markers, Told)

BatchOK(k) ==
    /\ Reached(feed, artifact[k].prior) /\ Reached(feed, artifact[k].next)
    /\ Covers(feed, artifact[k].prior, markers, Told)
    /\ Fills(feed, artifact[k].prior, artifact[k].next, artifact[k].records)

WalkOK(p) ==
    /\ Reached(feed, call[p].base) /\ Reached(feed, call[p].at)
    /\ Covers(feed, call[p].base, markers, Told)
    /\ At(p, "fetching") => Fills(feed, call[p].base, call[p].at, call[p].got)

\* A generation that is staged has its batch for good, and when it is completed its
\* messages are announced.
GenOK(k) ==
    /\ Settled(k) => Written(k)
    /\ gen[k].status = "completed" => Messages(k) \subseteq Observed

Applying == {"ingesting", "looking", "projecting", "marking", "logging"}

Working == Applying \cup {"advancing", "removing", "writing", "checking", "failing",
                          "confirming", "finalizing"}

Entering == {"reading", "inspecting", "locking", "breaking", "open"}

\* What a call has done so far, by the place it is at.
CallOK(p) ==
    /\ call[p].pc \in Entering => call[p].at = NoCursor /\ call[p].got = {}
    /\ call[p].pc \in {"locking", "breaking", "open"} /\ call[p].seen = "staged" =>
          Settled(call[p].key)
    /\ At(p, "reconciling") =>
          Settled(call[p].key) /\ call[p].base = artifact[call[p].key].next
    /\ At(p, "staging") => Written(call[p].key)
    /\ call[p].pc \in Working => Settled(call[p].key)
    /\ call[p].pc \in Applying =>
          artifact[call[p].key].records \ call[p].todo \subseteq markers
    /\ call[p].pc \in {"looking", "projecting", "marking", "logging"} =>
          call[p].got \subseteq Known
    /\ call[p].pc \in {"advancing", "removing", "writing"} =>
          artifact[call[p].key].records \subseteq markers
    /\ At(p, "finalizing") => Upserts(call[p].key) \subseteq markers

SyncInv ==
    /\ TypeOK
    /\ CursorOK
    /\ \A k \in Key : BatchOK(k) /\ GenOK(k)
    /\ \A p \in Process : WalkOK(p) /\ CallOK(p)
    /\ FactsBehindProjection
    /\ AnnouncedIsApplied

-----------------------------------------------------------------------------
(***************************************************************************)
(* Cursors and batches                                                     *)
(***************************************************************************)
\* The operators above say the same as those of the specification.
LEMMA PassedIs == ASSUME NEW c PROVE Passed(c) = PassedIn(feed, c)
  BY DEF Passed, Latest, Same, PassedIn

\* A cursor of nothing has passed nothing.
LEMMA NothingPassed ==
  ASSUME NEW s \in Seq(Change) PROVE PassedIn(s, NoCursor) = {}
<1>0. /\ DOMAIN s = 1..Len(s) /\ Len(s) \in Nat
      /\ \A i \in DOMAIN s : s[i] \in Change
  OBVIOUS
<1>1. ASSUME NEW i \in DOMAIN s PROVE s[i].folder \in Folder /\ i \in Nat /\ i > 0
  BY <1>0 DEF Change
<1>2. ASSUME NEW i \in DOMAIN s PROVE ~(i < NoCursor[s[i].folder])
  BY <1>1 DEF NoCursor
<1>. QED BY <1>2 DEF PassedIn

\* A feed that grows leaves what a cursor has passed as it was.
LEMMA PassedStays ==
  ASSUME NEW s \in Seq(Change), NEW x \in Change, NEW c \in Cursor, Reached(s, c)
  PROVE  /\ PassedIn(Append(s, x), c) = PassedIn(s, c)
         /\ Reached(Append(s, x), c)
         /\ \A i \in PassedIn(s, c) :
               /\ RecordIn(Append(s, x), i) = RecordIn(s, i)
               /\ Append(s, x)[i] = s[i]
<1> DEFINE t == Append(s, x)
<1>1. /\ Len(t) = Len(s) + 1 /\ DOMAIN s = 1..Len(s) /\ DOMAIN t = 1..(Len(s) + 1)
      /\ \A i \in DOMAIN s : t[i] = s[i]
      /\ \A i \in DOMAIN t : t[i] \in Change
      /\ Len(s) \in Nat
  OBVIOUS
<1>2. \A f \in Folder : c[f] \in Nat /\ c[f] <= Len(s) + 1
  BY DEF Reached, Cursor
<1>3. \A i \in DOMAIN t : t[i].folder \in Folder
  BY <1>1 DEF Change
<1>4. ASSUME NEW i \in DOMAIN t, i < c[t[i].folder] PROVE i \in DOMAIN s
  BY <1>1, <1>2, <1>3, <1>4
<1>5. ASSUME NEW i \in DOMAIN s PROVE i \in PassedIn(t, c) <=> i \in PassedIn(s, c)
  <2>1. t[i] = s[i] /\ s[i].folder \in Folder /\ i \in DOMAIN t
    BY <1>1, <1>3, <1>5
  <2>2. ASSUME NEW j \in DOMAIN t, j < c[s[i].folder] PROVE j \in DOMAIN s /\ t[j] = s[j]
    BY <1>1, <1>2, <2>1, <2>2
  <2>3. \A j \in DOMAIN s : j \in DOMAIN t /\ t[j] = s[j]
    BY <1>1
  <2>. QED BY <2>1, <2>2, <2>3 DEF PassedIn
<1>6. PassedIn(t, c) \subseteq DOMAIN s /\ PassedIn(s, c) \subseteq DOMAIN s
  BY <1>4 DEF PassedIn
<1>7. PassedIn(t, c) = PassedIn(s, c)
  BY <1>5, <1>6
<1>8. Reached(t, c)
  BY <1>1, <1>2 DEF Reached
<1>. QED BY <1>1, <1>6, <1>7, <1>8 DEF RecordIn

\* More facts and more accounts cover no less.
LEMMA CoversMore ==
  ASSUME NEW s, NEW c, NEW F, NEW A, NEW G, NEW B, F \subseteq G, A \subseteq B,
         Covers(s, c, F, A)
  PROVE  Covers(s, c, G, B)
  BY DEF Covers

\* A batch that is ingested and told of carries the cover from its prior cursor to
\* its next one.
LEMMA FillsCovers ==
  ASSUME NEW s \in Seq(Change), NEW b, NEW n, NEW R \in SUBSET Record, NEW F, NEW A,
         Covers(s, b, F, A), Fills(s, b, n, R), R \subseteq F,
         \A r \in R : r[2] # Removed => r[1] \in A
  PROVE  Covers(s, n, F, A)
<1> SUFFICES ASSUME NEW i \in PassedIn(s, n)
             PROVE  RecordIn(s, i) \in F /\ s[i].message \in A
  BY DEF Covers
<1>1. CASE i \in PassedIn(s, b)
  BY <1>1 DEF Covers
<1>2. CASE RecordIn(s, i) \in R
  <2>1. s[i].version # Removed
    BY DEF PassedIn
  <2>2. RecordIn(s, i)[2] # Removed /\ RecordIn(s, i)[1] = s[i].message
    BY <2>1 DEF RecordIn
  <2>. QED BY <1>2, <2>2
<1>. QED BY <1>1, <1>2 DEF Fills

\* A batch begins with nothing.
LEMMA FillsNothing ==
  ASSUME NEW s \in Seq(Change), NEW b PROVE Fills(s, b, NoCursor, {})
  BY NothingPassed DEF Fills

\* A feed has its positions, and a change there.
LEMMA FeedTyped ==
  ASSUME feed \in Seq(Change)
  PROVE  /\ DOMAIN feed = 1..Len(feed) /\ Len(feed) \in Nat
         /\ \A i \in DOMAIN feed :
               /\ i \in Nat /\ 0 < i /\ i <= Len(feed)
               /\ feed[i].folder \in Folder /\ feed[i].message \in Message
               /\ feed[i].version \in Nat
<1>1. /\ DOMAIN feed = 1..Len(feed) /\ Len(feed) \in Nat
      /\ \A i \in DOMAIN feed : feed[i] \in Change
  OBVIOUS
<1>. QED BY <1>1 DEF Change

\* What a source lists are records.
LEMMA DeltaTyped ==
  ASSUME feed \in Seq(Change), NEW f, NEW c PROVE Delta(f, c) \subseteq Record
  BY FeedTyped DEF Delta, Latest, RecordOf, Record

\* The walk of one more folder fills what that folder has had since the cursor.
LEMMA WalkFills ==
  ASSUME feed \in Seq(Change), NEW b \in Cursor, NEW a \in Cursor, NEW G,
         NEW f \in Folder, NEW c \in {b[f], 0}, a[f] = 0,
         Fills(feed, b, a, G)
  PROVE  Fills(feed, b, [a EXCEPT ![f] = Len(feed) + 1], G \cup Delta(f, c))
<1> DEFINE n == [a EXCEPT ![f] = Len(feed) + 1]
<1>1. /\ n[f] = Len(feed) + 1
      /\ \A g \in Folder : g # f => n[g] = a[g]
      /\ b[f] \in Nat
  BY DEF Cursor
<1>2. ASSUME NEW i \in DOMAIN feed, feed[i].folder # f
      PROVE  i \in PassedIn(feed, n) <=> i \in PassedIn(feed, a)
  BY <1>1, <1>2, FeedTyped DEF PassedIn
<1>3. ASSUME NEW i \in PassedIn(feed, n), feed[i].folder = f
      PROVE  i \in PassedIn(feed, b) \/ RecordIn(feed, i) \in Delta(f, c)
  <2>1. i \in DOMAIN feed /\ feed[i].version # Removed
    BY DEF PassedIn
  <2>2. \A j \in DOMAIN feed : i < j =>
            ~(feed[i].folder = feed[j].folder /\ feed[i].message = feed[j].message)
    BY <1>1, <1>3, FeedTyped DEF PassedIn
  <2>3. CASE i >= c
    <3>1. i \in Latest(f, Len(feed) + 1)
      BY <1>3, <2>1, <2>2, FeedTyped DEF Latest, Same
    <3>2. RecordOf(i) \in Delta(f, c)
      BY <2>1, <2>3, <3>1 DEF Delta
    <3>. QED BY <3>2 DEF RecordOf, RecordIn
  <2>4. CASE ~(i >= c)
    <3>1. i < b[f]
      BY <1>1, <2>1, <2>4, FeedTyped
    <3>. QED BY <1>3, <2>1, <2>2, <3>1 DEF PassedIn
  <2>. QED BY <2>3, <2>4
<1>4. ASSUME NEW i \in PassedIn(feed, n)
      PROVE  i \in PassedIn(feed, b) \/ RecordIn(feed, i) \in G \cup Delta(f, c)
  <2>1. i \in DOMAIN feed
    BY DEF PassedIn
  <2>2. CASE feed[i].folder = f
    BY <1>3, <2>2
  <2>3. CASE feed[i].folder # f
    BY <1>2, <2>1, <2>3 DEF Fills
  <2>. QED BY <2>2, <2>3
<1>5. ASSUME NEW r \in G, r[2] # Removed
      PROVE  \E i \in PassedIn(feed, n) : r = RecordIn(feed, i)
  <2>1. PICK i \in PassedIn(feed, a) : r = RecordIn(feed, i)
    BY <1>5 DEF Fills
  <2>2. i \in DOMAIN feed /\ i < a[feed[i].folder]
    BY DEF PassedIn
  <2>3. feed[i].folder # f
    BY <2>2, FeedTyped
  <2>. QED BY <1>2, <2>1, <2>2, <2>3
<1>6. ASSUME NEW r \in Delta(f, c), r[2] # Removed
      PROVE  \E i \in PassedIn(feed, n) : r = RecordIn(feed, i)
  <2>1. PICK i \in Latest(f, Len(feed) + 1) : r = RecordOf(i)
    BY DEF Delta
  <2>2. /\ i \in DOMAIN feed /\ feed[i].folder = f
        /\ \A j \in DOMAIN feed : i < j /\ j < Len(feed) + 1 => ~Same(i, j)
        /\ i < Len(feed) + 1
    BY DEF Latest
  <2>3. feed[i].version # Removed /\ r = RecordIn(feed, i)
    BY <1>6, <2>1 DEF RecordOf, RecordIn
  <2>4. i \in PassedIn(feed, n)
    BY <1>1, <2>2, <2>3 DEF PassedIn, Same
  <2>. QED BY <2>3, <2>4
<1>. QED BY <1>4, <1>5, <1>6 DEF Fills

-----------------------------------------------------------------------------
(***************************************************************************)
(* What a step leaves alone                                                *)
(***************************************************************************)
\* The mailbox changes behind everybody's back.
LEMMA MailboxKeeps ==
  ASSUME SyncInv, TypeOK', Mailbox PROVE SyncInv'
<1> USE DEF SyncInv
<1>1. PICK x \in Change : feed' = Append(feed, x)
  <2>1. Len(feed) + 1 \in Nat /\ Removed \in Nat
    BY FeedTyped DEF TypeOK, Removed
  <2>. QED BY <2>1 DEF Mailbox, Add, Change
<1>2. UNCHANGED <<files, database, lock, call, faults>>
  BY DEF Mailbox
<1>3. feed \in Seq(Change)
  BY DEF TypeOK
<1>4. UNCHANGED <<cursor, facts, markers, view, artifact, gen, announced, call>>
  BY <1>2 DEF files, database
<1>5. Told' = Told
  BY <1>4 DEF Told, Accounted, Observed, Messages, Upserts
<1>6. ASSUME NEW c \in Cursor, Reached(feed, c)
      PROVE  /\ Reached(feed', c)
             /\ PassedIn(feed', c) = PassedIn(feed, c)
             /\ \A i \in PassedIn(feed, c) :
                   RecordIn(feed', i) = RecordIn(feed, i) /\ feed'[i] = feed[i]
  BY <1>1, <1>3, <1>6, PassedStays
<1>7. ASSUME NEW c \in Cursor, Reached(feed, c), NEW F, NEW A, Covers(feed, c, F, A)
      PROVE  Covers(feed', c, F, A)
  BY <1>6, <1>7 DEF Covers
<1>8. ASSUME NEW b \in Cursor, NEW n \in Cursor, NEW R,
             Reached(feed, b), Reached(feed, n), Fills(feed, b, n, R)
      PROVE  Fills(feed', b, n, R)
  BY <1>6, <1>8 DEF Fills
<1>9. CursorOK'
  BY <1>4, <1>5, <1>6, <1>7 DEF CursorOK, TypeOK
<1>10. ASSUME NEW k \in Key PROVE BatchOK(k)'
  <2>1. artifact[k].prior \in Cursor /\ artifact[k].next \in Cursor
    BY DEF TypeOK, Batch
  <2>. QED BY <1>4, <1>5, <1>6, <1>7, <1>8, <2>1 DEF BatchOK
<1>11. ASSUME NEW k \in Key PROVE GenOK(k)'
  BY <1>4 DEF GenOK, Settled, Written, Observed, Messages, Upserts
<1>12. ASSUME NEW p \in Process PROVE WalkOK(p)' /\ CallOK(p)'
  <2>1. call[p].base \in Cursor /\ call[p].at \in Cursor
    BY DEF TypeOK, Calls
  <2>2. WalkOK(p)'
    BY <1>4, <1>5, <1>6, <1>7, <1>8, <2>1 DEF WalkOK, At
  <2>3. CallOK(p)'
    BY <1>4 DEF CallOK, At, Settled, Written, Known, Upserts
  <2>. QED BY <2>2, <2>3
<1>13. FactsBehindProjection'
  BY <1>4 DEF FactsBehindProjection, Known
<1>14. AnnouncedIsApplied'
  BY <1>4 DEF AnnouncedIsApplied
<1>. QED BY <1>9, <1>10, <1>11, <1>12, <1>13, <1>14

\* What a process must see to before it steps, for all the others to be well.
LEMMA StepKeeps ==
  ASSUME SyncInv, TypeOK', NEW p \in Process,
         feed' = feed, facts \subseteq facts', markers \subseteq markers',
         Told \subseteq Told',
         \A q \in Process \ {p} : call'[q] = call[q],
         \A k \in Key : Settled(k) => Settled(k)',
         \A k \in Key : Written(k) => artifact'[k] = artifact[k],
         \A k \in Key : GenOK(k)',
         \A k \in Key : artifact'[k] = artifact[k] \/ BatchOK(k)',
         cursor' = cursor \/ CursorOK',
         WalkOK(p)', CallOK(p)', FactsBehindProjection', AnnouncedIsApplied'
  PROVE  SyncInv'
<1> USE DEF SyncInv
<1>1. ASSUME NEW c, Covers(feed, c, markers, Told) PROVE Covers(feed', c, markers', Told')
  BY <1>1, CoversMore
<1>2. CursorOK'
  <2>1. CASE cursor' = cursor
    BY <1>1, <2>1 DEF CursorOK
  <2>. QED BY <2>1
<1>3. ASSUME NEW k \in Key PROVE BatchOK(k)'
  <2>1. CASE artifact'[k] = artifact[k]
    BY <1>1, <2>1 DEF BatchOK
  <2>. QED BY <2>1
<1>4. ASSUME NEW q \in Process, q # p PROVE WalkOK(q)' /\ CallOK(q)'
  <2>1. call'[q] = call[q]
    BY <1>4
  <2>2. WalkOK(q)'
    BY <1>1, <2>1 DEF WalkOK, At
  <2>3. call[q].pc # "idle" => call[q].key \in Key
    BY DEF TypeOK
  <2>4. call[q].pc \in Working => Settled(call[q].key) /\ call[q].key \in Key
    BY <2>3 DEF CallOK, Working, Applying
  <2>5. ASSUME NEW k \in Key, Settled(k) PROVE Settled(k)' /\ artifact'[k] = artifact[k]
    BY <2>5 DEF GenOK
  <2>6. call[q].pc \in Working =>
            /\ Settled(call[q].key)'
            /\ artifact'[call[q].key] = artifact[call[q].key]
    BY <2>1, <2>4, <2>5 DEF Settled
  <2>7. /\ Applying \subseteq Working
        /\ {"looking", "projecting", "marking", "logging"} \subseteq Applying
        /\ {"advancing", "removing", "writing"} \subseteq Working
    BY DEF Applying, Working
  <2>8. (call[q].pc \in {"locking", "breaking", "open"} /\ call[q].seen = "staged")
            => Settled(call[q].key)'
    BY <2>1, <2>3, <2>5 DEF CallOK, Settled
  <2>9. At(q, "reconciling") =>
            Settled(call[q].key)' /\ call[q].base = artifact'[call[q].key].next
    BY <2>1, <2>3, <2>5 DEF CallOK, At, Settled
  <2>10. At(q, "staging") => Written(call[q].key)'
    BY <2>1, <2>3 DEF CallOK, At, Written
  <2>11. Known \subseteq Known'
    BY DEF Known
  <2>12. At(q, "finalizing") => Upserts(call[q].key)' \subseteq markers'
    <3>1. At(q, "finalizing") => call[q].pc \in Working
      BY DEF At, Working
    <3>. QED BY <2>1, <2>6, <3>1 DEF CallOK, At, Upserts
  <2>13. CallOK(q)'
    BY <2>1, <2>6, <2>7, <2>8, <2>9, <2>10, <2>11, <2>12 DEF CallOK, At
  <2>. QED BY <2>2, <2>13
<1>. QED BY <1>2, <1>3, <1>4


-----------------------------------------------------------------------------
(***************************************************************************)
(* Types                                                                   *)
(***************************************************************************)
\* What the places of a call, a batch and a lease are made of.
LEMMA TypesInside ==
  ASSUME TypeOK
  PROVE  /\ NoCursor \in Cursor /\ NoBatch \in Batch /\ Idle \in Calls
         /\ NoLease \in [key : Key \cup {None}, token : Process \cup {None}, live : BOOLEAN]
         /\ \A k \in Key : artifact[k] \in Batch
         /\ \A p \in Process : call[p] \in Calls
  BY DEF TypeOK, NoCursor, Cursor, NoBatch, Batch, Idle, Calls, Statuses, NoLease

\* A call that ends keeps the types.
LEMMA AbandonTypes ==
  ASSUME TypeOK, NEW p \in Process, ~At(p, "idle"), Abandon(p), faults' \in Nat
  PROVE  TypeOK'
<1>1. call[p].key \in Key
  BY DEF TypeOK, At
<1>2. /\ UNCHANGED <<feed, cursor, facts, markers, view, artifact, announced>>
      /\ lock' \in Process \cup {None}
  BY DEF Abandon, Unlock, files, TypeOK
<1>3. call' = [call EXCEPT ![p] = Idle] /\ call' \in [Process -> Calls]
  BY TypesInside DEF Abandon, TypeOK
<1>4. \A q \in Process : call'[q].pc # "idle" => call'[q].key \in Key
  BY <1>3 DEF TypeOK, Idle
<1>5. gen' \in [Key -> [status : Statuses, token : Process \cup {None},
                        parent : Cursor, pending : SUBSET Record]]
  <2> DEFINE t == IF gen[call[p].key].token = p THEN None ELSE gen[call[p].key].token
  <2>1. gen[call[p].key] \in [status : Statuses, token : Process \cup {None},
                              parent : Cursor, pending : SUBSET Record]
    BY <1>1 DEF TypeOK
  <2>2. t \in Process \cup {None}
    BY <2>1
  <2>3. [gen[call[p].key] EXCEPT !.token = t]
            \in [status : Statuses, token : Process \cup {None},
                parent : Cursor, pending : SUBSET Record]
    BY <2>1, <2>2
  <2>4. gen' = [gen EXCEPT ![call[p].key] = [gen[call[p].key] EXCEPT !.token = t]]
    BY DEF Abandon, Release
  <2>. QED BY <1>1, <2>3, <2>4 DEF TypeOK
<1>6. /\ lease' \in [key : Key \cup {None}, token : Process \cup {None}, live : BOOLEAN]
      /\ lease'.live => lease'.token # None
  BY TypesInside DEF Abandon, Release, TypeOK, NoLease
<1>. QED BY <1>2, <1>3, <1>4, <1>5, <1>6 DEF TypeOK

\* A call that goes on keeps the types if its place and what it knows are right.
LEMMA CallTypes ==
  ASSUME TypeOK, NEW p \in Process, NEW c \in Calls, call' = [call EXCEPT ![p] = c],
         c.pc # "idle" => c.key \in Key
  PROVE  /\ call' \in [Process -> Calls]
         /\ \A q \in Process : call'[q].pc # "idle" => call'[q].key \in Key
  BY DEF TypeOK


Places == Inside \cup {"idle", "reading", "inspecting", "reconciling", "locking", "breaking",
                       "failing", "confirming", "finalizing"}

\* A call that only goes to another place keeps its type.
LEMMA GotoTypes ==
  ASSUME TypeOK, NEW p \in Process, ~At(p, "idle"), NEW place \in Places, Goto(p, place)
  PROVE  /\ call' \in [Process -> Calls]
         /\ \A q \in Process : call'[q].pc # "idle" => call'[q].key \in Key
<1> DEFINE c == [call[p] EXCEPT !.pc = place]
<1>1. call[p].key \in Key /\ call[p] \in Calls
  BY DEF TypeOK, At
<1>2. c \in Calls /\ c.key \in Key
  BY <1>1 DEF Calls, Places
<1>3. call' = [call EXCEPT ![p] = c]
  BY DEF Goto
<1> HIDE DEF c
<1>. QED BY <1>2, <1>3, CallTypes

Generation == [status : Statuses, token : Process \cup {None},
               parent : Cursor, pending : SUBSET Record]

\* A new row of a generation keeps the types.
LEMMA GenTypes ==
  ASSUME TypeOK, NEW k \in Key, NEW g \in Generation, gen' = [gen EXCEPT ![k] = g]
  PROVE  gen' \in [Key -> [status : Statuses, token : Process \cup {None},
                           parent : Cursor, pending : SUBSET Record]]
  BY DEF TypeOK, Generation

\* A renewed lease is the lease that was held.
LEMMA RenewedTypes ==
  ASSUME TypeOK, NEW p \in Process, Renewed(p)
  PROVE  /\ lease' \in [key : Key \cup {None}, token : Process \cup {None}, live : BOOLEAN]
         /\ lease'.live => lease'.token # None
  BY SyncAssumption DEF TypeOK, Renewed, Holds

\* A released lease is none, or the lease of somebody else.
LEMMA ReleaseTypes ==
  ASSUME TypeOK, NEW p \in Process, lease' = IF Holds(p) THEN NoLease ELSE lease
  PROVE  /\ lease' \in [key : Key \cup {None}, token : Process \cup {None}, live : BOOLEAN]
         /\ lease'.live => lease'.token # None
  BY DEF TypeOK, NoLease


-----------------------------------------------------------------------------
(***************************************************************************)
(* Quiet steps: those that write no file and no row that matters           *)
(***************************************************************************)
Quiet(p) ==
    /\ UNCHANGED <<feed, cursor, facts, markers, view, artifact, announced>>
    /\ \A q \in Process \ {p} : call'[q] = call[q]
    /\ \A k \in Key :
          /\ gen'[k].pending = gen[k].pending
          /\ \/ gen'[k].status = gen[k].status
             \/ gen[k].status = "none" /\ gen'[k].status = "accepted"

\* A quiet step has only its own call to answer for.
LEMMA QuietKeeps ==
  ASSUME SyncInv, TypeOK', NEW p \in Process, Quiet(p), WalkOK(p)', CallOK(p)'
  PROVE  SyncInv'
<1>1. /\ UNCHANGED <<feed, cursor, facts, markers, view, artifact, announced>>
      /\ \A q \in Process \ {p} : call'[q] = call[q]
      /\ \A k \in Key :
            /\ gen'[k].pending = gen[k].pending
            /\ \A status \in {"staged", "completed", "failed"} :
                  gen'[k].status = status <=> gen[k].status = status
  BY DEF Quiet
<1>2. Told' = Told
  BY <1>1 DEF Told, Accounted, Observed, Messages, Upserts
<1>3. ASSUME NEW k \in Key PROVE (Settled(k) => Settled(k)') /\ GenOK(k)'
  BY <1>1 DEF SyncInv, GenOK, Settled, Written, Observed, Messages, Upserts
<1>4. FactsBehindProjection' /\ AnnouncedIsApplied'
  BY <1>1 DEF SyncInv, FactsBehindProjection, AnnouncedIsApplied, Known
<1>. QED BY <1>1, <1>2, <1>3, <1>4, StepKeeps

\* An idle call, or one that begins, knows nothing that could be wrong.
LEMMA BeginWell ==
  ASSUME TypeOK', NEW p \in Process, call'[p].pc \in {"idle", "reading"},
         call'[p].base = NoCursor, call'[p].at = NoCursor, call'[p].got = {}
  PROVE  WalkOK(p)' /\ CallOK(p)'
<1>1. feed' \in Seq(Change)
  BY DEF TypeOK
<1>2. Reached(feed', NoCursor)
  <2>1. Len(feed') \in Nat
    BY <1>1
  <2>. QED BY <2>1 DEF Reached, NoCursor
<1>3. Covers(feed', NoCursor, markers', Told')
  BY <1>1, NothingPassed DEF Covers
<1>4. WalkOK(p)'
  BY <1>2, <1>3 DEF WalkOK, At
<1>5. CallOK(p)'
  BY DEF CallOK, At, Working, Applying
<1>. QED BY <1>4, <1>5

\* A call that keeps its cursor and is not fetching walks well.
LEMMA WalkStays ==
  ASSUME SyncInv, TypeOK', NEW p \in Process,
         feed' = feed, markers \subseteq markers', Told \subseteq Told',
         call'[p].base = call[p].base, call'[p].pc # "fetching",
         call'[p].at \in {call[p].at, NoCursor}
  PROVE  WalkOK(p)'
<1>1. Covers(feed', call'[p].base, markers', Told')
  BY CoversMore DEF SyncInv, WalkOK
<1>2. Reached(feed', NoCursor)
  <2>1. Len(feed) \in Nat
    BY FeedTyped DEF SyncInv, TypeOK
  <2>. QED BY <2>1 DEF Reached, NoCursor
<1>. QED BY <1>1, <1>2 DEF WalkOK, At, SyncInv

\* A call that returns an error leaves everything well.
LEMMA AbandonKeeps ==
  ASSUME SyncInv, NEW p \in Process, ~At(p, "idle"), Abandon(p), faults' \in Nat
  PROVE  SyncInv'
<1>1. TypeOK'
  BY AbandonTypes DEF SyncInv
<1>2. Quiet(p)
  BY DEF Abandon, Release, Quiet, files, SyncInv, TypeOK
<1>3. call'[p] = Idle
  BY DEF Abandon, SyncInv, TypeOK
<1>4. WalkOK(p)' /\ CallOK(p)'
  BY <1>1, <1>3, BeginWell DEF Idle
<1>. QED BY <1>1, <1>2, <1>4, QuietKeeps

\* So does one that only goes to another place, if that place is right.
LEMMA GotoKeeps ==
  ASSUME SyncInv, NEW p \in Process, ~At(p, "idle"), NEW place \in Places, Goto(p, place),
         UNCHANGED <<feed, files, gen, announced>>, place # "fetching",
         /\ lease' \in [key : Key \cup {None}, token : Process \cup {None}, live : BOOLEAN]
         /\ lease'.live => lease'.token # None,
         lock' \in Process \cup {None}, faults' \in Nat, CallOK(p)'
  PROVE  SyncInv'
<1>1. UNCHANGED <<feed, cursor, facts, markers, view, artifact, gen, announced>>
  BY DEF files
<1>2. TypeOK'
  BY <1>1, GotoTypes DEF SyncInv, TypeOK
<1>3. Quiet(p)
  BY <1>1 DEF Quiet, Goto, SyncInv, TypeOK
<1>4. Told' = Told
  BY <1>1 DEF Told, Accounted, Observed, Messages, Upserts
<1>5. /\ call'[p].base = call[p].base /\ call'[p].at = call[p].at
      /\ call'[p].pc = place
  BY DEF Goto, SyncInv, TypeOK, Calls
<1>6. WalkOK(p)'
  BY <1>1, <1>2, <1>4, <1>5, WalkStays
<1>. QED BY <1>2, <1>3, <1>6, QuietKeeps


-----------------------------------------------------------------------------
(***************************************************************************)
(* The actions                                                             *)
(***************************************************************************)
\* A place that asks for no more than the place before it.
LEMMA PlaceWell ==
  ASSUME SyncInv, NEW p \in Process, NEW place, Goto(p, place),
         UNCHANGED <<gen, artifact>>, facts \subseteq facts', markers \subseteq markers',
         place \in Entering => call[p].pc \in Entering \ {"reading", "inspecting"},
         place = "reconciling" =>
             Settled(call[p].key) /\ call[p].base = artifact[call[p].key].next,
         place = "staging" => Written(call[p].key),
         place \in Working => Settled(call[p].key),
         place \in Applying =>
             call[p].pc \in Applying /\ (place # "ingesting" => call[p].pc # "ingesting"),
         place \in {"advancing", "removing", "writing"} =>
             call[p].pc \in {"advancing", "removing", "writing"},
         place = "finalizing" => Upserts(call[p].key) \subseteq markers
  PROVE  CallOK(p)'
<1>1. /\ call'[p].pc = place /\ call'[p].key = call[p].key /\ call'[p].base = call[p].base
      /\ call'[p].seen = call[p].seen /\ call'[p].at = call[p].at
      /\ call'[p].got = call[p].got /\ call'[p].todo = call[p].todo
  BY DEF Goto, SyncInv, TypeOK, Calls
<1>2. CallOK(p) /\ Known \subseteq Known' /\ Upserts(call[p].key)' = Upserts(call'[p].key)
  BY <1>1 DEF SyncInv, Known, Upserts
<1>. QED BY <1>1, <1>2
         DEF CallOK, At, Settled, Written, Upserts, Entering, Working, Applying

\* An error while the batch is processed drops the lock and goes on to Fail.
LEMMA QuitKeeps ==
  ASSUME SyncInv, NEW p \in Process, call[p].pc \in Working, Quit(p), faults' \in Nat
  PROVE  SyncInv'
<1>1. ~At(p, "idle") /\ "failing" \in Places
  BY DEF At, Working, Applying, Places
<1>2. Settled(call[p].key)
  BY DEF SyncInv, CallOK
<1>3. Goto(p, "failing") /\ UNCHANGED <<feed, files, gen, announced, lease>>
  BY DEF Quit, database
<1>4. CallOK(p)'
  BY <1>2, <1>3, PlaceWell DEF files, Entering, Working, Applying
<1>5. lock' \in Process \cup {None}
  BY DEF Quit
<1>. QED BY <1>1, <1>3, <1>4, <1>5, GotoKeeps DEF SyncInv, TypeOK

\* claim_generation: a new or lapsed lease, for a call that knows nothing yet.
LEMMA ClaimKeeps ==
  ASSUME SyncInv, NEW p \in Process, NEW k \in Key, Claim(p, k) PROVE SyncInv'
<1> DEFINE c == [Idle EXCEPT !.pc = "reading", !.key = k]
           g == [gen[k] EXCEPT !.status = IF @ = "none" THEN "accepted" ELSE @, !.token = p]
<1>1. c \in Calls /\ c.key \in Key
  BY TypesInside DEF SyncInv, Calls, Idle
<1>2. /\ call' \in [Process -> Calls]
      /\ \A q \in Process : call'[q].pc # "idle" => call'[q].key \in Key
  BY <1>1, CallTypes DEF SyncInv, Claim
<1>3. gen' = [gen EXCEPT ![k] = g]
  BY DEF Claim
<1>4. /\ g \in Generation /\ g.pending = gen[k].pending
      /\ \/ g.status = gen[k].status
         \/ gen[k].status = "none" /\ g.status = "accepted"
  <2>1. gen[k] \in Generation
    BY DEF SyncInv, TypeOK, Generation
  <2>. QED BY <2>1 DEF Generation, Statuses
<1> HIDE DEF g
<1>5. gen' \in [Key -> [status : Statuses, token : Process \cup {None},
                        parent : Cursor, pending : SUBSET Record]]
  BY <1>3, <1>4, GenTypes DEF SyncInv
<1>6. TypeOK'
  BY <1>2, <1>5, SyncAssumption DEF Claim, files, SyncInv, TypeOK
<1>7. Quiet(p)
  BY <1>3, <1>4 DEF Claim, Quiet, files, SyncInv, TypeOK
<1>8. /\ call'[p].pc = "reading" /\ call'[p].base = NoCursor
      /\ call'[p].at = NoCursor /\ call'[p].got = {}
  BY DEF Claim, SyncInv, TypeOK, Idle
<1>. QED BY <1>6, <1>7, <1>8, BeginWell, QuietKeeps

\* read_cursor: the call takes over what the cursor covers.
LEMMA ReadCursorKeeps ==
  ASSUME SyncInv, NEW p \in Process, ReadCursor(p) PROVE SyncInv'
<1> DEFINE c == [call[p] EXCEPT !.pc = "inspecting", !.base = cursor]
<1>1. call[p].key \in Key /\ call[p] \in Calls /\ cursor \in Cursor
  BY DEF ReadCursor, At, SyncInv, TypeOK
<1>2. c \in Calls /\ c.key \in Key /\ c.pc = "inspecting" /\ c.base = cursor
      /\ c.at = call[p].at /\ c.got = call[p].got
  BY <1>1 DEF Calls
<1>3. call' = [call EXCEPT ![p] = c]
  BY DEF ReadCursor
<1>4. call'[p] = c /\ \A q \in Process \ {p} : call'[q] = call[q]
  BY <1>3 DEF SyncInv, TypeOK
<1> HIDE DEF c
<1>5. UNCHANGED <<feed, cursor, facts, markers, view, artifact, gen, lease, announced,
                  lock, faults>>
  BY DEF ReadCursor, files, database
<1>6. TypeOK'
  BY <1>2, <1>3, <1>5, CallTypes DEF SyncInv, TypeOK
<1>7. Quiet(p)
  BY <1>4, <1>5 DEF Quiet
<1>8. Told' = Told
  BY <1>5 DEF Told, Accounted, Observed, Messages, Upserts
<1>9. WalkOK(p)'
  BY <1>2, <1>4, <1>5, <1>8 DEF WalkOK, CursorOK, SyncInv, At
<1>10. CallOK(p)'
  <2>1. c.at = NoCursor /\ c.got = {}
    BY <1>2 DEF ReadCursor, At, SyncInv, CallOK, Entering
  <2>. QED BY <1>2, <1>4, <2>1 DEF CallOK, At, Working, Applying
<1>. QED BY <1>6, <1>7, <1>9, <1>10, QuietKeeps


\* run_claimed_generation: a staged generation is told apart by the cursor it meets.
LEMMA InspectKeeps ==
  ASSUME SyncInv, NEW p \in Process, Inspect(p) PROVE SyncInv'
<1>1. ~At(p, "idle") /\ call[p].pc = "inspecting" /\ faults' \in Nat
  BY DEF Inspect, At, SyncInv, TypeOK
<1>2. call[p].key \in Key /\ call[p] \in Calls
  BY <1>1 DEF SyncInv, TypeOK
<1>3. CASE /\ Own(p).status = "staged" /\ call[p].base = Mine(p).next
           /\ Goto(p, "reconciling")
           /\ UNCHANGED <<feed, files, database, lock>>
  <2>1. CallOK(p)'
    BY <1>1, <1>3, PlaceWell
       DEF Own, Mine, Settled, files, database, Entering, Working, Applying
  <2>. QED BY <1>1, <1>3, <2>1, GotoKeeps DEF database, Places, SyncInv, TypeOK
<1>4. CASE Abandon(p)
  BY <1>1, <1>4, AbandonKeeps
<1>5. CASE /\ call' = [call EXCEPT ![p].pc = "locking", ![p].seen = Own(p).status]
           /\ UNCHANGED <<feed, files, database, lock>>
  <2> DEFINE c == [call[p] EXCEPT !.pc = "locking", !.seen = Own(p).status]
  <2>1. Own(p).status \in Statuses
    BY <1>2 DEF Own, SyncInv, TypeOK
  <2>2. /\ c \in Calls /\ c.key = call[p].key /\ c.pc = "locking" /\ c.base = call[p].base
        /\ c.at = call[p].at /\ c.got = call[p].got /\ c.seen = Own(p).status
    BY <1>2, <2>1 DEF Calls
  <2>3. call' = [call EXCEPT ![p] = c]
    BY <1>5
  <2>4. call'[p] = c /\ \A q \in Process \ {p} : call'[q] = call[q]
    BY <2>3 DEF SyncInv, TypeOK
  <2> HIDE DEF c
  <2>5. UNCHANGED <<feed, cursor, facts, markers, view, artifact, gen, lease, announced,
                    lock, faults>>
    BY <1>5 DEF Inspect, files, database
  <2>6. TypeOK'
    BY <1>2, <2>2, <2>3, <2>5, CallTypes DEF SyncInv, TypeOK
  <2>7. Quiet(p)
    BY <2>4, <2>5 DEF Quiet
  <2>8. Told' = Told
    BY <2>5 DEF Told, Accounted, Observed, Messages, Upserts
  <2>9. WalkOK(p)'
    BY <2>2, <2>4, <2>5, <2>6, <2>8, WalkStays
  <2>10. CallOK(p)'
    <3>1. c.at = NoCursor /\ c.got = {}
      BY <1>1, <2>2 DEF SyncInv, CallOK, Entering
    <3>. QED BY <2>2, <2>4, <2>5, <3>1 DEF CallOK, At, Working, Applying, Own, Settled
  <2>. QED BY <2>6, <2>7, <2>9, <2>10, QuietKeeps
<1>. QED BY <1>3, <1>4, <1>5 DEF Inspect

\* SyncLock::acquire: the lock moves, also out of the hands of its maker.
LEMMA LockKeeps ==
  ASSUME SyncInv, NEW p \in Process,
         Acquire(p) \/ AcquireTimeout(p) \/ SeeStale(p) \/ BreakLock(p)
  PROVE  SyncInv'
<1>1. ~At(p, "idle") /\ call[p].pc \in {"locking", "breaking"} /\ faults' \in Nat
  BY DEF Acquire, AcquireTimeout, SeeStale, BreakLock, At, SyncInv, TypeOK
<1>2. ASSUME NEW place \in {"open", "breaking", "locking"}, Goto(p, place),
             UNCHANGED <<feed, files, database>>, lock' \in Process \cup {None}
      PROVE  SyncInv'
  <2>1. CallOK(p)'
    BY <1>1, <1>2, PlaceWell DEF files, database, Entering, Working, Applying
  <2>. QED BY <1>1, <1>2, <2>1, GotoKeeps DEF database, Places, Inside, SyncInv, TypeOK
<1>3. CASE Acquire(p)
  BY <1>2, <1>3 DEF Acquire
<1>4. CASE AcquireTimeout(p)
  BY <1>1, <1>4, AbandonKeeps DEF AcquireTimeout
<1>5. CASE SeeStale(p)
  BY <1>2, <1>5 DEF SeeStale, SyncInv, TypeOK
<1>6. CASE BreakLock(p)
  BY <1>2, <1>6 DEF BreakLock
<1>. QED BY <1>3, <1>4, <1>5, <1>6

\* A batch is begun on a generation that has been staged.
LEMMA BeginKeeps ==
  ASSUME SyncInv, NEW p \in Process, Begin(p), call[p].key \in Key,
         Settled(call[p].key)', UNCHANGED <<feed, facts, markers, artifact>>,
         Told \subseteq Told'
  PROVE  /\ call' \in [Process -> Calls]
         /\ \A q \in Process : call'[q].pc # "idle" => call'[q].key \in Key
         /\ \A q \in Process \ {p} : call'[q] = call[q]
         /\ TypeOK' => WalkOK(p)' /\ CallOK(p)'
<1> DEFINE c == [call[p] EXCEPT !.pc = IF Mine(p).records = {}
                                       THEN "advancing" ELSE "ingesting",
                                !.at = NoCursor, !.got = {}, !.todo = Mine(p).records]
<1>1. call[p] \in Calls /\ Mine(p).records \in SUBSET Record
  BY DEF Mine, SyncInv, TypeOK, Batch
<1>2. /\ c \in Calls /\ c.key = call[p].key /\ c.base = call[p].base
      /\ c.at = NoCursor /\ c.got = {} /\ c.todo = Mine(p).records
      /\ \/ c.pc = "advancing" /\ Mine(p).records = {}
         \/ c.pc = "ingesting"
  BY <1>1, TypesInside DEF Calls, Inside, SyncInv
<1>3. call' = [call EXCEPT ![p] = c]
  BY DEF Begin
<1>4. call'[p] = c /\ \A q \in Process \ {p} : call'[q] = call[q]
  BY <1>3 DEF SyncInv, TypeOK
<1> HIDE DEF c
<1>5. /\ call' \in [Process -> Calls]
      /\ \A q \in Process : call'[q].pc # "idle" => call'[q].key \in Key
  BY <1>2, <1>3, CallTypes DEF SyncInv
<1>6. ASSUME TypeOK' PROVE WalkOK(p)'
  BY <1>2, <1>4, <1>6, WalkStays
<1>7. CallOK(p)'
  <2>1. gen'[call'[p].key].status \in {"staged", "completed", "failed"}
    BY DEF Settled
  <2>2. call'[p].key = call[p].key
    BY <1>2, <1>4
  <2>. QED BY <1>2, <1>4, <2>1, <2>2
           DEF CallOK, At, Entering, Working, Applying, Mine, Settled
<1>. QED BY <1>4, <1>5, <1>6, <1>7


\* run_claimed_generation: the batch is there, or was left there, or is to be fetched.
LEMMA OpenKeeps ==
  ASSUME SyncInv, NEW p \in Process, Open(p) PROVE SyncInv'
<1>1. ~At(p, "idle") /\ call[p].pc = "open" /\ call[p].key \in Key /\ call[p] \in Calls
  BY DEF Open, At, SyncInv, TypeOK
<1>2. UNCHANGED <<feed, cursor, facts, markers, view, artifact, gen, lease, announced,
                  lock, faults>>
  BY DEF Open, files, database
<1>3. Told' = Told
  BY <1>2 DEF Told, Accounted, Observed, Messages, Upserts
<1>4. CASE call[p].seen = "staged" /\ Begin(p)
  <2>1. Settled(call[p].key)
    BY <1>1, <1>4 DEF SyncInv, CallOK
  <2>2. call'[p].key = call[p].key
    BY <1>1, <1>4 DEF Begin, SyncInv, TypeOK, Calls
  <2>3. Settled(call[p].key)'
    BY <1>2, <2>1, <2>2 DEF Settled
  <2>4. /\ call' \in [Process -> Calls]
        /\ \A q \in Process : call'[q].pc # "idle" => call'[q].key \in Key
        /\ \A q \in Process \ {p} : call'[q] = call[q]
        /\ TypeOK' => WalkOK(p)' /\ CallOK(p)'
    BY <1>1, <1>2, <1>3, <1>4, <2>3, BeginKeeps
  <2>5. TypeOK'
    BY <1>2, <2>4 DEF SyncInv, TypeOK
  <2>6. Quiet(p)
    BY <1>2, <2>4 DEF Quiet
  <2>. QED BY <2>4, <2>5, <2>6, QuietKeeps
<1>5. CASE Written(call[p].key) /\ Goto(p, "staging")
  <2>1. CallOK(p)'
    BY <1>2, <1>5, PlaceWell DEF Entering, Working, Applying
  <2>. QED BY <1>1, <1>2, <1>5, <2>1, GotoKeeps DEF files, Places, Inside, SyncInv, TypeOK
<1>6. CASE Goto(p, "fetching")
  <2>1. TypeOK'
    BY <1>1, <1>2, <1>6, GotoTypes DEF Places, Inside, SyncInv, TypeOK
  <2>2. Quiet(p)
    BY <1>2, <1>6 DEF Quiet, Goto, SyncInv, TypeOK
  <2>3. CallOK(p)'
    BY <1>2, <1>6, PlaceWell DEF Entering, Working, Applying
  <2>4. /\ call'[p].base = call[p].base
        /\ call'[p].at = NoCursor /\ call'[p].got = {}
    BY <1>1, <1>6 DEF Goto, SyncInv, TypeOK, Calls, CallOK, Entering
  <2>5. feed \in Seq(Change) /\ Reached(feed, NoCursor)
    BY <1>1, <2>4 DEF SyncInv, TypeOK, WalkOK, CallOK, Entering
  <2>6. WalkOK(p)'
    BY <1>2, <1>3, <2>4, <2>5, FillsNothing DEF SyncInv, WalkOK, At
  <2>. QED BY <2>1, <2>2, <2>3, <2>6, QuietKeeps
<1>. QED BY <1>4, <1>5, <1>6 DEF Open

\* fetch_graph_batch: one more folder, from the cursor or from its beginning.
LEMMA FetchFolderKeeps ==
  ASSUME SyncInv, NEW p \in Process, NEW f \in Folder, FetchFolder(p, f) PROVE SyncInv'
<1>1. PICK c \in {call[p].base[f], 0} : Walk(p, f, c)
  BY DEF FetchFolder
<1>2. /\ call[p].pc = "fetching" /\ call[p].at[f] = 0 /\ call[p].key \in Key
      /\ call[p] \in Calls /\ faults' \in Nat
      /\ call[p].base \in Cursor /\ call[p].at \in Cursor /\ call[p].got \in SUBSET Record
  BY DEF FetchFolder, At, SyncInv, TypeOK, Calls
<1>3. feed \in Seq(Change) /\ Len(feed) + 1 \in Nat
  BY FeedTyped DEF SyncInv, TypeOK
<1> DEFINE at == [call[p].at EXCEPT ![f] = Len(feed) + 1]
           got == call[p].got \cup Delta(f, c)
           next == [call[p] EXCEPT !.at = at, !.got = got]
<1>4. at \in Cursor /\ got \in SUBSET Record
  BY <1>2, <1>3, DeltaTyped DEF Cursor
<1>5. /\ next \in Calls /\ next.key = call[p].key /\ next.pc = "fetching"
      /\ next.base = call[p].base /\ next.at = at /\ next.got = got
  BY <1>2, <1>4 DEF Calls
<1>6. call' = [call EXCEPT ![p] = next]
  BY <1>1 DEF Walk
<1>7. call'[p] = next /\ \A q \in Process \ {p} : call'[q] = call[q]
  BY <1>6 DEF SyncInv, TypeOK
<1>8. Fills(feed, call[p].base, at, got)
  BY <1>2, <1>3, WalkFills DEF SyncInv, WalkOK, At
<1>9. Reached(feed, at)
  <2>1. \A g \in Folder : at[g] = IF g = f THEN Len(feed) + 1 ELSE call[p].at[g]
    BY <1>2 DEF Cursor
  <2>. QED BY <1>3, <2>1 DEF SyncInv, WalkOK, Reached
<1> HIDE DEF next, at, got
<1>10. UNCHANGED <<feed, cursor, facts, markers, view, artifact, gen, announced, lock>>
  BY DEF FetchFolder, files
<1>11. TypeOK'
  BY <1>1, <1>2, <1>5, <1>6, <1>10, CallTypes, RenewedTypes DEF Walk, SyncInv, TypeOK
<1>12. Quiet(p)
  BY <1>7, <1>10 DEF Quiet
<1>13. Told' = Told
  BY <1>10 DEF Told, Accounted, Observed, Messages, Upserts
<1>14. WalkOK(p)'
  BY <1>5, <1>7, <1>8, <1>9, <1>10, <1>13 DEF SyncInv, WalkOK, At
<1>15. CallOK(p)'
  BY <1>5, <1>7 DEF CallOK, At, Entering, Working, Applying
<1>. QED BY <1>11, <1>12, <1>14, <1>15, QuietKeeps

\* run_claimed_generation: the files of the mailbox or of the generation fail.
LEMMA OpenFailsKeeps ==
  ASSUME SyncInv, NEW p \in Process, OpenFails(p) PROVE SyncInv'
<1>1. ~At(p, "idle") /\ faults' \in Nat
  BY DEF OpenFails, At, SyncInv, TypeOK
<1>. QED BY <1>1, AbandonKeeps DEF OpenFails

\* walk_delta: the source fails, or the lease is gone.
LEMMA FetchFailsKeeps ==
  ASSUME SyncInv, NEW p \in Process, FetchFails(p) PROVE SyncInv'
<1>1. ~At(p, "idle") /\ faults' \in Nat
  BY DEF FetchFails, At, SyncInv, TypeOK
<1>. QED BY <1>1, AbandonKeeps DEF FetchFails

\* write_generation_artifact: what was fetched becomes the batch for good.
LEMMA WriteArtifactKeeps ==
  ASSUME SyncInv, NEW p \in Process, WriteArtifact(p) PROVE SyncInv'
<1>1. /\ call[p].pc = "fetching" /\ call[p].key \in Key /\ ~At(p, "idle")
      /\ call[p].base \in Cursor /\ call[p].at \in Cursor /\ call[p].got \in SUBSET Record
  BY DEF WriteArtifact, At, SyncInv, TypeOK, Calls
<1>2. CASE Written(call[p].key) /\ Abandon(p)
  BY <1>1, <1>2, AbandonKeeps DEF WriteArtifact, SyncInv, TypeOK
<1>3. CASE ~Written(call[p].key) /\ ~(Written(call[p].key) /\ Abandon(p))
  <2> DEFINE key == call[p].key
             batch == [prior |-> call[p].base, next |-> call[p].at, records |-> call[p].got]
  <2>1. /\ artifact' = [artifact EXCEPT ![key] = batch] /\ Goto(p, "staging")
        /\ UNCHANGED <<feed, cursor, facts, markers, view, gen, lease, announced, lock,
                       faults>>
    BY <1>3 DEF WriteArtifact, database
  <2>2. batch \in Batch
    BY <1>1 DEF Batch
  <2>3. artifact'[key] = batch /\ \A k \in Key \ {key} : artifact'[k] = artifact[k]
    BY <1>1, <2>1 DEF SyncInv, TypeOK
  <2>4. TypeOK'
    BY <1>1, <2>1, <2>2, GotoTypes DEF Places, Inside, SyncInv, TypeOK
  <2>5. call'[p].key = key /\ call'[p].base = call[p].base /\ call'[p].at = call[p].at
        /\ call'[p].pc = "staging" /\ \A q \in Process \ {p} : call'[q] = call[q]
    BY <2>1 DEF Goto, SyncInv, TypeOK, Calls
  <2>6. ~Settled(key)
    BY <1>1, <1>3 DEF SyncInv, GenOK
  <2>7. Told' = Told
    BY <2>1, <2>3, <2>6 DEF Told, Accounted, Observed, Messages, Upserts, Settled
  <2>8. ASSUME NEW k \in Key PROVE Settled(k)' = Settled(k) /\ GenOK(k)'
    BY <2>1, <2>3, <2>6 DEF SyncInv, GenOK, Settled, Written, Observed, Messages, Upserts
  <2>9. ASSUME NEW k \in Key, Written(k) PROVE artifact'[k] = artifact[k]
    BY <1>3, <2>3, <2>9
  <2>10. BatchOK(key)'
    BY <1>1, <2>1, <2>3, <2>5, <2>7 DEF BatchOK, SyncInv, WalkOK, At
  <2>11. ASSUME NEW k \in Key PROVE artifact'[k] = artifact[k] \/ BatchOK(k)'
    BY <2>3, <2>5, <2>10 DEF BatchOK
  <2>12. call[p].at # NoCursor
    <3>1. PICK f \in Folder : TRUE
      BY SyncAssumption
    <3>2. call[p].at[f] # 0
      BY DEF WriteArtifact
    <3>. QED BY <3>2 DEF NoCursor
  <2>13. CallOK(p)'
    BY <2>3, <2>5, <2>12 DEF CallOK, At, Written, Entering, Working, Applying
  <2>14. WalkOK(p)'
    BY <2>1, <2>4, <2>5, <2>7, WalkStays
  <2>15. FactsBehindProjection' /\ AnnouncedIsApplied'
    BY <2>1 DEF SyncInv, FactsBehindProjection, AnnouncedIsApplied, Known
  <2>. QED BY <2>1, <2>4, <2>5, <2>7, <2>8, <2>9, <2>11, <2>13, <2>14, <2>15, StepKeeps
<1>. QED BY <1>2, <1>3 DEF WriteArtifact


\* stage_batch: from here on the messages of the batch are accounted for.
LEMMA StageKeeps ==
  ASSUME SyncInv, NEW p \in Process, Stage(p) PROVE SyncInv'
<1> DEFINE key == call[p].key
<1>1. /\ call[p].pc = "staging" /\ key \in Key /\ ~At(p, "idle") /\ faults' \in Nat
      /\ call[p] \in Calls /\ call[p].base \in Cursor
  BY DEF Stage, At, SyncInv, TypeOK, Calls
<1>2. CASE Abandon(p)
  BY <1>1, <1>2, AbandonKeeps
<1>3. CASE Stageable(p) /\ ~Abandon(p)
  <2> DEFINE g == [gen[key] EXCEPT !.status = "staged", !.parent = Parent(p),
                                   !.pending = artifact[key].records]
  <2>1. /\ Begin(p)
        /\ gen' = IF gen[key].status = "staged" THEN gen ELSE [gen EXCEPT ![key] = g]
        /\ UNCHANGED <<feed, cursor, facts, markers, view, artifact, lease, announced, lock,
                       faults>>
    BY <1>3 DEF Stage, Own, Mine, files
  <2>2. gen[key].status \in {"accepted", "staged"}
    BY <1>3 DEF Stageable, Own
  <2>3. artifact[key] \in Batch /\ gen[key] \in Generation
    BY <1>1 DEF SyncInv, TypeOK, Generation
  <2>4. Parent(p) \in Cursor
    BY <1>1, <2>3 DEF Parent, Mine, Batch
  <2>5. g \in Generation /\ g.status = "staged" /\ g.pending = artifact[key].records
    BY <2>3, <2>4 DEF Generation, Statuses, Batch
  <2> HIDE DEF g
  <2>6. gen' \in [Key -> [status : Statuses, token : Process \cup {None},
                          parent : Cursor, pending : SUBSET Record]]
    BY <1>1, <2>1, <2>5, GenTypes DEF SyncInv, TypeOK
  <2>7. /\ gen'[key].status = "staged"
        /\ gen[key].status # "staged" => gen'[key].pending = artifact[key].records
        /\ gen[key].status = "staged" => gen'[key] = gen[key]
        /\ \A k \in Key \ {key} : gen'[k] = gen[k]
    BY <1>1, <2>1, <2>5 DEF SyncInv, TypeOK
  <2>8. Told \subseteq Told'
    <3>1. ASSUME NEW k \in Key, gen[k].status \in {"staged", "failed"}
          PROVE  gen'[k].status = gen[k].status
      BY <2>2, <2>7, <3>1
    <3>. QED BY <2>1, <3>1 DEF Told, Accounted, Observed, Messages, Upserts
  <2>9. call'[p].key = key
    BY <1>1, <2>1 DEF Begin, SyncInv, TypeOK, Calls
  <2>10. Settled(call[p].key)'
    BY <2>7, <2>9 DEF Settled
  <2>11. /\ call' \in [Process -> Calls]
         /\ \A q \in Process : call'[q].pc # "idle" => call'[q].key \in Key
         /\ \A q \in Process \ {p} : call'[q] = call[q]
         /\ TypeOK' => WalkOK(p)' /\ CallOK(p)'
    BY <1>1, <2>1, <2>8, <2>10, BeginKeeps
  <2>12. TypeOK'
    BY <2>1, <2>6, <2>11 DEF SyncInv, TypeOK
  <2>13. Written(key)
    BY <1>1 DEF SyncInv, CallOK, At
  <2>14. ASSUME NEW k \in Key PROVE (Settled(k) => Settled(k)') /\ GenOK(k)'
    <3>1. CASE k = key /\ gen[key].status # "staged"
      <4>1. gen'[k].status = "staged" /\ gen'[k].pending = artifact'[k].records
        BY <2>1, <2>7, <3>1
      <4>2. Written(k)'
        BY <2>1, <2>13, <3>1 DEF Written
      <4>. QED BY <4>1, <4>2 DEF Settled, GenOK
    <3>2. CASE ~(k = key /\ gen[key].status # "staged")
      <4>1. gen'[k] = gen[k]
        BY <2>7, <3>2
      <4>. QED BY <2>1, <4>1 DEF SyncInv, GenOK, Settled, Written, Observed, Messages, Upserts
    <3>. QED BY <3>1, <3>2
  <2>15. FactsBehindProjection' /\ AnnouncedIsApplied'
    BY <2>1 DEF SyncInv, FactsBehindProjection, AnnouncedIsApplied, Known
  <2>. QED BY <2>1, <2>8, <2>11, <2>12, <2>14, <2>15, StepKeeps
<1>. QED BY <1>2, <1>3 DEF Stage

\* A file that fails ends the processing of the batch.
LEMMA FileErrorKeeps ==
  ASSUME SyncInv, NEW p \in Process, FileError(p) PROVE SyncInv'
<1>1. call[p].pc \in Working /\ faults' \in Nat
  BY DEF FileError, Working, Applying, SyncInv, TypeOK
<1>. QED BY <1>1, QuitKeeps DEF FileError

\* process_batch: the fact of a record comes before all else.
LEMMA IngestKeeps ==
  ASSUME SyncInv, NEW p \in Process, Ingest(p) PROVE SyncInv'
<1>1. /\ call[p].pc = "ingesting" /\ call[p].key \in Key /\ ~At(p, "idle")
      /\ call[p] \in Calls /\ call[p].todo \in SUBSET Record
  BY DEF Ingest, At, SyncInv, TypeOK, Calls
<1>2. CASE Quit(p)
  BY <1>1, <1>2, QuitKeeps DEF Ingest, Working, Applying, SyncInv, TypeOK
<1>3. CASE ~Quit(p)
  <2>1. PICK r \in call[p].todo :
            /\ facts' = facts \cup {<<call[p].key, r>>}
            /\ call' = [call EXCEPT ![p].pc = "looking", ![p].got = {r}]
    BY <1>3 DEF Ingest
  <2>2. /\ UNCHANGED <<feed, cursor, markers, view, artifact, gen, announced, lock, faults>>
        /\ IF call[p].todo = Mine(p).records THEN Renewed(p) ELSE UNCHANGED lease
    BY <1>3 DEF Ingest
  <2> DEFINE c == [call[p] EXCEPT !.pc = "looking", !.got = {r}]
  <2>3. /\ c \in Calls /\ c.pc = "looking" /\ c.got = {r} /\ c.key = call[p].key
        /\ c.base = call[p].base /\ c.at = call[p].at /\ c.todo = call[p].todo
    BY <1>1 DEF Calls, Inside
  <2>4. call' = [call EXCEPT ![p] = c]
    BY <2>1
  <2>5. call'[p] = c /\ \A q \in Process \ {p} : call'[q] = call[q]
    BY <2>4 DEF SyncInv, TypeOK
  <2> HIDE DEF c
  <2>6. /\ lease' \in [key : Key \cup {None}, token : Process \cup {None}, live : BOOLEAN]
        /\ lease'.live => lease'.token # None
    BY <2>2, RenewedTypes DEF SyncInv, TypeOK
  <2>7. TypeOK'
    <3>1. facts' \subseteq Fact
      BY <1>1, <2>1 DEF Fact, SyncInv, TypeOK
    <3>. QED BY <1>1, <2>1, <2>2, <2>3, <2>4, <2>6, <3>1, CallTypes DEF SyncInv, TypeOK
  <2>8. Told' = Told
    BY <2>2 DEF Told, Accounted, Observed, Messages, Upserts
  <2>9. ASSUME NEW k \in Key PROVE Settled(k)' = Settled(k) /\ GenOK(k)'
    <3>1. GenOK(k) /\ gen' = gen /\ artifact' = artifact /\ announced' = announced
          /\ facts \subseteq facts'
      BY <2>1, <2>2 DEF SyncInv
    <3>. QED BY <3>1 DEF GenOK, Settled, Written, Observed, Messages, Upserts
  <2>10. WalkOK(p)'
    BY <2>1, <2>2, <2>3, <2>5, <2>7, <2>8, WalkStays
  <2>11. CallOK(p)'
    <3>1. /\ Settled(call[p].key)
          /\ artifact[call[p].key].records \ call[p].todo \subseteq markers
      BY <1>1 DEF SyncInv, CallOK, Working, Applying
    <3>2. r \in Known'
      <4>1. <<call[p].key, r>> \in facts' /\ <<call[p].key, r>>[2] = r
        BY <2>1
      <4>. QED BY <4>1 DEF Known
    <3>. QED BY <2>1, <2>2, <2>3, <2>5, <3>1, <3>2
             DEF CallOK, At, Entering, Working, Applying, Settled
  <2>12. FactsBehindProjection' /\ AnnouncedIsApplied'
    BY <2>1, <2>2 DEF SyncInv, FactsBehindProjection, AnnouncedIsApplied, Known
  <2>. QED BY <2>1, <2>2, <2>5, <2>7, <2>8, <2>9, <2>10, <2>11, <2>12, StepKeeps
<1>. QED BY <1>2, <1>3


\* A record that is applied is pending no more.
LEMMA AppliedKeeps ==
  ASSUME SyncInv, NEW p \in Process, call[p].key \in Key,
         Applied(p), UNCHANGED <<facts, artifact, announced>>
  PROVE  /\ gen' \in [Key -> [status : Statuses, token : Process \cup {None},
                              parent : Cursor, pending : SUBSET Record]]
         /\ \A k \in Key : gen'[k].status = gen[k].status
         /\ \A k \in Key : GenOK(k)'
         /\ Told' = Told
<1> DEFINE key == call[p].key
           g == [gen[key] EXCEPT !.pending = @ \ call[p].got]
<1>1. gen[key] \in Generation
  BY DEF SyncInv, TypeOK, Generation
<1>2. /\ g \in Generation /\ g.status = gen[key].status
      /\ g.pending = gen[key].pending \ call[p].got
  BY <1>1 DEF Generation
<1>3. gen' = [gen EXCEPT ![key] = g]
  BY DEF Applied
<1> HIDE DEF g
<1>4. gen'[key] = g /\ \A k \in Key \ {key} : gen'[k] = gen[k]
  BY <1>3 DEF SyncInv, TypeOK
<1>5. \A k \in Key : gen'[k].status = gen[k].status
  BY <1>2, <1>4
<1>6. ASSUME NEW k \in Key PROVE GenOK(k)'
  <2>1. GenOK(k)
    BY DEF SyncInv
  <2>2. gen'[k].pending = gen[k].pending \/ gen'[k].pending = gen[k].pending \ call[p].got
    BY <1>2, <1>4
  <2>. QED BY <1>5, <2>1, <2>2 DEF GenOK, Settled, Written, Observed, Messages, Upserts
<1>7. Told' = Told
  BY <1>5 DEF Told, Accounted, Observed, Messages, Upserts
<1>. QED BY <1>2, <1>3, <1>5, <1>6, <1>7, GenTypes DEF SyncInv

\* A process goes on to the next record of its batch, or is through with it.
LEMMA NextRecordKeeps ==
  ASSUME SyncInv, NEW p \in Process, call[p].pc \in {"looking", "logging"}, NextRecord(p),
         UNCHANGED <<feed, facts, artifact>>, Told' = Told,
         markers \subseteq markers', call[p].got \subseteq markers',
         \A k \in Key : gen'[k].status = gen[k].status
  PROVE  /\ call' \in [Process -> Calls]
         /\ \A q \in Process : call'[q].pc # "idle" => call'[q].key \in Key
         /\ \A q \in Process \ {p} : call'[q] = call[q]
         /\ TypeOK' => WalkOK(p)' /\ CallOK(p)'
<1> DEFINE c == [call[p] EXCEPT !.todo = @ \ call[p].got, !.got = {},
                                !.pc = IF call[p].todo = call[p].got
                                       THEN "advancing" ELSE "ingesting"]
<1>1. call[p] \in Calls /\ call[p].key \in Key
  BY DEF SyncInv, TypeOK
<1>2. /\ c \in Calls /\ c.key = call[p].key /\ c.base = call[p].base
      /\ c.at = call[p].at /\ c.got = {} /\ c.todo = call[p].todo \ call[p].got
      /\ \/ c.pc = "advancing" /\ call[p].todo = call[p].got
         \/ c.pc = "ingesting"
  BY <1>1 DEF Calls, Inside
<1>3. call' = [call EXCEPT ![p] = c]
  BY DEF NextRecord
<1>4. call'[p] = c /\ \A q \in Process \ {p} : call'[q] = call[q]
  BY <1>3 DEF SyncInv, TypeOK
<1> HIDE DEF c
<1>5. /\ call' \in [Process -> Calls]
      /\ \A q \in Process : call'[q].pc # "idle" => call'[q].key \in Key
  BY <1>1, <1>2, <1>3, CallTypes DEF SyncInv
<1>6. ASSUME TypeOK' PROVE WalkOK(p)'
  BY <1>2, <1>4, <1>6, WalkStays
<1>7. CallOK(p)'
  <2>1. /\ Settled(call[p].key)
        /\ artifact[call[p].key].records \ call[p].todo \subseteq markers
    BY DEF SyncInv, CallOK, Working, Applying
  <2>. QED BY <1>1, <1>2, <1>4, <2>1 DEF CallOK, At, Entering, Working, Applying, Settled
<1>. QED BY <1>4, <1>5, <1>6, <1>7

\* process_batch: a marked record counts as applied, its fact being there.
LEMMA LookKeeps ==
  ASSUME SyncInv, NEW p \in Process, Look(p) PROVE SyncInv'
<1>1. /\ call[p].pc = "looking" /\ call[p].key \in Key /\ ~At(p, "idle")
      /\ Settled(call[p].key) /\ faults' \in Nat
  BY DEF Look, At, SyncInv, TypeOK, CallOK, Working, Applying
<1>2. CASE /\ call[p].got \subseteq markers /\ Applied(p) /\ NextRecord(p)
           /\ UNCHANGED <<feed, files, lease, announced, lock>>
  <2>1. UNCHANGED <<feed, cursor, facts, markers, view, artifact, lease, announced, lock>>
    BY <1>2 DEF files
  <2>2. /\ gen' \in [Key -> [status : Statuses, token : Process \cup {None},
                              parent : Cursor, pending : SUBSET Record]]
        /\ \A k \in Key : gen'[k].status = gen[k].status
        /\ \A k \in Key : GenOK(k)'
        /\ Told' = Told
    BY <1>1, <1>2, <2>1, AppliedKeeps
  <2>3. /\ call' \in [Process -> Calls]
        /\ \A q \in Process : call'[q].pc # "idle" => call'[q].key \in Key
        /\ \A q \in Process \ {p} : call'[q] = call[q]
        /\ TypeOK' => WalkOK(p)' /\ CallOK(p)'
    BY <1>1, <1>2, <2>1, <2>2, NextRecordKeeps
  <2>4. TypeOK'
    BY <1>1, <2>1, <2>2, <2>3 DEF SyncInv, TypeOK
  <2>5. FactsBehindProjection' /\ AnnouncedIsApplied'
    BY <2>1 DEF SyncInv, FactsBehindProjection, AnnouncedIsApplied, Known
  <2>6. \A k \in Key : Settled(k) => Settled(k)'
    BY <2>2 DEF Settled
  <2>. QED BY <2>1, <2>2, <2>3, <2>4, <2>5, <2>6, StepKeeps
<1>3. CASE Goto(p, "projecting") /\ UNCHANGED <<feed, files, database, lock>>
  <2>1. CallOK(p)'
    BY <1>1, <1>3, PlaceWell DEF files, database, Entering, Working, Applying
  <2>. QED BY <1>1, <1>3, <2>1, GotoKeeps DEF database, Places, Inside, SyncInv, TypeOK
<1>4. CASE Quit(p)
  BY <1>1, <1>4, QuitKeeps DEF Working, Applying
<1>. QED BY <1>2, <1>3, <1>4 DEF Look

\* project_record: the projection of a record whose fact is there.
LEMMA ProjectKeeps ==
  ASSUME SyncInv, NEW p \in Process, Project(p) PROVE SyncInv'
<1>1. /\ call[p].pc = "projecting" /\ call[p].key \in Key /\ ~At(p, "idle")
      /\ call[p].got \subseteq Known /\ Settled(call[p].key)
      /\ call[p].got \in SUBSET Record
  BY DEF Project, At, SyncInv, TypeOK, CallOK, Working, Applying, Calls
<1>2. PICK r \in call[p].got : view' = [view EXCEPT ![r[1]] = r[2]]
  BY DEF Project
<1>3. UNCHANGED <<feed, cursor, facts, markers, artifact, gen, lease, announced, faults>>
  BY DEF Project, database
<1>4. PICK place \in {"marking", "failing"} : Goto(p, place)
  BY DEF Project
<1>5. r \in Record /\ r \in Known /\ Known' = Known
  BY <1>1, <1>3 DEF Known
<1>6. TypeOK'
  <2>1. view' \in [Message -> Nat]
    BY <1>2, <1>5 DEF Record, SyncInv, TypeOK
  <2>2. lock' \in Process \cup {None}
    BY DEF Project, SyncInv, TypeOK
  <2>. QED BY <1>1, <1>3, <1>4, <2>1, <2>2, GotoTypes DEF Places, Inside, SyncInv, TypeOK
<1>7. Told' = Told
  BY <1>3 DEF Told, Accounted, Observed, Messages, Upserts
<1>8. ASSUME NEW k \in Key PROVE Settled(k)' = Settled(k) /\ GenOK(k)'
  BY <1>3 DEF SyncInv, GenOK, Settled, Written, Observed, Messages, Upserts
<1>9. CallOK(p)'
  BY <1>1, <1>3, <1>4, PlaceWell DEF Entering, Working, Applying
<1>10. /\ call'[p].base = call[p].base /\ call'[p].at = call[p].at /\ call'[p].pc = place
       /\ \A q \in Process \ {p} : call'[q] = call[q]
  BY <1>4 DEF Goto, SyncInv, TypeOK, Calls
<1>11. WalkOK(p)'
  BY <1>3, <1>6, <1>7, <1>10, WalkStays
<1>12. FactsBehindProjection'
  <2>1. r = <<r[1], r[2]>> /\ r[1] \in Message
    BY <1>5 DEF Record
  <2>2. ASSUME NEW m \in Message, view'[m] # 0 PROVE <<m, view'[m]>> \in Known
    <3>1. CASE m = r[1]
      BY <1>2, <1>5, <2>1, <3>1 DEF SyncInv, TypeOK
    <3>2. CASE m # r[1]
      BY <1>2, <2>2, <3>2 DEF SyncInv, TypeOK, FactsBehindProjection
    <3>. QED BY <3>1, <3>2
  <2>. QED BY <1>3, <1>5, <2>2 DEF SyncInv, FactsBehindProjection
<1>13. AnnouncedIsApplied'
  BY <1>3 DEF SyncInv, AnnouncedIsApplied, Known
<1>. QED BY <1>3, <1>6, <1>7, <1>8, <1>9, <1>10, <1>11, <1>12, <1>13, StepKeeps


\* mark_record_application: the record is no more pending, before it has its marker.
LEMMA MarkKeeps ==
  ASSUME SyncInv, NEW p \in Process, Mark(p) PROVE SyncInv'
<1>1. /\ call[p].pc = "marking" /\ call[p].key \in Key /\ ~At(p, "idle")
      /\ call[p].got \subseteq Known /\ Settled(call[p].key)
      /\ artifact[call[p].key].records \ call[p].todo \subseteq markers
  BY DEF Mark, At, SyncInv, TypeOK, CallOK, Working, Applying
<1>2. /\ Applied(p) /\ Goto(p, "logging")
      /\ UNCHANGED <<feed, cursor, facts, markers, view, artifact, lease, announced, lock,
                     faults>>
  BY DEF Mark, files
<1>3. /\ gen' \in [Key -> [status : Statuses, token : Process \cup {None},
                            parent : Cursor, pending : SUBSET Record]]
      /\ \A k \in Key : gen'[k].status = gen[k].status
      /\ \A k \in Key : GenOK(k)'
      /\ Told' = Told
  BY <1>1, <1>2, AppliedKeeps
<1>4. TypeOK'
  BY <1>1, <1>2, <1>3, GotoTypes DEF Places, Inside, SyncInv, TypeOK
<1>5. /\ call'[p].pc = "logging" /\ call'[p].key = call[p].key /\ call'[p].base = call[p].base
      /\ call'[p].at = call[p].at /\ call'[p].got = call[p].got
      /\ call'[p].todo = call[p].todo
      /\ \A q \in Process \ {p} : call'[q] = call[q]
  BY <1>2 DEF Goto, SyncInv, TypeOK, Calls
<1>6. WalkOK(p)'
  BY <1>2, <1>3, <1>4, <1>5, WalkStays
<1>7. CallOK(p)'
  <2>1. Known' = Known
    BY <1>2 DEF Known
  <2>. QED BY <1>1, <1>2, <1>3, <1>5, <2>1 DEF CallOK, At, Entering, Working, Applying, Settled
<1>8. FactsBehindProjection' /\ AnnouncedIsApplied'
  BY <1>2 DEF SyncInv, FactsBehindProjection, AnnouncedIsApplied, Known
<1>9. \A k \in Key : Settled(k) => Settled(k)'
  BY <1>3 DEF Settled
<1>. QED BY <1>2, <1>3, <1>4, <1>5, <1>6, <1>7, <1>8, <1>9, StepKeeps

\* write_apply_marker: the marker of a record whose fact is there.
LEMMA WriteMarkerKeeps ==
  ASSUME SyncInv, NEW p \in Process, WriteMarker(p) PROVE SyncInv'
<1>1. /\ call[p].pc = "logging" /\ call[p].got \subseteq Known
      /\ call[p].got \in SUBSET Record
  BY DEF WriteMarker, At, SyncInv, CallOK, TypeOK, Calls
<1>2. /\ NextRecord(p) /\ markers' = markers \cup call[p].got
      /\ UNCHANGED <<feed, cursor, facts, view, artifact, gen, lease, announced, lock, faults>>
  BY DEF WriteMarker, database
<1>3. Told' = Told
  BY <1>2 DEF Told, Accounted, Observed, Messages, Upserts
<1>4. /\ call' \in [Process -> Calls]
      /\ \A q \in Process : call'[q].pc # "idle" => call'[q].key \in Key
      /\ \A q \in Process \ {p} : call'[q] = call[q]
      /\ TypeOK' => WalkOK(p)' /\ CallOK(p)'
  BY <1>1, <1>2, <1>3, NextRecordKeeps
<1>5. Known' = Known /\ markers' \subseteq Known
  BY <1>1, <1>2 DEF SyncInv, FactsBehindProjection, Known
<1>6. TypeOK'
  BY <1>1, <1>2, <1>4 DEF SyncInv, TypeOK
<1>7. ASSUME NEW k \in Key PROVE Settled(k)' = Settled(k) /\ GenOK(k)'
  BY <1>2 DEF SyncInv, GenOK, Settled, Written, Observed, Messages, Upserts
<1>8. FactsBehindProjection' /\ AnnouncedIsApplied'
  BY <1>2, <1>5 DEF SyncInv, FactsBehindProjection, AnnouncedIsApplied
<1>. QED BY <1>2, <1>3, <1>4, <1>6, <1>7, <1>8, StepKeeps

\* process_batch: the lease is renewed before the cursor moves.
LEMMA AdvanceKeeps ==
  ASSUME SyncInv, NEW p \in Process, Advance(p) PROVE SyncInv'
<1>1. /\ call[p].pc = "advancing" /\ ~At(p, "idle") /\ Settled(call[p].key)
      /\ faults' \in Nat
  BY DEF Advance, At, SyncInv, TypeOK, CallOK, Working
<1>2. CASE Renewed(p) /\ Goto(p, "removing") /\ UNCHANGED <<feed, files, gen, announced, lock>>
  <2>1. CallOK(p)'
    BY <1>1, <1>2, PlaceWell DEF files, Entering, Applying
  <2>. QED BY <1>1, <1>2, <2>1, GotoKeeps, RenewedTypes DEF Places, Inside, SyncInv, TypeOK
<1>3. CASE Quit(p)
  BY <1>1, <1>3, QuitKeeps DEF Working
<1>. QED BY <1>2, <1>3 DEF Advance

\* The cursor file is moved by a step that leaves every other store alone.
LEMMA CursorStepKeeps ==
  ASSUME SyncInv, NEW p \in Process, call[p].pc \in {"removing", "writing"},
         NEW place \in {"writing", "checking"}, Goto(p, place),
         UNCHANGED <<feed, facts, markers, view, artifact, database, lock, faults>>,
         cursor' \in Cursor, Reached(feed, cursor'), Covers(feed, cursor', markers, Told)
  PROVE  SyncInv'
<1>1. ~At(p, "idle") /\ Settled(call[p].key)
  BY DEF At, SyncInv, CallOK, Working
<1>2. UNCHANGED <<feed, facts, markers, view, artifact, gen, lease, announced, lock, faults>>
  BY DEF database
<1>3. Told' = Told
  BY <1>2 DEF Told, Accounted, Observed, Messages, Upserts
<1>4. TypeOK'
  BY <1>1, <1>2, GotoTypes DEF Places, Inside, SyncInv, TypeOK
<1>5. CallOK(p)'
  BY <1>1, <1>2, PlaceWell DEF Entering, Working, Applying
<1>6. /\ call'[p].base = call[p].base /\ call'[p].at = call[p].at /\ call'[p].pc = place
      /\ \A q \in Process \ {p} : call'[q] = call[q]
  BY DEF Goto, SyncInv, TypeOK, Calls
<1>7. WalkOK(p)'
  BY <1>2, <1>3, <1>4, <1>6, WalkStays
<1>8. ASSUME NEW k \in Key PROVE Settled(k)' = Settled(k) /\ GenOK(k)'
  BY <1>2 DEF SyncInv, GenOK, Settled, Written, Observed, Messages, Upserts
<1>9. CursorOK'
  BY <1>2, <1>3 DEF CursorOK
<1>10. FactsBehindProjection' /\ AnnouncedIsApplied'
  BY <1>2 DEF SyncInv, FactsBehindProjection, AnnouncedIsApplied, Known
<1>. QED BY <1>2, <1>3, <1>4, <1>5, <1>6, <1>7, <1>8, <1>9, <1>10, StepKeeps

\* commit_cursor, first half: no cursor covers nothing.
LEMMA RemoveCursorKeeps ==
  ASSUME SyncInv, NEW p \in Process, RemoveCursor(p) PROVE SyncInv'
<1>1. feed \in Seq(Change) /\ Len(feed) \in Nat
  BY FeedTyped DEF SyncInv, TypeOK
<1>2. Reached(feed, NoCursor) /\ Covers(feed, NoCursor, markers, Told)
  BY <1>1, NothingPassed DEF Reached, NoCursor, Covers
<1>. QED BY <1>2, TypesInside, CursorStepKeeps DEF RemoveCursor, At, SyncInv

\* The cursor moves to the end of a batch that has its markers, of a generation whose
\* messages are in the database.
LEMMA WriteCursorKeeps ==
  ASSUME SyncInv, NEW p \in Process, WriteCursor(p) PROVE SyncInv'
<1> DEFINE key == call[p].key
           batch == artifact[key]
<1>1. /\ call[p].pc = "writing" /\ key \in Key /\ Settled(key)
      /\ batch.records \subseteq markers
  BY DEF WriteCursor, At, SyncInv, TypeOK, CallOK, Working
<1>2. /\ batch.next \in Cursor /\ batch.records \in SUBSET Record
      /\ feed \in Seq(Change)
  BY <1>1 DEF SyncInv, TypeOK, Batch
<1>3. BatchOK(key) /\ GenOK(key)
  BY <1>1 DEF SyncInv
<1>4. ASSUME NEW r \in batch.records, r[2] # Removed PROVE r[1] \in Told
  <2>1. r[1] \in Messages(key) /\ r[1] \in Message
    BY <1>2, <1>4 DEF Messages, Upserts, Record
  <2>2. CASE gen[key].status \in {"staged", "failed"}
    BY <1>1, <2>1, <2>2 DEF Told, Accounted
  <2>3. CASE gen[key].status = "completed"
    BY <1>3, <2>1, <2>3 DEF GenOK, Told, Accounted
  <2>. QED BY <1>1, <2>2, <2>3 DEF Settled
<1>5. Covers(feed, batch.next, markers, Told)
  BY <1>1, <1>2, <1>3, <1>4, FillsCovers DEF BatchOK
<1>6. Reached(feed, batch.next)
  BY <1>3 DEF BatchOK
<1>. QED BY <1>1, <1>2, <1>5, <1>6, CursorStepKeeps DEF WriteCursor, Mine

\* process_batch: the lease is asserted behind the cursor.
LEMMA CheckLeaseKeeps ==
  ASSUME SyncInv, NEW p \in Process, CheckLease(p) PROVE SyncInv'
<1>1. /\ call[p].pc = "checking" /\ ~At(p, "idle") /\ Settled(call[p].key)
      /\ faults' \in Nat
  BY DEF CheckLease, At, SyncInv, TypeOK, CallOK, Working
<1>2. CASE Goto(p, "confirming") /\ lock' = None /\ UNCHANGED <<feed, files, database>>
  <2>1. CallOK(p)'
    BY <1>1, <1>2, PlaceWell DEF files, database, Entering, Applying
  <2>. QED BY <1>1, <1>2, <2>1, GotoKeeps DEF database, Places, SyncInv, TypeOK
<1>3. CASE Quit(p)
  BY <1>1, <1>3, QuitKeeps DEF Working
<1>. QED BY <1>2, <1>3 DEF CheckLease

\* The messages of a batch whose next cursor is covered have their markers.
LEMMA CoveredRecords ==
  ASSUME SyncInv, NEW k \in Key, Covers(feed, artifact[k].next, markers, Told)
  PROVE  Upserts(k) \subseteq markers
  BY DEF SyncInv, BatchOK, Fills, Covers, Upserts

\* finalize_generation is reached with the cursor in place, or not at all.
LEMMA ConfirmKeeps ==
  ASSUME SyncInv, NEW p \in Process, Confirm(p) PROVE SyncInv'
<1>1. /\ call[p].pc = "confirming" /\ ~At(p, "idle") /\ Settled(call[p].key)
      /\ faults' \in Nat
  BY DEF Confirm, At, SyncInv, TypeOK, CallOK, Working
<1>2. CASE /\ cursor = Mine(p).next /\ Goto(p, "finalizing")
           /\ UNCHANGED <<feed, files, database, lock>>
  <2>0. Upserts(call[p].key) \subseteq markers
    <3>1. call[p].key \in Key
      BY <1>1 DEF SyncInv, TypeOK
    <3>. QED BY <1>2, <3>1, CoveredRecords DEF SyncInv, CursorOK, Mine
  <2>1. CallOK(p)'
    BY <1>1, <1>2, <2>0, PlaceWell DEF files, database, Entering, Applying
  <2>. QED BY <1>1, <1>2, <2>1, GotoKeeps DEF database, Places, SyncInv, TypeOK
<1>3. CASE Abandon(p)
  BY <1>1, <1>3, AbandonKeeps
<1>. QED BY <1>2, <1>3 DEF Confirm


\* run_claimed_generation: a cursor that is in place covers the records of its batch.
LEMMA ReconcileKeeps ==
  ASSUME SyncInv, NEW p \in Process, Reconcile(p) PROVE SyncInv'
<1> DEFINE key == call[p].key
           g == [gen[key] EXCEPT !.pending = {}]
<1>1. /\ call[p].pc = "reconciling" /\ key \in Key /\ ~At(p, "idle")
      /\ Settled(key) /\ call[p].base = artifact[key].next
  BY DEF Reconcile, At, SyncInv, TypeOK, CallOK
<1>2. /\ Goto(p, "finalizing") /\ gen' = [gen EXCEPT ![key] = g]
      /\ UNCHANGED <<feed, cursor, facts, markers, view, artifact, lease, announced, lock,
                     faults>>
  BY DEF Reconcile, files
<1>3. gen[key] \in Generation
  BY <1>1 DEF SyncInv, TypeOK, Generation
<1>4. g \in Generation /\ g.status = gen[key].status /\ g.pending = {}
  BY <1>3 DEF Generation
<1> HIDE DEF g
<1>5. gen'[key] = g /\ \A k \in Key \ {key} : gen'[k] = gen[k]
  BY <1>1, <1>2 DEF SyncInv, TypeOK
<1>6. gen' \in [Key -> [status : Statuses, token : Process \cup {None},
                        parent : Cursor, pending : SUBSET Record]]
  BY <1>1, <1>2, <1>4, GenTypes DEF SyncInv
<1>7. TypeOK'
  BY <1>1, <1>2, <1>6, GotoTypes DEF Places, SyncInv, TypeOK
<1>8. \A k \in Key : gen'[k].status = gen[k].status
  BY <1>4, <1>5
<1>9. Told' = Told
  BY <1>2, <1>8 DEF Told, Accounted, Observed, Messages, Upserts
<1>10. Upserts(key) \subseteq markers
  BY <1>1, CoveredRecords DEF SyncInv, WalkOK
<1>11. ASSUME NEW k \in Key PROVE (Settled(k) => Settled(k)') /\ GenOK(k)'
  <2>1. CASE k = key
    BY <1>1, <1>2, <1>8, <2>1 DEF SyncInv, GenOK, Settled, Written, Observed, Messages, Upserts
  <2>2. CASE k # key
    <3>1. gen'[k] = gen[k]
      BY <1>5, <2>2
    <3>. QED BY <1>2, <3>1 DEF SyncInv, GenOK, Settled, Written, Observed, Messages, Upserts
  <2>. QED BY <2>1, <2>2
<1>12. /\ call'[p].pc = "finalizing" /\ call'[p].key = key /\ call'[p].base = call[p].base
       /\ call'[p].at = call[p].at /\ \A q \in Process \ {p} : call'[q] = call[q]
  BY <1>2 DEF Goto, SyncInv, TypeOK, Calls
<1>13. WalkOK(p)'
  BY <1>2, <1>7, <1>9, <1>12, WalkStays
<1>14. CallOK(p)'
  BY <1>1, <1>2, <1>8, <1>10, <1>12
     DEF CallOK, At, Entering, Working, Applying, Settled, Upserts
<1>15. FactsBehindProjection' /\ AnnouncedIsApplied'
  BY <1>2 DEF SyncInv, FactsBehindProjection, AnnouncedIsApplied, Known
<1>. QED BY <1>2, <1>7, <1>9, <1>11, <1>12, <1>13, <1>14, <1>15, StepKeeps

\* A generation ends, with or without its messages announced.
LEMMA EndKeeps ==
  ASSUME SyncInv, NEW p \in Process, call[p].pc \in {"failing", "finalizing"},
         NEW end \in {"completed", "failed"},
         gen' = [gen EXCEPT ![call[p].key].status = end, ![call[p].key].token = None],
         lease' = IF Holds(p) THEN NoLease ELSE lease,
         call' = [call EXCEPT ![p] = Idle],
         UNCHANGED <<feed, files, lock, faults>>,
         announced \subseteq announced', announced' \subseteq Fact,
         end = "completed" => Messages(call[p].key) \subseteq Observed',
         AnnouncedIsApplied'
  PROVE  SyncInv'
<1> DEFINE key == call[p].key
           g == [gen[key] EXCEPT !.status = end, !.token = None]
<1>1. key \in Key /\ Settled(key)
  BY DEF SyncInv, TypeOK, CallOK, Working
<1>2. UNCHANGED <<feed, cursor, facts, markers, view, artifact, lock, faults>>
  BY DEF files
<1>3. gen[key] \in Generation
  BY <1>1 DEF SyncInv, TypeOK, Generation
<1>4. g \in Generation /\ g.status = end
  BY <1>3 DEF Generation, Statuses
<1>5. gen' = [gen EXCEPT ![key] = g]
  OBVIOUS
<1> HIDE DEF g
<1>6. gen'[key] = g /\ \A k \in Key \ {key} : gen'[k] = gen[k]
  BY <1>1, <1>5 DEF SyncInv, TypeOK
<1>7. gen' \in [Key -> [status : Statuses, token : Process \cup {None},
                        parent : Cursor, pending : SUBSET Record]]
  BY <1>1, <1>4, <1>5, GenTypes DEF SyncInv
<1>8. /\ call' \in [Process -> Calls]
      /\ \A q \in Process : call'[q].pc # "idle" => call'[q].key \in Key
  BY TypesInside, CallTypes DEF SyncInv, Idle
<1>9. TypeOK'
  BY <1>2, <1>7, <1>8, ReleaseTypes DEF SyncInv, TypeOK
<1>10. Told \subseteq Told'
  <2>1. ASSUME NEW m \in Told PROVE m \in Told'
    <3>1. CASE m \in Observed
      BY <2>1, <3>1 DEF Told, Accounted, Observed
    <3>2. CASE \E k \in Key : gen[k].status \in {"staged", "failed"} /\ m \in Messages(k)
      <4>1. PICK k \in Key : gen[k].status \in {"staged", "failed"} /\ m \in Messages(k)
        BY <3>2
      <4>2. m \in Messages(k)'
        BY <1>2, <4>1 DEF Messages, Upserts
      <4>3. CASE k = key
        BY <1>2, <1>4, <1>6, <2>1, <4>1, <4>2, <4>3 DEF Told, Accounted
      <4>4. CASE k # key
        <5>1. gen'[k].status \in {"staged", "failed"}
          BY <1>6, <4>1, <4>4
        <5>. QED BY <2>1, <4>2, <5>1 DEF Told, Accounted
      <4>. QED BY <4>3, <4>4
    <3>. QED BY <2>1, <3>1, <3>2 DEF Told, Accounted
  <2>. QED BY <2>1
<1>11. ASSUME NEW k \in Key PROVE (Settled(k) => Settled(k)') /\ GenOK(k)'
  <2>1. GenOK(k)
    BY DEF SyncInv
  <2>2. CASE k = key
    <3>1. gen'[k].status = end
      BY <1>4, <1>6, <2>2
    <3>2. Written(k)' /\ Messages(k)' = Messages(k)
      BY <1>1, <1>2, <2>1, <2>2 DEF GenOK, Written, Messages, Upserts
    <3>. QED BY <2>2, <3>1, <3>2 DEF GenOK, Settled
  <2>3. CASE k # key
    <3>1. gen'[k] = gen[k]
      BY <1>6, <2>3
    <3>. QED BY <1>2, <2>1, <3>1 DEF GenOK, Settled, Written, Observed, Messages, Upserts
  <2>. QED BY <2>2, <2>3
<1>12. call'[p] = Idle /\ \A q \in Process \ {p} : call'[q] = call[q]
  BY DEF SyncInv, TypeOK
<1>13. WalkOK(p)' /\ CallOK(p)'
  BY <1>9, <1>12, BeginWell DEF Idle
<1>14. FactsBehindProjection'
  BY <1>2 DEF SyncInv, FactsBehindProjection, Known
<1>. QED BY <1>2, <1>9, <1>10, <1>11, <1>12, <1>13, <1>14, StepKeeps

\* fail_generation: the generation keeps its records.
LEMMA FailKeeps ==
  ASSUME SyncInv, NEW p \in Process, Fail(p) PROVE SyncInv'
<1>1. call[p].pc = "failing" /\ ~At(p, "idle") /\ faults' = faults
  BY DEF Fail, At
<1>2. CASE Abandon(p)
  BY <1>1, <1>2, AbandonKeeps DEF SyncInv, TypeOK
<1>3. CASE ~Abandon(p)
  <2>1. /\ gen' = [gen EXCEPT ![call[p].key].status = "failed", ![call[p].key].token = None]
        /\ lease' = IF Holds(p) THEN NoLease ELSE lease
        /\ call' = [call EXCEPT ![p] = Idle]
        /\ UNCHANGED <<feed, files, announced, lock, faults>>
    BY <1>3 DEF Fail
  <2>2. AnnouncedIsApplied'
    BY <2>1 DEF files, SyncInv, AnnouncedIsApplied, Known
  <2>. QED BY <1>1, <2>1, <2>2, EndKeeps DEF SyncInv, TypeOK
<1>. QED BY <1>2, <1>3

\* finalize_generation: the messages that are announced have their facts and markers.
LEMMA FinalizeKeeps ==
  ASSUME SyncInv, NEW p \in Process, Finalize(p) PROVE SyncInv'
<1> DEFINE key == call[p].key
<1>1. /\ call[p].pc = "finalizing" /\ ~At(p, "idle") /\ key \in Key /\ faults' = faults
  BY DEF Finalize, At, SyncInv, TypeOK
<1>2. CASE Abandon(p)
  BY <1>1, <1>2, AbandonKeeps DEF SyncInv, TypeOK
<1>3. CASE ~Abandon(p)
  <2>1. /\ Finalizable(p) /\ Announce(key)
        /\ gen' = [gen EXCEPT ![key].status = "completed", ![key].token = None]
        /\ lease' = IF Holds(p) THEN NoLease ELSE lease
        /\ call' = [call EXCEPT ![p] = Idle]
        /\ UNCHANGED <<feed, files, lock, faults>>
    BY <1>1, <1>3 DEF Finalize
  <2>2. PICK first \in [Messages(key) \ Observed -> Upserts(key)] :
            /\ \A m \in DOMAIN first : first[m][1] = m
            /\ announced' = announced \cup {<<key, first[m]>> : m \in DOMAIN first}
    BY <2>1 DEF Announce
  <2>3. Upserts(key) \subseteq Record
    <3>1. artifact[key] \in Batch
      BY <1>1 DEF SyncInv, TypeOK
    <3>. QED BY <3>1 DEF Upserts, Batch
  <2>4. announced' \subseteq Fact
    BY <1>1, <2>2, <2>3 DEF Fact, SyncInv, TypeOK
  <2>5. Messages(key) \subseteq Observed'
    <3> SUFFICES ASSUME NEW m \in Messages(key) PROVE m \in Observed'
      OBVIOUS
    <3>1. CASE m \in Observed
      BY <2>2, <3>1 DEF Observed
    <3>2. CASE m \notin Observed
      <4>1. <<key, first[m]>> \in announced' /\ first[m][1] = m
        BY <2>2, <3>2
      <4>. QED BY <4>1 DEF Observed
    <3>. QED BY <3>1, <3>2
  <2>6. AnnouncedIsApplied'
    <3>1. UNCHANGED <<facts, markers>>
      BY <2>1 DEF files
    <3>2. Upserts(key) \subseteq markers
      BY <1>1 DEF SyncInv, CallOK, At
    <3>3. ASSUME NEW m \in DOMAIN first
          PROVE  <<key, first[m]>> \in facts /\ first[m] \in markers
      BY <2>1, <2>2, <3>2 DEF Finalizable
    <3>. QED BY <2>2, <3>1, <3>3 DEF SyncInv, AnnouncedIsApplied
  <2>. QED BY <1>1, <2>1, <2>2, <2>4, <2>5, <2>6, EndKeeps
<1>. QED BY <1>2, <1>3

\* A process dies, and what it wrote stays.
LEMMA CrashKeeps ==
  ASSUME SyncInv, NEW p \in Process, Crash(p) PROVE SyncInv'
<1>1. /\ call' = [call EXCEPT ![p] = Idle] /\ faults' \in Nat
      /\ UNCHANGED <<feed, cursor, facts, markers, view, artifact, gen, lease, announced,
                     lock>>
  BY DEF Crash, files, database, SyncInv, TypeOK
<1>2. /\ call' \in [Process -> Calls]
      /\ \A q \in Process : call'[q].pc # "idle" => call'[q].key \in Key
  BY <1>1, TypesInside, CallTypes DEF SyncInv, Idle
<1>3. TypeOK'
  BY <1>1, <1>2 DEF SyncInv, TypeOK
<1>4. call'[p] = Idle /\ \A q \in Process \ {p} : call'[q] = call[q]
  BY <1>1 DEF SyncInv, TypeOK
<1>5. WalkOK(p)' /\ CallOK(p)'
  BY <1>3, <1>4, BeginWell DEF Idle
<1>6. Quiet(p)
  BY <1>1, <1>4 DEF Quiet
<1>. QED BY <1>3, <1>5, <1>6, QuietKeeps

\* A lease lapses, or nothing happens.
LEMMA LapseKeeps ==
  ASSUME SyncInv, Lapse \/ UNCHANGED vars PROVE SyncInv'
<1>1. UNCHANGED <<feed, cursor, facts, markers, view, artifact, gen, announced, lock, call>>
  BY DEF Lapse, vars, files, database
<1>2. /\ lease' \in [key : Key \cup {None}, token : Process \cup {None}, live : BOOLEAN]
      /\ lease'.live => lease'.token # None
      /\ faults' \in Nat
  <2>1. CASE Lapse
    <3>1. lease' = [lease EXCEPT !.live = FALSE] /\ faults' \in Nat
      BY <2>1 DEF Lapse, SyncInv, TypeOK
    <3>2. lease \in [key : Key \cup {None}, token : Process \cup {None}, live : BOOLEAN]
      BY DEF SyncInv, TypeOK
    <3>3. lease'.live = FALSE
      BY <3>1, <3>2
    <3>. QED BY <3>1, <3>2, <3>3
  <2>2. CASE UNCHANGED vars
    BY <2>2 DEF vars, database, SyncInv, TypeOK
  <2>. QED BY <2>1, <2>2
<1>3. TypeOK'
  BY <1>1, <1>2 DEF SyncInv, TypeOK
<1>4. Told' = Told
  BY <1>1 DEF Told, Accounted, Observed, Messages, Upserts
<1>5. CursorOK' /\ (\A k \in Key : BatchOK(k)')
  BY <1>1, <1>4 DEF SyncInv, CursorOK, BatchOK
<1>6. \A k \in Key : GenOK(k)'
  BY <1>1 DEF SyncInv, GenOK, Settled, Written, Observed, Messages, Upserts
<1>7. \A p \in Process : WalkOK(p)'
  BY <1>1, <1>4 DEF SyncInv, WalkOK, At
<1>8. \A p \in Process : CallOK(p)'
  BY <1>1 DEF SyncInv, CallOK, At, Settled, Written, Known, Upserts
<1>9. FactsBehindProjection' /\ AnnouncedIsApplied'
  BY <1>1 DEF SyncInv, FactsBehindProjection, AnnouncedIsApplied, Known
<1>. QED BY <1>3, <1>5, <1>6, <1>7, <1>8, <1>9 DEF SyncInv


-----------------------------------------------------------------------------
(***************************************************************************)
(* The invariant and what follows from it                                  *)
(***************************************************************************)
LEMMA InitSync == Init => SyncInv
<1> SUFFICES ASSUME Init PROVE SyncInv
  OBVIOUS
<1> USE DEF Init
<1>1. feed \in Seq(Change) /\ DOMAIN feed = {} /\ Len(feed) = 0
  OBVIOUS
<1>2. /\ NoCursor \in Cursor /\ NoBatch \in Batch /\ Idle \in Calls
      /\ NoGeneration \in Generation
      /\ NoLease \in [key : Key \cup {None}, token : Process \cup {None}, live : BOOLEAN]
  BY DEF NoCursor, Cursor, NoBatch, Batch, Idle, Calls, Statuses, NoGeneration, Generation,
         NoLease
<1>3. TypeOK
  BY <1>1, <1>2 DEF TypeOK, Idle, NoLease, Generation
<1>4. /\ Reached(feed, NoCursor) /\ \A F, A : Covers(feed, NoCursor, F, A)
      /\ Fills(feed, NoCursor, NoCursor, {})
  <2>1. PassedIn(feed, NoCursor) = {}
    BY <1>1, NothingPassed
  <2>2. Reached(feed, NoCursor)
    BY <1>1 DEF Reached, NoCursor
  <2>3. Fills(feed, NoCursor, NoCursor, {})
    BY <1>1, FillsNothing
  <2>. QED BY <2>1, <2>2, <2>3 DEF Covers
<1>5. CursorOK
  BY <1>4 DEF CursorOK
<1>6. ASSUME NEW k \in Key PROVE BatchOK(k) /\ GenOK(k)
  BY <1>4 DEF BatchOK, GenOK, NoBatch, NoGeneration, Settled
<1>7. ASSUME NEW p \in Process PROVE WalkOK(p) /\ CallOK(p)
  BY <1>4 DEF WalkOK, CallOK, At, Idle, Entering, Working, Applying
<1>8. FactsBehindProjection /\ AnnouncedIsApplied
  BY DEF FactsBehindProjection, AnnouncedIsApplied
<1>. QED BY <1>3, <1>5, <1>6, <1>7, <1>8 DEF SyncInv

\* Every step of a call keeps the invariant.
LEMMA StepSync ==
  ASSUME SyncInv, NEW p \in Process, Step(p) PROVE SyncInv'
<1>1. CASE ReadCursor(p) \/ Inspect(p) \/ Reconcile(p)
  BY <1>1, ReadCursorKeeps, InspectKeeps, ReconcileKeeps
<1>2. CASE Acquire(p) \/ AcquireTimeout(p) \/ SeeStale(p) \/ BreakLock(p)
  BY <1>2, LockKeeps
<1>3. CASE \/ Open(p) \/ OpenFails(p)
           \/ (\E f \in Folder : FetchFolder(p, f)) \/ FetchFails(p)
  BY <1>3, OpenKeeps, OpenFailsKeeps, FetchFolderKeeps, FetchFailsKeeps
<1>4. CASE WriteArtifact(p) \/ Stage(p) \/ FileError(p) \/ Ingest(p)
  BY <1>4, WriteArtifactKeeps, StageKeeps, FileErrorKeeps, IngestKeeps
<1>5. CASE Look(p) \/ Project(p) \/ Mark(p) \/ WriteMarker(p)
  BY <1>5, LookKeeps, ProjectKeeps, MarkKeeps, WriteMarkerKeeps
<1>6. CASE Advance(p) \/ RemoveCursor(p) \/ WriteCursor(p) \/ CheckLease(p)
  BY <1>6, AdvanceKeeps, RemoveCursorKeeps, WriteCursorKeeps, CheckLeaseKeeps
<1>7. CASE Fail(p) \/ Confirm(p) \/ Finalize(p)
  BY <1>7, FailKeeps, ConfirmKeeps, FinalizeKeeps
<1>. QED BY <1>1, <1>2, <1>3, <1>4, <1>5, <1>6, <1>7 DEF Step

\* The invariant holds of the cursor, the batches and the calls whatever dies, lapses
\* or fails.
THEOREM SyncInvariant == Spec => []SyncInv
<1>1. ASSUME SyncInv, Next PROVE SyncInv'
  <2>1. CASE Mailbox
    <3>1. TypeOK'
      <4>1. UNCHANGED <<cursor, facts, markers, view, artifact, gen, lease, announced, lock,
                        call, faults>>
        BY <2>1 DEF Mailbox, files, database
      <4>2. Len(feed) + 1 \in Nat /\ Removed \in Nat /\ feed \in Seq(Change)
        BY <1>1, FeedTyped DEF SyncInv, TypeOK, Removed
      <4>3. PICK x \in Change : feed' = Append(feed, x)
        BY <2>1, <4>2 DEF Mailbox, Add, Change
      <4>4. feed' \in Seq(Change)
        BY <4>2, <4>3
      <4>. QED BY <1>1, <4>1, <4>4 DEF SyncInv, TypeOK
    <3>. QED BY <1>1, <2>1, <3>1, MailboxKeeps
  <2>2. CASE \E p \in Process : Step(p) \/ Crash(p) \/ \E k \in Key : Claim(p, k)
    BY <1>1, <2>2, StepSync, CrashKeeps, ClaimKeeps
  <2>3. CASE Lapse
    BY <1>1, <2>3, LapseKeeps
  <2>. QED BY <1>1, <2>1, <2>2, <2>3 DEF Next
<1>2. SyncInv /\ [Next]_vars => SyncInv'
  BY <1>1, LapseKeeps
<1>. QED BY InitSync, <1>2, PTL DEF Spec

\* The rows and files of a scope keep their shape, and a call under way has a key.
THEOREM SyncTypes == Spec => []TypeOK
<1>1. SyncInv => TypeOK
  BY DEF SyncInv
<1>. QED BY <1>1, SyncInvariant, PTL

\* process_batch and commit_cursor: the cursor never passes a message of which no
\* generation has a fact in the store.
THEOREM CursorBehindFacts == Spec => []FactsBeforeCursor
<1>1. SyncInv => FactsBeforeCursor
  BY PassedIs DEF SyncInv, CursorOK, Covers, FactsBehindProjection, FactsBeforeCursor,
                  RecordIn, RecordOf
<1>. QED BY <1>1, SyncInvariant, PTL

\* stage_batch and finalize_generation: what the cursor has passed is announced or in
\* the records of a generation that was not completed.
THEOREM NothingLostUnseen == Spec => []NothingUnaccounted
<1>1. SyncInv => NothingUnaccounted
  BY PassedIs DEF SyncInv, CursorOK, Covers, NothingUnaccounted, Told
<1>. QED BY <1>1, SyncInvariant, PTL

\* process_batch: facts are there before projections and markers.
THEOREM ProjectionsHaveFacts == Spec => []FactsBehindProjection
<1>1. SyncInv => FactsBehindProjection
  BY DEF SyncInv
<1>. QED BY <1>1, SyncInvariant, PTL

\* finalize_generation: what is announced has its fact and was projected, also when the
\* cursor was found in place and the records were not looked at again.
THEOREM AnnouncementsAreApplied == Spec => []AnnouncedIsApplied
<1>1. SyncInv => AnnouncedIsApplied
  BY DEF SyncInv
<1>. QED BY <1>1, SyncInvariant, PTL


=============================================================================
