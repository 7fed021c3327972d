----------------------------- MODULE MailboxSync -----------------------------
(***************************************************************************)
(* Synchronisation of a mailbox scope: calls of mailbox_sync_generation,   *)
(* each with an idempotency key, copy what changed in a remote mailbox     *)
(* into four stores that no transaction spans.  A generation walks the     *)
(* delta of every folder from a cursor, fixes the result in an artifact,   *)
(* stages it in the domain database, ingests a fact and a projection for   *)
(* each record, moves the cursor file, and only then announces the         *)
(* messages it saw for the first time, in the transaction that completes   *)
(* it.  The message is in the feed once: when the cursor has passed it and *)
(* no generation announces it, nothing ever will.                          *)
(*                                                                         *)
(* Calls overlap: a lease in the database keeps other generations out      *)
(* until it lapses, a directory keeps other processes out of the files     *)
(* until it is taken for stale.                                            *)
(*                                                                         *)
(* Left out: the contents of messages, digests and fingerprints, paging    *)
(* and attachments of a walk, thread attention, and who reads the outbox.  *)
(* An assertion of the lease belongs to the step before it, so that what   *)
(* it guards may still come too late.                                      *)
(***************************************************************************)
EXTENDS Naturals, Sequences

CONSTANTS
    None,
    Message, Folder,
    Key,          \* idempotency keys, one generation each
    Process,
    MaxFeed,      \* bound: changes in the mailbox
    MaxFaults     \* bound: processes that die, requests, cursors and files refused, and
                  \* leases and locks that time out under a working process

ASSUME SyncAssumption ==
    /\ Folder # {}
    /\ None \notin Process \cup Key
    /\ MaxFeed \in Nat /\ MaxFaults \in Nat

VARIABLES
    feed,         \* what happened in the mailbox, oldest first
    cursor,       \* state/cursor.json: for each folder, one past the changes it covers
    facts,        \* .narada/facts.db: records, each under the generation that fetched it
    markers,      \* state/apply-log
    view,         \* messages/: the version of a message that is projected, or 0
    artifact,     \* generations/<id>.json: the batch of a generation
    gen,          \* mailbox_sync_generations, and the records still 'staged' in it
    lease,        \* mailbox_sync_scope_leases
    announced,    \* mailbox_message_observations, with the events of the outbox: the fact
                  \* that is cited for each message
    lock,         \* state/sync.lock, and who made it
    call,         \* the call each process is in
    faults

files == <<cursor, facts, markers, view, artifact>>
database == <<gen, lease, announced>>
vars == <<feed, files, database, lock, call, faults>>

(***************************************************************************)
(* The mailbox.  A change of a message gets a new version; a message that  *)
(* leaves a folder is listed there as removed, without one, and one that   *)
(* moves to another leaves first.                                          *)
(***************************************************************************)
Removed == 0

Change == [folder : Folder, message : Message, version : Nat]

\* The event a change is normalised to: a removal has no changeKey to tell it
\* from an earlier one.
Record == Message \X Nat

RecordOf(i) == <<feed[i].message, feed[i].version>>

Same(i, j) == feed[i].folder = feed[j].folder /\ feed[i].message = feed[j].message

\* The last change of each message of folder f among those before position c.
Latest(f, c) ==
    {i \in DOMAIN feed : /\ i < c /\ feed[i].folder = f
                         /\ \A j \in DOMAIN feed : i < j /\ j < c => ~Same(i, j)}

Changes(m) == {i \in DOMAIN feed : feed[i].message = m}

Last(m, i) == i \in Changes(m) /\ \A j \in Changes(m) : j <= i

\* The folder a message is in, as the last change of it says.
In(m, f) == \E i \in DOMAIN feed :
                Last(m, i) /\ feed[i].folder = f /\ feed[i].version # Removed

Outside(m) == \A f \in Folder : ~In(m, f)

Add(f, m, n) == [folder |-> f, message |-> m, version |-> n]

Mailbox ==
    /\ Len(feed) < MaxFeed
    /\ \E m \in Message, f \in Folder :
          \/ (Outside(m) \/ In(m, f)) /\ feed' = Append(feed, Add(f, m, Len(feed) + 1))
          \/ In(m, f) /\ feed' = Append(feed, Add(f, m, Removed))
    /\ UNCHANGED <<files, database, lock, call, faults>>

(***************************************************************************)
(* State                                                                   *)
(***************************************************************************)
Cursor == [Folder -> Nat]

NoCursor == [f \in Folder |-> 0]

Batch == [prior : Cursor, next : Cursor, records : SUBSET Record]

NoBatch == [prior |-> NoCursor, next |-> NoCursor, records |-> {}]

Written(k) == artifact[k].next # NoCursor

\* The digest that names a fact takes in the time of the fetch.  A generation has
\* its records from one fetch for good, so that the key tells its facts from those
\* another generation has of the same events; markers go by the event.
Fact == Key \X Record

Known == {fact[2] : fact \in facts}

Upserts(k) == {r \in artifact[k].records : r[2] # Removed}

\* The messages a generation has seen, removals aside.
Messages(k) == {r[1] : r \in Upserts(k)}

Observed == {fact[2][1] : fact \in announced}

NoLease == [key |-> None, token |-> None, live |-> FALSE]

NoGeneration == [status |-> "none", token |-> None, parent |-> NoCursor, pending |-> {}]

\* A call: where it is, the cursor and the status it read, the folders it has
\* walked (at, got), and the records it has still to process.
Idle == [pc |-> "idle", key |-> None, base |-> NoCursor, seen |-> "none",
         at |-> NoCursor, got |-> {}, todo |-> {}]

Inside == {"open", "fetching", "staging", "ingesting", "looking", "projecting", "marking",
           "logging", "advancing", "removing", "writing", "checking"}

Init ==
    /\ feed = <<>>
    /\ cursor = NoCursor
    /\ facts = {} /\ markers = {} /\ view = [m \in Message |-> 0]
    /\ artifact = [k \in Key |-> NoBatch]
    /\ gen = [k \in Key |-> NoGeneration]
    /\ lease = NoLease
    /\ announced = {}
    /\ lock = None
    /\ call = [p \in Process |-> Idle]
    /\ faults = 0

At(p, pc) == call[p].pc = pc

Own(p) == gen[call[p].key]

Mine(p) == artifact[call[p].key]

Goto(p, pc) == call' = [call EXCEPT ![p].pc = pc]

\* renew_lease looks for the row only, assert_lease also at the clock.
Holds(p) == lease.key = call[p].key /\ lease.token = p

Asserted(p) == Holds(p) /\ lease.live

Renewed(p) == Holds(p) /\ lease' = [lease EXCEPT !.live = TRUE]

\* release_lease
Release(p) ==
    /\ lease' = IF Holds(p) THEN NoLease ELSE lease
    /\ gen' = [gen EXCEPT ![call[p].key].token = IF @ = p THEN None ELSE @]

\* The guard of the lock is dropped: the directory goes, whoever made it.
Unlock(p) == lock' = IF call[p].pc \in Inside THEN None ELSE lock

\* The call returns an error.
Abandon(p) ==
    /\ Release(p)
    /\ Unlock(p)
    /\ call' = [call EXCEPT ![p] = Idle]
    /\ UNCHANGED <<feed, files, announced>>

(***************************************************************************)
(* claim_generation.  A generation that is completed or failed is          *)
(* replayed; a lease that is held refuses the call.                        *)
(***************************************************************************)
\* Fault: a lease that lapsed is refused as busy.
ClaimUnlapsed(p, k) ==
    /\ At(p, "idle")
    /\ gen[k].status \in {"none", "accepted", "staged"}
    /\ lease = NoLease
    /\ lease' = [key |-> k, token |-> p, live |-> TRUE]
    /\ gen' = [gen EXCEPT ![k].status = IF @ = "none" THEN "accepted" ELSE @, ![k].token = p]
    /\ call' = [call EXCEPT ![p] = [Idle EXCEPT !.pc = "reading", !.key = k]]
    /\ UNCHANGED <<feed, files, announced, lock, faults>>

Claim(p, k) ==
    /\ At(p, "idle")
    /\ gen[k].status \in {"none", "accepted", "staged"}
    /\ ~lease.live
    /\ lease' = [key |-> k, token |-> p, live |-> TRUE]
    /\ gen' = [gen EXCEPT ![k].status = IF @ = "none" THEN "accepted" ELSE @, ![k].token = p]
    /\ call' = [call EXCEPT ![p] = [Idle EXCEPT !.pc = "reading", !.key = k]]
    /\ UNCHANGED <<feed, files, announced, lock, faults>>

\* The cursor is read before the lock is taken.
ReadCursor(p) ==
    /\ At(p, "reading")
    /\ call' = [call EXCEPT ![p].pc = "inspecting", ![p].base = cursor]
    /\ UNCHANGED <<feed, files, database, lock, faults>>

\* Fault: any cursor but the parent is taken for the generation's own.
InspectForMoved(p) ==
    /\ At(p, "inspecting")
    /\ call' = [call EXCEPT
                  ![p].pc = IF Own(p).status = "staged" /\ call[p].base # Own(p).parent
                            THEN "reconciling" ELSE "locking",
                  ![p].seen = Own(p).status]
    /\ UNCHANGED <<feed, files, database, lock, faults>>

Overtaken(p) == Own(p).status = "staged" /\ call[p].base \notin {Mine(p).next, Own(p).parent}

\* A staged generation whose cursor is already in place is only completed; one
\* whose parent is not in place any more is refused.
Inspect(p) ==
    /\ At(p, "inspecting")
    /\ UNCHANGED faults
    /\ \/ /\ Own(p).status = "staged" /\ call[p].base = Mine(p).next
          /\ Asserted(p)
          /\ Goto(p, "reconciling")
          /\ UNCHANGED <<feed, files, database, lock>>
       \/ /\ Own(p).status = "staged" /\ call[p].base = Mine(p).next
          /\ ~Asserted(p)
          /\ Abandon(p)
       \/ Overtaken(p) /\ Abandon(p)
       \/ /\ ~Overtaken(p)
          /\ Own(p).status = "staged" => call[p].base # Mine(p).next
          /\ call' = [call EXCEPT ![p].pc = "locking", ![p].seen = Own(p).status]
          /\ UNCHANGED <<feed, files, database, lock>>

Reconcile(p) ==
    /\ At(p, "reconciling")
    /\ gen' = [gen EXCEPT ![call[p].key].pending = {}]
    /\ Goto(p, "finalizing")
    /\ UNCHANGED <<feed, files, lease, announced, lock, faults>>

(***************************************************************************)
(* SyncLock                                                                *)
(***************************************************************************)
Acquire(p) ==
    /\ At(p, "locking")
    /\ lock = None
    /\ lock' = p
    /\ Goto(p, "open")
    /\ UNCHANGED <<feed, files, database, faults>>

AcquireTimeout(p) ==
    /\ At(p, "locking")
    /\ lock # None
    /\ Abandon(p)
    /\ UNCHANGED faults

Deserted == lock # None /\ call[lock].pc \notin Inside

\* A directory that is an hour old is taken for stale, although its maker may
\* be at work, and removed in a second step, although it may be another by then.
SeeStale(p) ==
    /\ At(p, "locking")
    /\ \/ Deserted /\ UNCHANGED faults
       \/ /\ lock # None /\ ~Deserted
          /\ faults < MaxFaults /\ faults' = faults + 1
    /\ Goto(p, "breaking")
    /\ UNCHANGED <<feed, files, database, lock>>

BreakLock(p) ==
    /\ At(p, "breaking")
    /\ lock' = None
    /\ Goto(p, "locking")
    /\ UNCHANGED <<feed, files, database, faults>>

(***************************************************************************)
(* The batch                                                               *)
(***************************************************************************)
\* The records of a batch are processed in the order of the digests that name
\* them: the model takes any order.
Begin(p) ==
    call' = [call EXCEPT ![p].pc = IF Mine(p).records = {} THEN "advancing" ELSE "ingesting",
                         ![p].at = NoCursor, ![p].got = {},
                         ![p].todo = Mine(p).records]

\* A staged generation keeps its batch, and so does one that died before it
\* could stage it; only one without an artifact asks the source.
Open(p) ==
    /\ At(p, "open")
    /\ \/ call[p].seen = "staged" /\ Begin(p)
       \/ call[p].seen # "staged" /\ Written(call[p].key) /\ Goto(p, "staging")
       \/ call[p].seen # "staged" /\ ~Written(call[p].key) /\ Goto(p, "fetching")
    /\ UNCHANGED <<feed, files, database, lock, faults>>

\* Fault: the change next to the cursor is passed over.
DeltaPastNext(f, c) ==
    {RecordOf(i) : i \in {j \in Latest(f, Len(feed) + 1) :
        /\ j > c
        /\ feed[j].version = Removed => \E before \in Latest(f, c) : Same(before, j)}}

\* What the source lists for folder f from position c: the messages that changed,
\* and of those it listed before also the ones that were removed.
Delta(f, c) ==
    {RecordOf(i) : i \in {j \in Latest(f, Len(feed) + 1) :
        /\ j >= c
        /\ feed[j].version = Removed => \E before \in Latest(f, c) : Same(before, j)}}

Walk(p, f, c) ==
    /\ Renewed(p)
    /\ call' = [call EXCEPT ![p].at[f] = Len(feed) + 1, ![p].got = @ \cup Delta(f, c)]

\* fetch_graph_batch, one folder at a time; a cursor the source has forgotten
\* is replaced by a walk of the whole folder.
FetchFolder(p, f) ==
    /\ At(p, "fetching")
    /\ call[p].at[f] = 0
    /\ \/ Walk(p, f, call[p].base[f]) /\ UNCHANGED faults
       \/ /\ faults < MaxFaults /\ faults' = faults + 1
          /\ call[p].base[f] # 0
          /\ Walk(p, f, 0)
    /\ UNCHANGED <<feed, files, gen, announced, lock>>

\* The tree of the mailbox cannot be tidied or made, or the artifact not be read.
OpenFails(p) ==
    /\ At(p, "open")
    /\ faults < MaxFaults /\ faults' = faults + 1
    /\ Abandon(p)

FetchFails(p) ==
    /\ At(p, "fetching")
    /\ \/ ~Holds(p) /\ UNCHANGED faults
       \/ faults < MaxFaults /\ faults' = faults + 1
    /\ Abandon(p)

\* write_generation_artifact never replaces one.
WriteArtifact(p) ==
    /\ At(p, "fetching")
    /\ \A f \in Folder : call[p].at[f] # 0
    /\ UNCHANGED faults
    /\ \/ /\ ~Written(call[p].key)
          /\ artifact' = [artifact EXCEPT ![call[p].key] =
                            [prior |-> call[p].base, next |-> call[p].at,
                             records |-> call[p].got]]
          /\ Goto(p, "staging")
          /\ UNCHANGED <<feed, cursor, facts, markers, view, database, lock>>
       \/ Written(call[p].key) /\ Abandon(p)

\* The parent of a batch that was fetched without a cursor is the cursor there is.
Parent(p) == IF Mine(p).prior = NoCursor THEN call[p].base ELSE Mine(p).prior

\* stage_batch
Stageable(p) ==
    /\ Parent(p) = call[p].base
    /\ \/ Own(p).status = "accepted" /\ Own(p).token = p
       \/ Own(p).status = "staged" /\ Own(p).parent = Parent(p)

Stage(p) ==
    /\ At(p, "staging")
    /\ UNCHANGED faults
    /\ \/ /\ Stageable(p)
          /\ gen' = IF Own(p).status = "staged" THEN gen
                    ELSE [gen EXCEPT ![call[p].key].status = "staged",
                                     ![call[p].key].parent = Parent(p),
                                     ![call[p].key].pending = Mine(p).records]
          /\ Begin(p)
          /\ UNCHANGED <<feed, files, lease, announced, lock>>
       \/ ~Stageable(p) /\ Abandon(p)

(***************************************************************************)
(* process_batch, under the lock.  An error marks the generation failed,   *)
(* after the lock is dropped.                                              *)
(***************************************************************************)
Quit(p) ==
    /\ lock' = None
    /\ Goto(p, "failing")
    /\ UNCHANGED <<feed, files, database>>

\* A file cannot be read or written.
FileError(p) ==
    /\ call[p].pc \in {"ingesting", "looking", "projecting", "logging", "removing", "writing"}
    /\ faults < MaxFaults /\ faults' = faults + 1
    /\ Quit(p)

\* Fault: facts are told apart by their message, not by its version.
IngestByMessage(p) ==
    /\ At(p, "ingesting")
    /\ Renewed(p)
    /\ \E r \in call[p].todo :
          /\ facts' = IF \E s \in Known : s[1] = r[1] THEN facts
                      ELSE facts \cup {<<call[p].key, r>>}
          /\ call' = [call EXCEPT ![p].pc = "looking", ![p].got = {r}]
    /\ UNCHANGED <<feed, cursor, markers, view, artifact, gen, announced, lock, faults>>

\* The fact first, whatever the markers say.  The lease is renewed before the
\* first record; that it is again before every tenth is left out.
Ingest(p) ==
    /\ At(p, "ingesting")
    /\ UNCHANGED faults
    /\ \/ /\ call[p].todo = Mine(p).records /\ ~Holds(p)
          /\ Quit(p)
       \/ /\ IF call[p].todo = Mine(p).records THEN Renewed(p) ELSE UNCHANGED lease
          /\ \E r \in call[p].todo :
                /\ facts' = facts \cup {<<call[p].key, r>>}
                /\ call' = [call EXCEPT ![p].pc = "looking", ![p].got = {r}]
          /\ UNCHANGED <<feed, cursor, markers, view, artifact, gen, announced, lock>>

NextRecord(p) ==
    call' = [call EXCEPT ![p].todo = @ \ call[p].got, ![p].got = {},
                         ![p].pc = IF call[p].todo = call[p].got
                                   THEN "advancing" ELSE "ingesting"]

Applied(p) == gen' = [gen EXCEPT ![call[p].key].pending = @ \ call[p].got]

\* A marker says that the record was projected before.
Look(p) ==
    /\ At(p, "looking")
    /\ UNCHANGED faults
    /\ \/ /\ call[p].got \subseteq markers
          /\ Applied(p)
          /\ NextRecord(p)
          /\ UNCHANGED <<feed, files, lease, announced, lock>>
       \/ /\ ~(call[p].got \subseteq markers)
          /\ Asserted(p)
          /\ Goto(p, "projecting")
          /\ UNCHANGED <<feed, files, database, lock>>
       \/ ~(call[p].got \subseteq markers) /\ ~Asserted(p) /\ Quit(p)

\* project_record, and the assertion of the lease behind it
Project(p) ==
    /\ At(p, "projecting")
    /\ \E r \in call[p].got : view' = [view EXCEPT ![r[1]] = r[2]]
    /\ \/ Asserted(p) /\ Goto(p, "marking") /\ UNCHANGED lock
       \/ ~Asserted(p) /\ Goto(p, "failing") /\ lock' = None
    /\ UNCHANGED <<feed, cursor, facts, markers, artifact, database, faults>>

\* mark_record_application
Mark(p) ==
    /\ At(p, "marking")
    /\ Applied(p)
    /\ Goto(p, "logging")
    /\ UNCHANGED <<feed, files, lease, announced, lock, faults>>

WriteMarker(p) ==
    /\ At(p, "logging")
    /\ markers' = markers \cup call[p].got
    /\ NextRecord(p)
    /\ UNCHANGED <<feed, cursor, facts, view, artifact, database, lock, faults>>

Advance(p) ==
    /\ At(p, "advancing")
    /\ UNCHANGED faults
    /\ \/ /\ Renewed(p)
          /\ Goto(p, "removing")
          /\ UNCHANGED <<feed, files, gen, announced, lock>>
       \/ ~Holds(p) /\ Quit(p)

\* commit_cursor takes the old file away before it puts the new one in place.
RemoveCursor(p) ==
    /\ At(p, "removing")
    /\ cursor' = NoCursor
    /\ Goto(p, "writing")
    /\ UNCHANGED <<feed, facts, markers, view, artifact, database, lock, faults>>

WriteCursor(p) ==
    /\ At(p, "writing")
    /\ cursor' = Mine(p).next
    /\ Goto(p, "checking")
    /\ UNCHANGED <<feed, facts, markers, view, artifact, database, lock, faults>>

\* The lease is asserted once more, although the cursor is in place.
CheckLease(p) ==
    /\ At(p, "checking")
    /\ UNCHANGED faults
    /\ \/ /\ Asserted(p)
          /\ lock' = None
          /\ Goto(p, "confirming")
          /\ UNCHANGED <<feed, files, database>>
       \/ ~Asserted(p) /\ Quit(p)

\* Fault: a generation that failed can be claimed again.
FailAccepted(p) ==
    /\ At(p, "failing")
    /\ Own(p).token = p
    /\ gen' = [gen EXCEPT ![call[p].key].status = "accepted", ![call[p].key].token = None]
    /\ lease' = IF Holds(p) THEN NoLease ELSE lease
    /\ call' = [call EXCEPT ![p] = Idle]
    /\ UNCHANGED <<feed, files, announced, lock, faults>>

\* fail_generation, or the error of having lost the generation
Fail(p) ==
    /\ At(p, "failing")
    /\ UNCHANGED faults
    /\ \/ /\ Own(p).token = p
          /\ gen' = [gen EXCEPT ![call[p].key].status = "failed", ![call[p].key].token = None]
          /\ lease' = IF Holds(p) THEN NoLease ELSE lease
          /\ call' = [call EXCEPT ![p] = Idle]
          /\ UNCHANGED <<feed, files, announced, lock>>
       \/ Own(p).token # p /\ Abandon(p)

(***************************************************************************)
(* finalize_generation                                                     *)
(***************************************************************************)
Confirm(p) ==
    /\ At(p, "confirming")
    /\ UNCHANGED faults
    /\ IF Own(p).status = "staged" /\ cursor = Mine(p).next
       THEN Goto(p, "finalizing") /\ UNCHANGED <<feed, files, database, lock>>
       ELSE Abandon(p)

\* Every message of the generation is looked up in the fact store, by the fact of
\* its own fetch: a generation that found the cursor at its own next one, put there
\* by another, is refused when it has not stored its facts itself.
Finalizable(p) ==
    /\ Own(p).status = "staged" /\ Own(p).pending = {} /\ Own(p).token = p
    /\ {call[p].key} \X Upserts(call[p].key) \subseteq facts

\* A message is announced once, with the first of its records.
Announce(k) ==
    \E first \in [Messages(k) \ Observed -> Upserts(k)] :
        /\ \A m \in DOMAIN first : first[m][1] = m
        /\ announced' = announced \cup {<<k, first[m]>> : m \in DOMAIN first}

Finalize(p) ==
    /\ At(p, "finalizing")
    /\ UNCHANGED faults
    /\ \/ /\ Finalizable(p)
          /\ Announce(call[p].key)
          /\ gen' = [gen EXCEPT ![call[p].key].status = "completed",
                                ![call[p].key].token = None]
          /\ lease' = IF Holds(p) THEN NoLease ELSE lease
          /\ call' = [call EXCEPT ![p] = Idle]
          /\ UNCHANGED <<feed, files, lock>>
       \/ ~Finalizable(p) /\ Abandon(p)

(***************************************************************************)
(* Time and failure                                                        *)
(***************************************************************************)
\* A process dies: its lease, its lock and what it wrote stay.
Crash(p) ==
    /\ ~At(p, "idle")
    /\ faults < MaxFaults /\ faults' = faults + 1
    /\ call' = [call EXCEPT ![p] = Idle]
    /\ UNCHANGED <<feed, files, database, lock>>

Forsaken == lease.live /\ (lease.token = None \/ call[lease.token].key # lease.key)

Lapse ==
    /\ \/ Forsaken /\ UNCHANGED faults
       \/ /\ lease.live /\ ~Forsaken
          /\ faults < MaxFaults /\ faults' = faults + 1
    /\ lease' = [lease EXCEPT !.live = FALSE]
    /\ UNCHANGED <<feed, files, gen, announced, lock, call>>

Step(p) ==
    \/ ReadCursor(p) \/ Inspect(p) \/ Reconcile(p)
    \/ Acquire(p) \/ AcquireTimeout(p) \/ SeeStale(p) \/ BreakLock(p)
    \/ Open(p) \/ OpenFails(p)
    \/ (\E f \in Folder : FetchFolder(p, f)) \/ FetchFails(p)
    \/ WriteArtifact(p) \/ Stage(p)
    \/ FileError(p) \/ Ingest(p) \/ Look(p) \/ Project(p) \/ Mark(p) \/ WriteMarker(p)
    \/ Advance(p) \/ RemoveCursor(p) \/ WriteCursor(p) \/ CheckLease(p)
    \/ Fail(p) \/ Confirm(p) \/ Finalize(p)

Next ==
    \/ Mailbox
    \/ \E p \in Process : Step(p) \/ Crash(p) \/ \E k \in Key : Claim(p, k)
    \/ Lapse

Spec == Init /\ [][Next]_vars

(***************************************************************************)
(* Fairness: a process that lives goes on; what nobody holds any more      *)
(* times out; and every caller repeats its key until it finds the lease    *)
(* free, as the action it belongs to is retried.                           *)
(***************************************************************************)
Work(p) == Step(p) /\ UNCHANGED faults

Fairness ==
    /\ \A p \in Process : WF_vars(Work(p))
    /\ WF_vars(Lapse /\ UNCHANGED faults)
    /\ \A p \in Process : SF_vars(SeeStale(p) /\ UNCHANGED faults)
    /\ \A k \in Key : SF_vars(\E p \in Process : Claim(p, k))

FairSpec == Spec /\ Fairness

-----------------------------------------------------------------------------
Statuses == {"none", "accepted", "staged", "completed", "failed"}

Calls == [pc : Inside \cup {"idle", "reading", "inspecting", "reconciling", "locking",
                            "breaking", "failing", "confirming", "finalizing"},
          key : Key \cup {None}, base : Cursor, seen : Statuses,
          at : Cursor, got : SUBSET Record, todo : SUBSET Record]

\* The state of the scope is well formed, and a call that is under way has a key.
TypeOK ==
    /\ feed \in Seq(Change)
    /\ cursor \in Cursor
    /\ facts \subseteq Fact /\ markers \subseteq Record
    /\ view \in [Message -> Nat]
    /\ artifact \in [Key -> Batch]
    /\ gen \in [Key -> [status : Statuses, token : Process \cup {None},
                        parent : Cursor, pending : SUBSET Record]]
    /\ lease \in [key : Key \cup {None}, token : Process \cup {None}, live : BOOLEAN]
    /\ lease.live => lease.token # None
    /\ announced \subseteq Fact
    /\ lock \in Process \cup {None}
    /\ call \in [Process -> Calls]
    /\ \A p \in Process : call[p].pc # "idle" => call[p].key \in Key
    /\ faults \in Nat

\* The changes a cursor has passed, the last of each message in each folder.
Passed(c) == {i \in DOMAIN feed : /\ feed[i].version # Removed
                                  /\ i \in Latest(feed[i].folder, c[feed[i].folder])}

\* process_batch: the cursor file never passes a message of which no generation
\* has a fact in the store, whichever processes died, lost their lease or had their
\* lock broken, and whatever became of the generation that moved it.
FactsBeforeCursor == \A i \in Passed(cursor) : RecordOf(i) \in Known

\* A message is accounted for once it is announced, or a generation that was
\* not completed has it in its staged records.
Accounted(m) ==
    \/ m \in Observed
    \/ \E k \in Key : gen[k].status \in {"staged", "failed"} /\ m \in Messages(k)

\* stage_batch and finalize_generation: the cursor file never passes a message
\* that is neither announced nor in a generation somebody can find in the
\* database: what is lost is not lost without a trace.
NothingUnaccounted == \A i \in Passed(cursor) : Accounted(feed[i].message)

\* process_batch: whatever is projected, and whatever a marker lets the next
\* generations skip, has its fact in the store.
FactsBehindProjection ==
    /\ markers \subseteq Known
    /\ \A m \in Message : view[m] # 0 => <<m, view[m]>> \in Known

\* finalize_generation: what is announced cites a fact that is in the store, and
\* its message was projected and has its marker, also when the generation found the
\* cursor in place and did not look at its records again.
AnnouncedIsApplied ==
    \A fact \in announced : fact \in facts /\ fact[2] \in markers

\* Every call of a staged generation is refused: its cursor is neither its parent nor
\* its own, or its own was put in place by another before its facts were stored.
Stuck(k) ==
    /\ gen[k].status = "staged"
    /\ IF cursor = artifact[k].next THEN ~({k} \X Upserts(k) \subseteq facts)
       ELSE cursor # gen[k].parent

\* sync_generation: a key that was accepted comes to an end, completed, failed
\* or refused for ever because another generation moved the cursor.
GenerationsSettle ==
    \A k \in Key : gen[k].status # "none" ~>
        (gen[k].status \in {"completed", "failed"} \/ Stuck(k))

=============================================================================
