# Verification of mcp-surfaces

TLA+ models of the parts of this repository that have to be right when several
processes, lost calls, crashes and long delays meet: the scheduler's activation
store, the SOP engine it starts runs on and the dispatcher between the two; the
event ledger and the domains that share it; the engine that runs surfaces
for sessions; the tickets of the work lifecycle with the mail drafts that
answer them; and the synchronisation of a mailbox. Small instances are model-checked with TLC, and
the safety of each of them is proved for every value of the constants with TLAPS.

## 1. The system

The repository is a collection of MCP servers ("surfaces") and the machinery
that builds, starts and connects them. Paths below are relative to `src/`; `N`
stands for `packages/shared/mcp-surfaces-native/native/src`.

| Component | State it keeps | Operations | Hard behaviour |
|---|---|---|---|
| Scheduler activation store (`N/scheduler_activation/parts`, and its TypeScript form `packages/scheduler-mcp/src/activation-store.ts`) | SQLite: bindings, source events, activations, receipts | upsert, pause, resume, retire; admit an event; claim, admit to a SOP run, fail, resolve, unblock | leases that expire, several consumers, replays, a clock read before the write lock |
| SOP dispatcher (`packages/scheduler-mcp/src/sop-activation-dispatcher.ts`) | nothing; one pass per start | terminal events to the store, reconciliation, claims and starts | every call may be lost on the way there or back; passes overlap and die |
| SOP engine (`N/sop_engine/parts`) | runs, steps, actions, children | start, advance, resolve, retry, cancel | one run per occurrence, reconciliation of run trees, retry of a failed handoff |
| SOP authority (`N/sop_authority/parts`) | templates, handoffs, outbox, consumers | template versions, handoff leases, list, acknowledge, compact | lease fencing, at-least-once delivery |
| Ticket draft reconciler (`packages/scheduler-mcp/src/ticket-draft-disposition-reconciler.ts`) | nothing; one pass per start | scan, list, reconcile, acknowledge | lost replies, passes that die between a reconciliation and its acknowledgement |
| Domain outbox dispatcher (`packages/scheduler-mcp/src`) | nothing | mail and domain events to the store | pages with failing events at their head |
| Event ledger and ledger domains (`packages/shared/event-ledger-native`, `packages/ledger-domain-mcp`) | proposals, reviews, an append-only chain of event files, markers, a projection, two file locks | submit, review, admit, read, capture a frontier | processes that die between two files, lock order, reads with and without locks, retries by key |
| Surface runtime engine (`packages/shared/mcp-surface-runtime/src/engine.ts`) | instances with generations, handles, starts and replacements under way | acquire, invoke, replace, release, close | state read before an `await` and used after it, waits that depend on each other |
| Task and work lifecycle (`packages/shared/mcp-lifecycle-native`, `packages/work-lifecycle-mcp`) | SQLite: tickets with revisions, sources and their correlation keys, proposals, claims, drafts, tasks | admit a source, read a context, admit a proposal, record a receipt, reconcile a disposition, end a task | messages, late receipts, dispositions of old drafts and ends of tasks in any order |
| Ticket drafts of graph mail (`N/graph_mail_authority/parts/07.rs` to `10.rs`) | SQLite: draft operations, discard intents, observations; a mailbox on the other side | upsert, discard, scan, list, acknowledge | a transaction held open over calls to a mailbox that people use meanwhile |
| Mailbox store and sync (`N/mailbox_sync/parts`, `N/mailbox`) | SQLite: generations, their records, leases, observations, outbox; a fact store; files: cursor, artifacts, markers, projections, a lock directory | sync a generation; read tools, admission of messages, consumers | four stores without a common transaction, leases and locks that time out under a working process, deaths between any two writes, folders read one by one |
| Runtime proxy, loader | generations, child processes | replace, route, attach | state read before an `await` and used after it |
| Delegated tasks and workers | task records | start, cancel, collect | cancellation racing completion |
| Everything else (mail, calendar, speech, browser, Git, files, registrar, compiler, contracts, telemetry, ...) | files or none | mostly one step per call | little or none |

The interactions that matter here:

    source events ──► activation store ◄── operators (pause, unblock, ...)
                          ▲   │ claim
       event_admit,       │   ▼
       resolve         dispatcher ── sop_run_start ──► SOP engine
                          │  ▲                            │ a run ends
                          │  └───── sop_outbox_list ◄── outbox
                          └──────── sop_outbox_ack ──────►

    messages ──► work lifecycle ──── proposal, claim ───► author
                   ▲        ▲                               │ ticket_draft_upsert
                   │        └────── receipt ──────────┐     ▼ ticket_draft_discard
                reconcile                             draft authority ◄──► mailbox ◄── people
                   │                                     │
                ticket draft reconciler ◄── scan, list ──┘── ack ──►

What makes each part correct:

* store: at most one activation of a lane (a singleton binding, or one
  partition of a partitioned one) is leased or admitted; a stale lease token is
  useless for ever; run, outcome and receipts tell one story; a pause stops what
  has not started and nothing else; nothing starts before it is due; no live
  lease is taken over;
* SOP engine and outbox: no run is left without something to wait for, nothing is carried out before what it depends on, no
  work is offered that nobody wants; a run tells how it ended, and not otherwise
  once somebody acted on that; no payload goes before it was read;
* ledger: the chain verifies whoever dies when; a proposal is admitted once, a key
  names one admission, also after a crash between event and marker; what is refused
  for good is never admitted; a page is of the head it is reported with; no two calls
  wait for each other's lock;
* surface engine: who holds a handle has a running worker, a call runs on the
  generation it is counted on, every wait ends, and a disposal waits for what is
  under way;
* tickets: what a ticket waits for is there, and work that is due was announced
  at the ticket's present revision; a conversation has one ticket;
* drafts: a disposition is evidence of what became of the messages of its
  operation that the mailbox can still show, and it is acknowledged only when its
  ticket has it;
* mailbox: the cursor never passes a message of which no generation has stored a
  fact, or that no generation tells of; a marker and a projection have a fact; what is
  announced cites a fact of its own and was projected; a generation that was accepted
  comes to an end;
* dispatcher: an event is acknowledged only after it was admitted, it is
  delivered in the end, an activation is linked to the run of its own
  occurrence, and its lane is released once that run is over.

`PROJECT.json` lists every component and, under `hazards`, what is hard to test
in this code, at its line, with the property that covers it or the reason why
none does.

## 2. The modules

| Module | Stands for | State and actions |
|---|---|---|
| `ActivationLanes` | the promise of the store: activations wait, take a lane, are committed to a run and leave | `stage`, `lane`, `run` |
| `ActivationStore` | `scheduler_activation/parts` without the clock | one function per table, one action per tool call |
| `SchedulerActivation` | the same with the clock: due times, lease ends, backoff, calls that waited for the lock | adds `clock`, `due`, `expires`; each `...Now` action is the action of `ActivationStore` plus its times |
| `SopOccurrences` | what a SOP server shows to those who start runs and read its outbox | templates, runs, terminal events, acknowledgements |
| `SchedulerSopDispatch` | store and SOP server with dispatcher passes between them | adds `pass` (a program counter and what the pass remembers) and `faults` |
| `SopRunLife` | the promise of the SOP engine: runs live, end and are told of | `stage`, `told`, `consumed` |
| `SopEngine` | `sop_engine/parts`, and the handoffs and outbox of `sop_authority/parts` | one function per table, one action per tool call |
| `AdmissionRegister` | the promise of a ledger: admissions recorded and confirmed, calls refused for good or put off | `base`, `record`, `answer` |
| `LedgerDomain` | `event-ledger-native` and the proposal life of `ledger-domain-mcp` | files, two locks, `call` (where each process is) and `answer` (what the step tells a caller); one action per file operation |
| `SurfaceRuntime` | `mcp-surface-runtime/src/engine.ts` | instances, handles, calls, running workers; one action per stretch between two waits |
| `WorkTickets` | the ticket calls of `work_impl/parts` in `mcp-lifecycle-native` | one function per table, one action per call |
| `TicketDrafts` | `WorkTickets` with the draft authority, the mailbox and the reconciler | adds `mail`, the authority's tables, `store` (who holds its transaction, and where it is), `pass` (where the reconciler is) and `faults` |
| `MailboxSync` | `mailbox_sync/parts`, with the remote mailbox as its environment | the remote feed, one variable per file or table, `call` (where each process is); one action per effect |
| `...MC` | small instances | |
| `ActivationStoreProofs`, `SchedulerActivationProofs`, `LedgerDomainProofs`, `SurfaceRuntimeProofs`, `TicketDraftsProofs`, `MailboxSyncProofs`, `SchedulerSopDispatchProofs`, `SopEngineProofs` | proofs | |

`ActivationStore` is extended by `SchedulerActivation` and by
`SchedulerSopDispatch`; the latter instantiates `SopOccurrences`;
`ActivationStore` instantiates `ActivationLanes`, `SopEngine` `SopRunLife` and
`LedgerDomain` `AdmissionRegister`. `TicketDrafts` extends `WorkTickets`.
`MailboxSync` stands alone. The SOP server is modelled twice: from
inside in `SopEngine`, and as its client sees it in `SopOccurrences`.

**The store.** A tool call is one `begin immediate` transaction, so it is one
action; a refused call rolls back and is no step. The sweep of expired leases is
part of the claim, as in the code, also of a claim that finds nothing. An
activation id is a hash of binding and event, and the table is unique in the
pair, so an activation *is* the pair. A lease token is a fresh UUID: the number
of the lease. Which leases are expired and which activation is due is arbitrary
in `ActivationStore` and decided by the clock in `SchedulerActivation`, where a
call uses a reading up to `MaxWait` old. Only `require_leased` reads the clock
inside the transaction.

The authority that runs is the Rust one; the TypeScript store makes the same
transitions on the same tables and is not modelled a second time. The upgrade of
a version 1 database returns leases without token to `pending`, before any state
modelled here.

**The dispatcher.** Every fabric call of a pass is a step. It is accepted with
its effect, or refused, or lost on the way there, or its reply is lost; the pass
sees the last three alike (operator `Call`). `scheduler_event_show` is
merged into the start: it reads a row that never changes. A lease may run out at
any moment. A claim whose reply is lost leaves a lease nobody has the token of.

**The SOP server.** A live run ends at some moment with some outcome. Retrying
the failed handoff of an ended run revives it, and deletes its terminal event,
while nobody has acknowledged that event; afterwards it starts another run. What
happens inside a run is left out here.

**The SOP engine.** A run is a template being carried out: its steps wait for one
another and are done by the engine, by whoever leases a handoff, by an action
dispatcher or by a child run. Each tool call is one transaction that ends with
the reconciliation of the run, its ancestors and the children it looks at;
`LookedAt`, `Reconciled` and `StepAfter` compute it as the code's recursion does,
and `Commit` applies it. Only `action_resolve` is two transactions, so a crash
between them (`ActionReconcileLost`) is a step. Run keys made by digest
(children, retries as a new run) are opaque: `Place` says what went into each. No
child is admitted below a run of its own SOP (`assert_no_recursive_child`), so the runs
above a run are no more than there are SOPs (`NestingAssumption`); a template whose
child step would be refused for that reason is not among the model's.
Leases of handoffs run out at any moment; consumers register with a start
boundary, acknowledge and compact. Results are data the model does not keep,
except that one may be refused by its schema (`unfit`).

**The ledger.** Processes share files and two file locks, nothing else. A call is
a sequence of file operations, and every one of them is a step; after each the
process may die, the operation fail or a lock not be had within its ten seconds
(`Abandon`): locks are released, files stay. Proposals, events and markers are written
aside and linked into place (`io.rs` `write_new`), so they are there whole or not at
all, and a second writer of the same name fails. A review is not: it is truncated and
written in place (`write_replace_json`), by a review or a contribution without any
lock, also over the review of an admitted proposal. So a review is three steps (the
head is looked up for the verdict, the file is opened, the file is written), and the
file may be left empty by a death or torn by two writers. A contribution that finds
its proposal admitted reads that file and fails while it does not parse; the admission
itself, under its key, replays all the same. `Contribute` goes on from submission to
review to admission; `Review` and `Admit` are the calls on their own. The lookup of a
head and the file it is used for are separate steps. An admission is refused for good
when its key names another admission or its proposal's head has passed; it is put off
when only the caller expects another head (`HeadConflict`) or a reference is not found
(`Abandon`), and may then come back under the same key. The refresh of the projection,
under a lock of its own, is one step: SQLite makes the fold atomic and a rebuild is
renamed into place. Of the readers there are the stable read (both locks), which the
queries, exports, neighborhoods, concepts and snapshots go through, and the frontier
capture, which holds neither while it reads. Status reports, `issue_tree_resume` and
the preflight of a migration read without locks too; they change no file that another
call reads, and no property is claimed of them. The hash of an
event is what tells it apart: its sequence number and its proposal.

**The surface engine.** One JavaScript thread runs everything, so a step is what
happens from one wait (on a worker, a timer, a caller) to the next; a promise that
is resolved on the way wakes its waiters within the step, and a wait for a drain
that finds nothing in flight does not wait. Polls of a drain are steps of
their own: what another session does between the last answer and the next poll is
what makes release hard. A generation is the number of its worker. `close` forgets
the handles; those who had them (`cleared`) still wait for their calls.

**The tickets.** A call is one transaction, so it is one action. A ticket is named
for the source that opened it; the id of a claim, a draft and a task is a digest of
the proposal's idempotency key, so a proposal names all three. Every
transition is a new revision (`native_work_transition`). A proposal is admitted
against the revision its author read (`Current`), a claim belongs to the revision
its proposal led to (`Claimed`): whether a receipt still counts is decided by that
number alone, and what `TicketsBacked` says is that the number decides it
rightly. Work is announced by an event on a topic of work due; `due` keeps the
revision of the last one. Replays under an idempotency key return what is stored and
are no step. The statuses of tasks are reduced to what the tickets' trigger
tells apart.

**The drafts.** The authority opens its transaction before it calls the mailbox
and commits after, so nobody else writes its tables meanwhile, but the mailbox
is changed call by call, and people send and delete what is in it and delete what they
have sent (`Human`). `store` says where the holder is; `Rollback` ends it at any point and undoes nothing that is in
the mailbox. An intent is `verified` in the code only inside that transaction, which
is why no action sets it: it is committed as `completed` or rolled back. A
scan and an acknowledgement are transactions of their own and wait for the lock.
A pass of the reconciler is one call per step; each may fail before or after its
effect, and the pass may die. The scan takes the oldest operations without an
observation and a list the oldest without acknowledgement, `Page` of them. A
disposition's idempotency key is that of its observation, and a draft has one
observation, so a repeated reconciliation is a stutter on the tickets.

**The mailbox.** A call of `mailbox_sync_generation` writes to four places that
share no transaction, so each write is a step, and after each the process may die, a
file be refused or the lease lapse. An assertion of the lease belongs to the step
before it, so that a write it guards may still come after a lapse; a renewal belongs to
the fetch or the fact behind it. The check for an artifact and its rename are one
step. A process is in one call at
a time, so a lease token is its process: every check names the generation as well. The id
of a fact digests the time of its fetch, so two generations that fetch one change have
two facts of it; a generation keeps the artifact of its first complete fetch for good, so its key
stands for the fetch and a fact is a key with a record. Markers and projections go by
the event alone. `Finalize` looks up the generation's own facts, and refuses when
one is missing. A renewal of the lease before every tenth record is modelled for the
first. A call that finalizes a generation somebody else has completed is told so in
the code and is an `Abandon` in the model; the tables are the same. A
delta link is a position in the feed of changes: what a folder lists from there is the
last change of each message, and a removal only of what it listed before. A removal has
no change key, so it is version 0 of its message. Records are applied in any order, as
the digests that order them are arbitrary. The lock is a directory: it is seen as stale
in one step and removed in the next, by whoever saw it, and the guard that made one
removes whatever is there when it is dropped. A cursor the source has forgotten (410)
is replaced by a walk of the whole folder.

## 3. The runs

| Run | Module / configuration | Instance | Shows |
|---|---|---|---|
| `store` | `ActivationStoreMC` / `ActivationStore.cfg` | one binding that may be singleton or partitioned, two events one of which comes with two contents, two consumers, three leases | lane exclusivity, whole leases, audit trail, provenance, fenced tokens, pauses, refinement of `ActivationLanes` |
| `timed` | `SchedulerActivationMC` / `SchedulerActivation.cfg` | four ticks, waits of one tick, leases of two, two backoffs | nothing early, live leases kept, granted leases usable |
| `dispatch` | `SchedulerSopDispatchMC` / `SchedulerSopDispatch.cfg` | two overlapping passes, a seed event whose run's end starts a second binding, two faults | acknowledged means admitted, links agree |
| `dispatch_live` | `... / SchedulerSopDispatchLive.cfg` | one pass, two template versions, one handoff retry, two faults | every event delivered, every admitted activation resolved |
| `reopened_event` | `... / SchedulerSopDispatchReopened.cfg` | as small as it can be | finding 2 of section 6 |
| `sop` | `SopEngineMC` / `SopEngine.cfg` | one of two occurrences: a handoff, an action and a child side by side; a child whose handoff is retried as a new run; two outbox consumers, three claims | no lost wake-up, dependency order, open work is wanted, completions are backed, compacted means read, refinement of `SopRunLife` |
| `ledger` | `LedgerDomainMC` / `LedgerDomain.cfg` | two processes, one name, two proposals, one key of callers | the chain verifies, replays find their admission, stable reads are coherent, no gridlock, refinement of `AdmissionRegister` |
| `surface` | `SurfaceRuntimeMC` / `SurfaceRuntime.cfg` | one id, two sessions, two calls, two starts, three workers | a handle has a running worker, calls run on the current generation, every wait ends |
| `surface_release` | `... / SurfaceRuntimeRelease.cfg` | one instance, one replacement | finding 6 |
| `drafts` | `TicketDraftsMC` / `TicketDrafts.cfg` | two sources with a key in common, two proposals, three messages in the mailbox, one fault | tickets are backed, conversations are whole, receipts are evidence, acknowledged means reconciled |
| `draft_discard` | `... / TicketDraftsDiscard.cfg` | one proposal, one message, one fault | finding 7 |
| `mailbox` | `MailboxSyncMC` / `MailboxSync.cfg` | two processes, two keys, one message in one folder that changes twice, one fault | the cursor passes nothing without fact or trace, projections and markers have a fact, what is announced has its own fact and was projected, every generation settles or is refused for ever |

The type invariants that are proved (section 4) are not among the properties of the runs;
those of the dispatcher and the SOP engine are.

Each property of a passing run is broken by a mutant: a definition headed
`Fault:` next to the one it replaces.

Bounds. `MaxRevision` (upserts and status changes), `MaxLeases` (leases, over all
activations), `MaxClock`, `MaxVersion`, `MaxRetries` and `MaxFaults`, `MaxRoots`,
`MaxClaims` and `MaxRegistered` of `SopEngine`, `MaxProposals` of `LedgerDomain`,
`MaxInstances` and `MaxGenerations` of `SurfaceRuntime`, `MaxMessages` and
`MaxFaults` of `TicketDrafts`, `MaxFeed` and `MaxFaults` of `MailboxSync` are the only bounds, and each sits in a guard. Three leases let an activation be claimed, lose
its lease, and be claimed again while a sibling is claimed too; two events in
one or two partitions are the least that can collide in a lane; two faults let a
start and the call that gives the lease back both be lost. At
`MaxLeases` the claim of a pass is refused, which ends its claims as a failed
call does. `RunId` is large enough that a start always finds a fresh run in the
instances. Two proposals and a key that may be brought for either let one process
be overtaken at each of its steps by the other with the same proposal, the same
key, both or neither; the name may be lost by the death of a call that has filed its
proposal, or won by another call that met it there, so that with one name there are
proposals with and without it, on one head or on two. Symmetry is over processes, which no
action tells apart. Two starts of one id and three workers let an instance be replaced
and started anew while a release of the first still waits; the safety properties
were also run with three sessions and four workers (two million states).
Two proposals on one ticket, or on two that a common key makes one, let a draft
be superseded by a newer one and then disposed of; three messages let one operation
have a forgotten message beside its draft while the other has a draft too; one fault
is a rollback, a lost call or a dead pass. Revisions need no bound: every step
that makes one uses up a source, a proposal, a claim, a draft or a task. `Page` is
one, so that a pass with two operations sees one of them; the proofs hold for any.
One fault of the mailbox is a process that dies, or a lease or a lock that is lost under
one that goes on, so that two are inside at once or a successor finishes what is half
done; two changes give a generation something to see that the one before it did not.
The invariants were also run on larger instances: with two folders between which the
message moves and three changes (3.5 million states), and with two faults (1.7
million). A fault is also what a
source or a file system refuses; timeouts of what a dead process left are none.
`CHECK_DEADLOCK FALSE` in the scheduler's runs: a system whose bounds are used up,
and whose clock stands still, may stop; in reality nothing is ever due to happen
in an idle store either. It is also set in the surface runs: a closed engine stops;
in those of the drafts, whose proposals and messages run out; and in those of the
mailbox, where every key has settled in the end.
The ledger and the SOP engine are checked for deadlock.

`LeaseUsable` is checked with leases longer than the longest wait for the lock,
which is the default of the dispatcher (60 s against a busy timeout of 30 s). The
tool accepts leases from one second on; for those a claim that waited may return
a lease that has already ended.

Fairness. `DispatchSpec` asks for weak fairness of the steps of each pass and of
nothing else: the deployment starts the dispatcher again and again, and a started
pass goes on to its next call. Runs may live for ever, leases need not expire,
operators need not act. `MaxFaults` makes faults finite, which is the usual
assumption that calls get through in the end. The liveness properties
exclude runs that were retried: finding 2 is about them.

`SurfaceSpec` asks for weak fairness of what is under way, and not of sessions or
operators: a worker answers, exits or runs into the timeout of its adapter (15
seconds to start, 30 per call), so a start, a replacement's candidate, a call and
the health check after a failed one come to an end one way or the other; drains
have a deadline of ten seconds, the close of a worker one of its own; the thread
resumes what was woken.

`FairSpec` of `MailboxSync` asks for weak fairness of each process and of the lapse of a
lease whose call is over, and for strong fairness of the timeout of a lock nobody
is inside of and of each key's claim: the action that called repeats its key until it
is told an outcome, and meets a free lease again and again. The mailbox itself need
not change, and nothing times out under a working process more than `MaxFaults` times.

The passes share one consumer id, which is the dispatcher's default
(`scheduler-sop-dispatcher-v1`).

## 4. What is proved

All theorems are for arbitrary constants under the assumptions named in the
modules (`SpecAssumption`, `ContentAssumption`, `NoneAssumption`,
`OutcomeAssumption`, `BoundAssumption`; for the timed module also
`TimingAssumption`, `DataAssumption`, `ClockAssumption`): specifications and
events have their normalized shape, `None` is no value of any column, the outcome
of a pause is no outcome of a run, delays and waits are natural numbers. Nothing
is assumed about the number of bindings, events, partitions, consumers or runs.

* `ActivationStoreProofs`: `LanesPromise`, that the abstract `ActivationLanes` has
  exclusive lanes and unshared runs; `TypeCorrect`, `LanesExclusive`, `LeasesWhole`,
  `AuditTrailKept`, `ProvenanceKept`, `TokensFenced`, `PauseRespected` and
  `StoreImplementsLanes`. `TypeOK` comes first, with one lemma per row operator.
  `LaneExclusive`, `LeaseRecord`, `AuditTrail` and `Provenance` are each inductive
  together with `TypeOK`; they are stated strongly enough for that.
  `LaneExclusive` is, because the claim looks at the swept rows and no other action
  moves a row into flight (an admission keeps it there) or to another lane. `LeaseRecord`
  carries the bound of every token by `leases`, without which a new token could be
  an old one; fencing then follows as an action property from the lemma
  `LeaseMoves`, which says what one call may do to a lease, and so does the
  respect for pauses. The refinement uses `Provenance` (an activation has a lane)
  and `AuditTrail` (a run is not shared), and splits on the actions: a pause is a
  `Withdraw`, a claim a `Take` after the losses of its sweep, an event a
  `Submit`, and upserts stutter.
* `SchedulerActivationProofs`: `TimedLanesExclusive`, `TimedTypeCorrect`, `NothingEarly`,
  `LiveLeasesKept` and `GrantedLeasesUsable`. Each call of the timed store is one of `ActivationStore` by
  its definition, so the invariants of that module carry over. The type of a due time
  needs `Provenance`: an activation that is given back has a configured binding, whose backoff
  is a number. `NothingEarly` and `LiveLeasesKept` rest on the order of readings: a reading is never
  ahead of the clock, so what it sees due is due, and what it sees expired is expired.
  `GrantedLeasesUsable` has a hypothesis, that every lease asked for is longer than
  `MaxWait`: a reading is at most that far behind. The module does not assume it, as the
  store does not enforce it (section 3).

* `LedgerDomainProofs` (assumption `LedgerAssumption`: `None` is no process, name or
  key, and keys of callers are no generated ones): `LedgerTypes`,
  `ChainAlwaysVerifies`, `ReplaysAlwaysFound`, `StableReadsCoherent`,
  `NeverGridlocked` and `KeepsItsPromise`, all from `LedgerInvariant`, and `RefusalsStand`
  from the last. Its inductive
  invariant says that a head that was looked up once stays the head of a prefix of the
  chain, however far the chain has grown (`OnChain`), that the holder of a lock is the
  process whose place in a call says so (`Locked`), and that a proposal that is past
  the gate is on the head and its key unused (`Admissible`), which nobody can
  change while the ledger lock is held. `ReplaysAlwaysFound` says of a review that
  there is one for whatever was admitted, and not that it is whole, which it need not be. The
  refinement goes step by step: the event file is the `Enter`, the reply the
  `Confirm`, also when it is given by a retry after the crash of the call that wrote
  the file; a refusal is a `Refuse` only where the proposal is hopeless under that key,
  which is shown from the verdict given under the lock: it was on its head or the head
  has passed, and heads do not recur. A call that is put off and every other file
  operation stutter. `RefusalsStand` is what that promise comes to for a caller: what
  was refused for good is never admitted under that key, whoever tries again.
* `SurfaceRuntimeProofs` (assumption `SurfaceAssumption`: the bounds are numbers):
  `SurfaceTypes` and `HandlesServed`, from `SurfaceInvariant`. `ServedByCurrent` is
  not inductive: that a handle's worker runs depends on what releases under way will
  close. The invariant adds that a worker belongs to one instance, as its generation or
  as the other one of a replacement (`WorkersApart`); that an instance which starts,
  has an id or is held has its worker, and a candidate that is to replace it, running
  (`WantedRuns`); that a release which closes a worker closes one of an instance without
  holders or id, so that nobody can come by it again (`ClosesUnwanted`); and that a
  closed engine has no held handles (`ClosedForgets`). Each action has a lemma.
* `TicketDraftsProofs`, the tickets alone (assumption `TicketAssumption`: a source has a set of keys,
  `None` is no source): `TicketTypes`, `TicketsStayBacked` and
  `ConversationsStayWhole`, from `TicketInvariant`. `TicketsBacked` is not inductive: a
  receipt opens a draft only because the draft has no disposition yet, and an author
  reads again only before there is a claim. Both follow from `Behind` (a claim puts
  the ticket at least one revision, a recorded draft at least two revisions beyond
  what was read) and `Routed` (what a proposal has is what its route gives). A step
  concerns one ticket; `OthersBacked` says that the others stay as they are. `KeysLead`
  (the keys of a source lead to its ticket) carries `OneConversation`.
* `TicketDraftsProofs`, the composition (also `DraftAssumption`: the bounds are numbers):
  `DraftsImplementTickets`, that every step of the composition is a call of the work
  lifecycle or leaves its tickets alone, whence `DraftsKeepTicketsBacked` and
  `DraftsKeepConversations`; `DraftTypes`; `AcknowledgedIsReconciled`, by an invariant
  over the places of a pass (`AckInv`: what is listed was observed, what is about to be
  acknowledged was applied, and a disposition on a ticket is the observed one), for
  which each ticket call is shown to keep the dispositions that are there; and
  `DispositionsAreEvidence`, by an invariant over the places of the authority's
  transaction (`EvidenceInv`): once nothing is left in the mailbox of an operation
  that has its draft, nothing comes back, because messages are only made for
  operations without a draft and people only take away, and a discard never goes by an
  absence, because no verified intent outlives its transaction. It speaks of what is
  there: a message that a rolled back attempt made, and somebody sent and purged before
  the retry, leaves nothing the authority could see (section 6).

* `MailboxSyncProofs` (assumption `SyncAssumption`: there is a folder, `None` is no process
  and no key, the bounds are numbers): `SyncTypes`, `CursorBehindFacts`,
  `NothingLostUnseen`, `ProjectionsHaveFacts` and `AnnouncementsAreApplied`, all from
  `SyncInvariant`. What a cursor has passed is a matter of the feed alone and does not
  change as the feed grows (`PassedStays`), so a cursor once covered by markers and accounts
  is covered for ever, and behind each marker there is a fact (`FactsBehindProjection`).
  `FactsBeforeCursor` is not inductive: the invariant adds that a batch *fills* what lies between its prior and its next cursor (`BatchOK`, from
  `WalkFills` for each folder walked), that a call's base cursor is covered (`WalkOK`), that
  a generation past staging keeps its batch (`GenOK`), and what a call has ingested at
  each place (`CallOK`). `AnnouncedIsApplied` is shown at the last transaction: a call
  that went through its records has their markers, and one that found its next
  cursor in place has them because the cursor is covered. None of it mentions the lock, the lease or their holders, which is
  why both may be lost at any time. `StepKeeps` says what a step must leave alone for all
  other processes and generations to be well; each action has a lemma.

* `SchedulerSopDispatchProofs`: `DispatchTypes`, `AcknowledgedIsAdmitted`,
  `LinksAgree`, and the store's own promises under the
  dispatcher (`StoreKeptUnderDispatch`, `FencedUnderDispatch`,
  `DispatchImplementsLanes`), all from `DispatchAlways`. Assumed of the constants: what
  `SchedulerSopDispatch` names, that consumers, events and outcomes of the two
  servers fit (`OutcomesAgree`, `TerminalAssumption`, `ReceiptAssumption`,
  `DispatchNone`), and that run ids are numbers and event ids (`RunAssumption`).
  Neither `AckedIsAdmitted` nor `LinkAgrees` is inductive, because a pass acts on rows it read some
  calls ago. The inductive invariant has the two servers apart (`StoreInv`, `SopInv`),
  what they say of each other (`Linkage`: a link leads to a run of the right key and
  SOP, and a resolved one to a run that has ended; `DeliveredInv`: what is acknowledged
  was delivered), and for every place of a pass what it may rely on (`Memory`: a listed
  event is the first end of its run unless the run was retried; the event it is about to
  acknowledge was delivered; the run it is about to admit is that of its activation).
  What a pass remembers stays true while others act because neither server takes back
  certain things (`StoreHistory`, `SopHistory`): a recorded event, the target and run of
  an activation, the key of a run, and a first end that no retry undid. So each call has
  one lemma (`...Kept`: the servers stay in order and take nothing back), each place of
  a pass has one (`...Inv`), and none of the latter looks at what other passes do.

* `SopEngineProofs`: `EngineTypes`, `NoLostWakeUp`, `OrderOfSteps`, `OpenWork`,
  `StepsAreBacked` and `NothingUnreadIsCompacted`, all from `EngineIsSound`,
  `EngineImplementsRunLife` and, from it, `AcknowledgedStands`, which says what that promise comes
  to for a reader of the outbox: an end that was acknowledged stands.
  Assumed of the constants: what `SopEngine` names. Templates
  list dependencies first and conditions have one of three answers; every child step
  has a key for its child; `None` is no status, moment or event; and
  `NestingAssumption`, without which a run could be its own ancestor and the
  recursion over runs would define nothing.
  The recursive functions of the module (the steps of a run, the runs of a tree, what is
  looked at, what is cancelled) are shown to satisfy their equations: `Recursion` says that
  an operator on functions that at each place depends on places of lower rank only has a
  fixed point. It is proved by induction over the rank, from the least element of a set of
  numbers (`Induct`, `Least`), and used with the position of a step and with the depth of a run.
  The inductive invariant `EngineInv` relates the tables: the rows of a run to one another
  (`RowSound`), a step to its handoff or action (`WorkSound`), a step to its child, and a
  run to its event and the receipts of that (`Told`, `Reading`). `WaitsForSomething` is not
  inductive: that a pending step is blocked needs the fixed point of the reconciliation,
  that a running one has its handoff open needs that a step which starts over has none
  (`Fresh`), and a retry may start a step over only because a step that failed for a
  dependency never began. An action leaves the tables sound but for the run it is about
  (`Ready`), and `CommitSound` says that the end of its transaction repairs that: a child that
  ends on the way is seen by its parent in the same transaction, because each run that
  is looked at is looked at with its parent and with the children it waits for
  (`LooksAt`). So there is one lemma per action that it gets the tables ready, and one
  that ends them all.
  For the refinement each of these also says what it has made of the stages of the runs
  (`Lawful`): a retry revives only a run nobody has acknowledged the end of, and leaves it
  live through the reconciliation, as its step waits for an agent.

Only model-checked: everything about liveness
or `ENABLED`, which is out of this prover's reach (`WaitsEnd`, `GenerationsSettle`,
`TerminalEventsDelivered`, `AdmittedIsResolved`). Every other property of a passing run is
stated by a theorem. The modules use no recursive operator; recursion is by recursive
functions.

## 5. What is left out

* Page limits (`maxEvents`, `maxActivations`): the instances are smaller than a
  page; starvation behind a full page is a listed hazard without property.
* In `SchedulerSopDispatch`: registration of outbox consumers, start boundaries
  and compaction; they are in `SopEngine`.
* Of the SOP authority: deprecation, import of legacy templates, proposals.
* Of the ledger domains: named sequences, rejections (the file of one is read only to
  tell the status of a proposal that is not admitted; a rejected proposal can be
  admitted), reads without locks that report a status,
  the migrations, what operations mean and which references they need, and the
  queries themselves.
* Of the surface engine: bindings and their checks, the status and resource
  reports, heap snapshots, observation events, and the crash of a worker, whose
  calls fail one by one as they may anyway.
* Of the work lifecycle: the life of tasks (claims, outcomes, reviews, chapters), the
  work outbox with its consumers, policy snapshots, and what a ticket says. A task
  is followed from its admission by a proposal to the trigger at its end.
* Of the drafts: the contents of messages, digests and linkage checks, edits of a
  draft (they only make a conditional delete fail), the refresh of the mailbox at the
  end of a pass, and the order of the items of one page. Starvation behind a full
  page is a listed hazard without property: the oldest operations that stay
  unobserved, and the oldest dispositions whose draft the tickets do not know, are
  looked at in every pass, and those behind them never.
* Of the mailbox: the contents of messages, attachments and blobs, digests and
  fingerprints, pages of a walk, configuration changes between two calls of a key
  (refused), thread attention, admission of messages, consumers of the outbox,
  `mailbox_reconcile_first_observations` (it takes a completed generation, which has
  announced all it has), tombstones and views, and the read tools; of the lease, its
  renewals before each tenth record but the first.
* Two limits of the store that the models have and no property names: a lease that
  expires adds an attempt and requeues whatever `max_attempts` says, and the
  partition keys of activations stay what they were when their binding changes between
  singleton and partitioned (lanes are told by the keys, so they stay exclusive).
* Deprecation and unimport of templates: a start they refuse is a failed call.
* Upserts while passes run: `SchedulerSopDispatch` starts with its bindings
  installed; upserts are in the `store` run.
* Malformed arguments and bindings whose version is no number: refused before
  any change.
* The components marked `not_modelled` in `PROJECT.json`.

## 6. Findings

1. **A singleton's lane is freed while its run lives.** If the reply to
   `sop_run_start` is lost, `scheduler_activation_fail` gives the activation back;
   another activation of the binding may start its run before the first
   is found again by its occurrence key. The store promises one *activation* per
   lane in flight; the test's "remains held through SOP terminal receipt"
   holds from the admission on only. No run: it follows from the steps `StartSop`
   (its reply lost), `GiveBack` and `Claim` of `SchedulerSopDispatch`, and no text promises one *run*.
2. **A retried run's outcome can be lost.** The terminal event of a run keeps its
   id when the run is revived and ends again. An acknowledgement meant for the
   first event covers the second; and if it comes too late, the second is
   refused for ever because the id was admitted with another content.
3. **The target version is not honoured** (no run: it is a wrong name). The
   dispatcher passes `version` (`sop-activation-dispatcher.ts:229`), the engine reads
   `sop_version` (`sop_engine/parts/05.rs:44`), so the latest template runs.
4. **A retried handoff strands its dependent child.** The retry clears the pinned
   fingerprint of a child step, nothing writes it again, and the child's admission
   is refused after the child was created. No run: it takes one call after another, and
   `Reset` and `Fails` of `SopEngine` say it as it is.
5. **A frontier capture may be of another head than it says.** Its nodes are read
   without the ledger lock, its head is looked up afterwards (the calls `Frontier` of
   `LedgerDomain`; no run, as no text says that the two belong together).
6. **A late release closes a worker it never waited for.** A release that waits for
   the drain of one generation does not see a replacement that begins meanwhile;
   once the other session has released too, it disposes of the instance and closes
   the new generation's worker under a running call (`surface_release`). In the same
   window it may unregister an instance that was started meanwhile under the same
   id: a later acquire then starts another one, and `close` never disposes of the
   first. The second needs one more start than the first and is reachable in the
   instance of the `surface` run; `ServedByCurrent` speaks of workers and not of
   the registry, so it holds all the same.
7. **A discard forgets that it was about to delete.** The intent is verified in the
   transaction that is committed after the DELETE only. A failure between the two
   leaves a draft that is gone and no intent; a retry finds an absence that is no
   evidence, and the ticket waits for a disposition for ever (`draft_discard`). The
   TypeScript server commits the intent first.
8. **A generation that moved the cursor may never announce.** If it dies before its
   last transaction and another key's generation moves the cursor on after the
   lease has lapsed, each retry of its key is refused as a cursor conflict. Its
   messages are behind the cursor, and the one tool that publishes missing
   announcements wants a completed generation. The same becomes of a staged generation
   that finds its own next cursor put in place by another key before it stored its
   facts: it takes the cursor for its own work, looks for the facts of its own fetch
   (`mailbox/parts/05.rs:19`), and is refused at each retry for want of them. No run: a
   call of the first is `Overtaken`, one of the second is not `Finalizable`, and
   `GenerationsSettle` makes an exception of both (`Stuck`). A generation that
   loses its lease right behind the cursor's move ends the same way, as failed.
9. **A marker outlives its projection.** A removal from the old folder that is applied
   after the arrival in the new one deletes the projection of a message that is
   still there; its marker stays, and a full walk skips the message by it. No run: it
   takes two folders and follows from `Look` and `Project` of `MailboxSync`.
10. **An operation that sent can be discarded.** An upsert that is rolled back forgets the
   draft it made; if somebody sends that draft and purges what was sent, the retry
   makes another, and the authority, which goes by what is in the mailbox now
   (`graph_mail_authority/parts/08.rs:61`, `10.rs:41`), records "discarded" when
   that is deleted. No run: the trace is `UpsertCreate`, `Rollback`, `Human` twice, and a
   discard of `TicketDrafts`; `ReceiptsAreEvidence` speaks of what is left to be seen.
11. **A torn review stops the retry of a contribution.** A review is replaced in
   place without a lock (`event-ledger-native/native/src/io.rs:45`). If the writer of a
   review of an admitted proposal dies between the two steps, a contribution repeated
   under its name fails on that file (`engine/impl_parts/11.rs:14`) until a review is
   asked for again. No run: `ReplaysFound` says what holds all the same, that the key
   of the admission leads to it.

Not counted as findings: `docs/event-ledger-format.md` derives the sequence number
from the number of files and says there is no incremental fold; the code takes
the last event's number plus one, and folds incrementally.

## 7. Plan

What would come next, most important first:

1. The domain outbox dispatcher as a second client of `ActivationStore` and of
   `WorkTickets`, with pages and events refused for ever, and liveness of both
   pages under the fairness their passes justify.
2. The life of tasks in `mcp-lifecycle-native`, the generation manager of the runtime
   proxy, and named sequences of the ledger domains.
3. Of the mailbox: thread attention, admission and the consumers of the outbox, which
   the domain outbox dispatcher reads.
