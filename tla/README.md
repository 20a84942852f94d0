# Agent Note: a TLA+ verification project

Agent Note is a note store with an agent work queue that synchronizes with a
peer. Six of its mechanisms depend on orderings that tests hardly reach: the
leases that fence agents' work on Org items, the operation ids that make their
commands safe to resend, the durable queue that embeds note texts in the
background, the merge of notes that two nodes change independently, the task
sessions that carry their events, and the attachment objects that cannot be
written together with the records that name them. The modules here model
those, translated from the Rust sources under `src/crates`. TLC checks them on
small instances, TLAPS proves the main safety properties of most of them for
every value of the constants.

## 1. Inventory

| Part | Sources (`src/crates/`) | State it keeps | Hard behaviour | Module |
|---|---|---|---|---|
| Org policy, readiness, dependencies | `note-org/src/{policy,readiness,execution,dependency}.rs` | none (pure) | policies are user data: roles may share states | `OrgPolicy` |
| Org claims, leases, attempts, reviews | `note-pipelines/src/org/{claims,execution,reviews}.rs`, `note-storage-turso/src/org.rs` | attempts, leases, work item projection | lazy expiry, late holders, retry budget | `OrgLeases` |
| Org edits and raw import | `.../org/{items,documents,projection}.rs` | documents, projection | every edit meets leases, expired or active | `OrgLeases`, partly |
| Org archival | `.../org/{document_lifecycle,workspaces}.rs` | archived marks | archival against claims; restore of old leases | `OrgLeases`, partly |
| Org operation ledger | `.../org/{mutation,claims}.rs` | `org_operations` | lost replies, late duplicates, id reuse | `OrgOperations`, partly |
| Embedding queue and scheduler | `note-pipelines/src/embedding_queue.rs`, `note-storage-turso/src/embedding_jobs.rs`, `note-server/src/main.rs` | chunks, jobs, vectors, fingerprint | results of overtaken jobs, crashes, the startup scan | `EmbeddingQueue` |
| Note mutations, import | `note-pipelines/src/{save_note,update_note,batch_*,export}.rs` | notes, labels, revisions | compare-and-swap, one transaction with the queue | `EmbeddingQueue`, `Attachments`, partly |
| Attachments | `note-pipelines/src/{note_attachments,generated_attachments}.rs`, `note-storage-turso/src/attachment_operations.rs` | objects, cleanup rows | objects and rows cannot be written together | `Attachments` |
| Synchronization: clocks, events, merge | `note-pipelines/src/sync.rs`, `note-core/src/sync.rs` | clock, heads, associations, outbox, receipts | reordering, loss, drifting clocks, convergence | `SyncClock`, `NoteSync` |
| Synchronization client | `note-server/src/sync_client/` | task ledger, staging, workers of a session | open commits, lost sessions, cancellation, retired numbers | `TaskLedger`, `SyncTasks`, partly |
| Embedding worker process | `note-embedding` | request queue | timeouts, restart of the child | not modelled |
| Org parser and layout, moves | `note-org/src/{source,path}.rs`, `.../org/items.rs` | text | moves across documents | not modelled |
| Search, transports, frontend, PostgreSQL adapter | `note-mcp`, `note-server`, `note-frontend`, `note-storage-pg`, `search_notes.rs` | none, or that of the adapter above | thin adapters and numeric ranking | not modelled |

How they interact. REST, MCP and the offline commands call `note-pipelines`;
each pipeline command opens one storage transaction and calls the repository
contracts of `note-storage`, implemented by the Turso and PostgreSQL adapters.
Org commands share the leases, attempts and projection tables. A note mutation
writes note, chunks and jobs in one transaction and then wakes the scheduler
task, which is the only consumer of the job table. Synchronization applies
remote versions through the same note writes, and captures every local change
of a note in that change's own transaction. The sync client reads the outbox
those captures fill, and hands what arrives to the same pipeline. Attachment
objects are published before such a transaction and removed after it, unless a
record of synchronization still refers to them.

What makes each part correct:

* Org work: an item is held at most once; only its holder changes it; a lapsed
  token never works again; attempts, leases and the audit trail agree; the
  concurrency limit and the retry budget hold; done work was done, and
  reviewed where review is required; nothing is stuck forever.
* Ledger: a command takes effect at most once, at the revision its sender
  read; every answer tells what happened; no issued lease is unknown.
* Embedding: a vector is of its chunk's text under the current model; chunks
  and vectors follow the text of their note, save for what the startup scan
  overwrites (section 4), and a purge leaves nothing of it; every text is
  embedded, or given up, once edits stop.
* Merge: one version names one content; versions, associations and closures
  only move forward, whatever is late or repeated; the outbox holds the current
  event; both nodes end with the same version.
* Task sessions: an event leaves the outbox only when the peer has it, is
  called rejected only when the peer has not, and nothing is executed twice or
  beside another.
* Attachments: nothing that is referred to is deleted, and what is not referred
  to any more is known to the cleanup, or was left by a fault.

The hazards these protect against are listed, at their lines, in
`PROJECT.json`.

## 2. Modules

    OrgPolicy ── OrgLeases ──┬── OrgFencing ──(refines)── FencedWork
                             │        └── MCOrgLeases (with MCPolicy)
                             ├── OrgOperations ── MCOrgOperations (with MCPolicy)
                             └── OrgLeases_proofs ──┬── OrgFencing_proofs (with OrgFencing)
                                                    └── OrgOperations_proofs (with OrgOperations)
    EmbeddingQueue ──┬── MCEmbeddingQueue
                     └── EmbeddingQueue_proofs
    SyncClock ── NoteSync ──┬── MCNoteSync
                            └── NoteSync_proofs
    TaskLedger ── SyncTasks ──┬── MCSyncTasks
                              └── SyncTasks_proofs ── SyncDelivery_proofs
    Attachments ──┬── MCAttachments
                  └── Attachments_proofs

The three modules on synchronization look at one event from three sides.
`NoteSync` says which content wins and takes the way of an event as a network
that may lose and reorder; `SyncTasks` says how one event travels and takes its
content as a name; `Attachments` says which objects the records of both ends
keep alive and takes the winner as any outcome.

### OrgPolicy

The fields of `WorkspacePolicy` are constants, and `ValidPolicy` is what
`validate_policy` accepts, no more: a policy in which the failed and the
cancelled state coincide, or in which running work may go anywhere, is within
the assumptions of the proofs. The module also has the decisions the commands
share: `TransitionAllowed` (`validate_transition`), `Lifecycle`
(`classify_transition`), and the attempt statuses a lifecycle expects and
leaves behind (`lifecycle_attempt`).

### OrgLeases

State: the clock, the workflow state, assignee and plan (prerequisites and
scheduled instant) of each item, its attempts, one row per lease ever issued,
and whether the document or the workspace is archived. `presented` is a
history variable: the lease proof carried by the command that just committed.

Every Org command runs in one immediate transaction that reads the clock
inside, so every command is one action. A command that is refused is rolled
back and is no step, with one exception the code makes: a command that meets an
*expired* open lease on its item commits the expiry and then answers "stale"
(`BookkeepExpired`). Leases expire lazily, only when a command finds them.

| Action | Code |
|---|---|
| `Claim`, `Reclaim`, `ClaimReview` | `claim_item`: fresh, over an expired lease, for review |
| `Retry` | `retry_item` |
| `Heartbeat` | `heartbeat_claim` |
| `ReleaseExecution`, `ReleaseReview` | `release_claim` |
| `RequestReview`, `Complete` | `submit_result` with and without review; `request_review` |
| `Approve`, `Reject` | `approve_item`, `reject_item` |
| `TransitionUnleased`, `TransitionLeased` | `transition_item` |
| `Assign`, `Reassign` | `assign_item` |
| `EditPlanUnleased`, `EditPlanLeased` | `schedule_item`, `add_dependency`, `remove_dependency` |
| `BookkeepExpired` | any command that finds its lease expired; `link_note`, `unlink_note` |
| `RawImportUnleased`, `RawImportLeased` | `import_documents` on one item |
| `ArchiveDocument`, `RestoreDocument`, `ArchiveWorkspace` | the commands of those names |

`Spec` has all of them. `StructuredSpec` leaves out raw imports and starts
items in the initial or an executable state: two properties
(`CompletionIsEarned`, `ReviewIsNotBypassed`) are about work done through
commands only, since an import may write a finished item.

### FencedWork and OrgFencing

`FencedWork` is the promise without the mechanism: a token holds an item, held
work changes only by its holder's hand, a token that let go is spent, nothing
is held while frozen. `OrgFencing` maps `OrgLeases` onto it: the holder of an
item is its open unexpired lease, time passing is `Lapse`, and what no lease
protects is `Tend`.

### OrgOperations

Extends `OrgLeases` with the operation ledger: a client sends a request under
an id, resends it, may reuse the id for something else, and any request ever
sent may be delivered at any time, any number of times. One delivery is one
transaction: replay of the stored result, conflict (no step), execution with
the result recorded, a committed expiry answered "stale" without recording, or
a refusal. Commands under the ledger here are claim, submit, release and
approve; `reject`, `retry`, `transition` and the edits go through the same
function (`execute_idempotent_outcome`) and would add only more of the same
shapes. Around them time passes, leases are renewed (heartbeat has no ledger)
and the workspace is archived.

### EmbeddingQueue

State: the notes, their chunk rows, job rows and vectors, the stored
fingerprint, the phase of the server, the notes the running scan has listed,
and the job in the worker. The content of a note is the sequence of its chunk
hashes. `PutNote` stands for saving, updating, restoring and synchronizing a
note: all write the note and call `sync_note_embedding_jobs` (`SyncNoteJobs`)
in one transaction. `ClaimJob`, then `CompleteJob`, `FailJob` or `AbandonJob`,
are the two transactions of `process_next_embedding_job` with the computation
between them; everything else can happen there. A start is modelled in the
transactions of the code: `StartServer` is fingerprint reconciliation, after
which `serve` spawns trash retention, the scheduler and synchronization and
builds the router; then the scheduler requeues interrupted jobs
(`RequeueJobs`), lists the active notes (`ListNotes`) and writes each of them
in a transaction of its own (`ScanNote`). Nothing waits for the scheduler, so
notes change, are trashed and are purged between any two of these steps
(`Editing`). `Stop` is a crash or shutdown at any point.

Job ids are never reused (`AUTOINCREMENT`), and a single worker holds a single
row, so instead of ids the model keeps whether the row the worker claimed is
still stored (`worker.mine`). The worker takes any pending job rather than the
oldest: a superset of the code's orders, for safety and for liveness alike.

### SyncClock and NoteSync

`SyncClock` is the hybrid logical clock: the order of stamps and
`Hlc::advance`. `NoteSync` is one note on two nodes that run the same
`sync.rs`. A node stores its clock, its rule and how far its configuration has
come, the note, its head (the version of it), its association with the peer
(`member`, which keeps the last event), the outbox row (`pending`) and the
receipts. Everything but the clock is keyed by the note, so one note is enough;
other notes can only advance the clock.

Each operation of `sync.rs` is an operator from the records of a node to its
next records, and each action is one storage transaction.

| Action | Code |
|---|---|
| `Initialize`, `Register` | `initialize_sync`, `pin_sync_peer` |
| `Edit`, `Import`, `Purge` | any pipeline that changes a note, with `capture_note`, `capture_imported_note`, `capture_purge` in its transaction |
| `ChangeRule`, `ChangeProfile` | `update_system_config`, `reconcile_rules` |
| `Send` | inventory and delivery of the current event of an association that is pending, or that the peer was not found equal to |
| `Deliver`, `Refuse` | `apply_sync_event`, `apply_fence`; a duplicate is acknowledged again |
| `Confirm` | `acknowledge_sync_event` |
| `Ask`, `RecoverMissing` | the state query and `recover_missing_sync_association`; the answer may be old when it is used |
| `Drop`, `Lose` | a frame lost with its session; a database lost while the identity is restored |

A behaviour plays one *scene*: what the nodes hold at first, which operations
each may perform and how many, what the wall clocks may read, and how many
frames and databases are lost. A scene is chosen in the first state and its
counters are the bounds.

### TaskLedger and SyncTasks

`TaskLedger` is what one end remembers of the tasks its peer submitted: the
high-water number, the statuses, the order in which finished tasks are
forgotten, the verdict on a submission and the rule by which one status may
follow another. `SyncTasks` is one direction of a session: a sender that takes
the events of its outbox through the tasks begin, upload and commit, or abort
after a failure, and a receiver that runs them. The peer of the real program is
a server outside this repository; both ends of the model run this repository's
code, which the protocol lets either end be. What this sender never does and a
peer may do (repeat a task, cancel it, turn to abort or commit early) are
actions marked external.

A commit has four moments: the worker runs (`Running`), its transaction takes
effect (`Apply`) or not, the worker's answer is noticed, and `Poll` reports.
Between them the worker may die, the commit may end with an open outcome
(`limbo`, decided later by `Settle`), the session may end (the worker goes on,
`loose`, and `Drain` waits for it before the next session) and the process may
crash. An open commit is looked up once in the receipts (`Read`); one that stays
open stays reported as such until the session ends.

### Attachments

One note with one attachment slot; every stored object has a fresh key, so
notes share nothing but the cleanup passes. State: the object store, the
cleanup rows, the note and the records of synchronization as far as they name
an object, the read leases of the outbound transfer, the objects reserved for
deletion, and what each worker is doing. A worker is a request handler, the
applier of inbound events, or a cleanup pass; each of its steps is one
transaction or one call of the store.

| Action | Code |
|---|---|
| `Publish` | `publish_generated_attachments` |
| `Put`, `Remove`, `Edit`, `Purge` | the mutations, with capture and `enqueue_attachment_cleanup` in their transaction |
| `PutUncertain`, `Refuse`, `Undo` | a commit of unknown outcome, a rollback, and `cleanup_with_primary` after it |
| `Configure`, `Initialize` | the first profile; the historical capture |
| `Accept`, `Ignore`, `AcceptPurge`, `AcceptFence` | `apply_sync_event`, by what becomes of the content |
| `Reserve`, `Acknowledge`, `GiveUp`, `Release` | the leases of a transfer, and those an earlier process left |
| `Claim`, `Postpone`, `ReserveDeletion`, `Delete`, `DeleteFails`, `Complete` | `run_attachment_cleanup_once` with `reserve_sync_attachment_cleanup` |
| `Crash` | the process ends anywhere; records, leases and claims stay |

Time is left out of the cleanup: a pass may claim any open rows, also those of
a worker that is still at them, which contains the lapse of every claim. The
heads of notes are not scanned for pins by the code and not counted as pins by
the model: they always agree with the note.

## 3. Runs

All runs set `CHECK_DEADLOCK FALSE`: clocks, ids, revisions, starts or edits
are bounded, and a system may legitimately have nothing to do.

| Run | Asks | Bounds and why they suffice |
|---|---|---|
| `one_item` | ownership, attempts, audit trail and fencing of one review-required item, imports included; refinement of `FencedWork` | two actors, three leases (a holder, its successor after expiry, and a reviewer or retry), one retry, clock to 2 with leases of 1: every lease can expire, be bookkept late and be replaced |
| `two_items` | capacity, earned completion, review, unblocked queue; structured commands | two items that may depend on each other both ways, limit 1: the second claim always meets the limit |
| `stuck` (violation) | expired work can be recovered | finding 1; one item, three leases, one retry |
| `retries` | exactly-once effect, answers and revisions under late and repeated delivery | three ids with two requests each, two leases, clock to 1: a claim, its expiry, a reclaim and a late submission |
| `embed_races` | vectors, chunks and jobs agree, follow the note in every step but the scan's late write, and go when it is purged | one note of up to two chunks, three revisions, three attempts as in the code, three starts, two models: two starts are too few for a change of model after a scan of a trashed note |
| `embed_drains` | the queue drains (liveness) | two notes, two revisions, two starts, each of two attempts may fail; edits run beside the startup scan |
| `sync_safe` | versions, associations and outbox under every local operation | two operations among all on two nodes, from four pairs of starting states; one operation under clocks that read 0 or 1 and disagree; one frame and one answer on their way to each node, delivered in any order relative to operations |
| `sync_converges` | both nodes end with the same version (liveness) | two operations and a lost frame, or one operation, a lost frame and a lost database |
| `sync_purge` (violation) | a permanent deletion reaches the peer | finding 2; four operations on one node |
| `tasks_failures` | receipts, rejections, single execution, statuses, somebody owes every awaited answer | two events against every failure of storage, worker and session, each once; one event against everything a peer may do; a rejected event, a crash and a retry. 12 tasks are three transfers; a ledger that keeps one finished task forgets in every scene (64 in the code) |
| `tasks_settle` | every event is delivered or blocked in the end (liveness) | two events; one lost session, open commit, rejection and early turn in any order |
| `attachments` | nothing referred to is deleted, nothing is forgotten | two handlers and an applier, two objects, three changes, one fault: an object and its replacement, with a pass in between |

Bounds that the code does not have: `MaxTime`, the size of `LeaseIds`,
`MaxSent`, `MaxRevision`, `MaxStarts`, `MaxInFlight`, the counters of the scenes
of `NoteSync` and `SyncTasks`, `MaxTasks`, `MaxObjects`, `MaxChanges`,
`MaxFaults`. Actors, lease ids, operation ids, notes and handlers are
symmetric, except in runs with liveness properties, where symmetry is unsound.
The engineering default policy (`MCPolicy`) is used in the Org runs with small
limits; the proofs cover the other policies.

Every property of a passing run has a mutant: a changed definition, standing
for a plausible bug, under which TLC finds the property violated.

Fairness.

* The Org modules assume none and state no liveness: no task runs in the
  background, expiry is lazy, and whether agents return is not the code's to
  promise. Its place is taken by `ExpiredWorkIsRecoverable`, a state property.
* `EmbeddingQueue`: weak fairness of the scan (with the requeueing and the
  listing before it) and of the worker. Both are steps of the one scheduler task, which never waits without a poll timeout, and every
  embedding call ends by a result, an error or a timeout. Nothing is assumed
  about edits, starts or stops; `QueueDrains` is conditional on edits ending,
  and on transactions not failing (an abandoned job waits for the next start).
* `NoteSync`: weak fairness of configuration, sending, delivery,
  acknowledgement, queries and recovery: the session repeats its rounds while
  it lives and reconnects after it is lost. Nothing about local operations,
  losses or dropped frames, which are bounded by the scene.
* `SyncTasks`: weak fairness of delivery of the next event, of reading at both
  ends, of each worker and its poll, of the decision of an open commit, of
  draining and of reconnecting: the loops of `runtime.rs` and of the database.
  Nothing about failures.
* `Attachments` states safety only. That an open row is worked off is not
  claimed: passes follow mutations and nothing else starts them.

## 4. What the runs found

1. *Expired work may stay locked* (`stuck`). When any command with a proof, or
   an edit, comes after the expiry of an execution lease, the expiry is
   bookkept: the item is RUNNING, its attempt is expired and no lease is open.
   `claim_item` takes RUNNING work only over an expired *open* lease,
   `transition_item` wants a proof for RUNNING work, and `retry_item` wants
   FAILED. Only a raw import helps. `docs/org-module-design.md:433` promises
   that a crashed agent's task does not stay locked.
2. *A permanent deletion may not reach the peer* (`sync_purge`). The outbox has
   one row per note. When a synchronized note loses its label, gets it back and
   is deleted for good before the new association was delivered, the purge takes
   the place of the event that opens that association. The peer does not know
   the generation, ignores the purge and acknowledges it; its own copy and its
   earlier association stay. `README.md:423` and
   `docs/superpowers/specs/2026-10-11-gaonote-sync-design.md:8` promise that
   permanent deletion synchronizes.

Also visible in the models, and stated here because a property is narrower for
it or because no document promises otherwise:

* *A deletion may get an earlier version than the note it deletes.*
  `capture_purge` advances the clock without observing the note's own version
  (`sync.rs:408`; `capture_with_mode` observes it). The clock may be behind that
  version: an association that reaches a node which holds the note already, with
  a time of its own ahead of the clock, tells the clock only its own stamps. A
  deletion then gets an earlier version, or the same one, and an event left in
  the outbox with the later version is not covered by what arrives afterwards:
  it stays behind a newer association. `PurgesAhead` is that deletion.
  `HeadMovesForward` names it as its one exception; `VersionNamesContent` and
  `PendingIsCurrent` are checked, and proved, without it, and are false with it.
* *An initial merge may never end.* When both nodes hold the note and the later
  copy does not carry the label, its node answers the association with a content
  the other node must refuse (`sync.rs:1414`, `sync.rs:1531`), again and again.
  `Converges` starts from a note of one node.
* *Import bypasses review.* A raw import may move REVIEW work without an active
  lease to a successful state (`documents.rs:1636`), so `CompletionIsEarned`
  and `ReviewIsNotBypassed` are about the structured commands.
* *The startup scan overwrites the index of notes that changed meanwhile.* It
  lists contents once and writes each note's chunks later without comparing
  revisions, beside the API, synchronization and trash retention. The note
  itself is intact.
  A note edited in between has the chunks and vectors of the earlier text until
  its next edit or a start whose scan no edit overtakes. A note trashed in
  between gets its chunks and jobs back, and the worker embeds them. The next
  scan lists active notes only and does not remove them: they stay until the
  note is restored, arrives again through synchronization, or is purged. Search
  does not show them, because it selects notes that are not deleted
  (`retrieval.rs:72`, `retrieval.rs:86`). A note purged in between gets nothing
  back (`PurgedLeavesNothing`): the write violates the foreign key and ends the
  scan. `IndexFollowsNotes` names the write of an overtaken text
  (`WritesOvertakenText`) as its one exception and is checked, and proved, with
  all tasks running. That a note is indexed by its own text in every state is
  not claimed: TLC refutes it in seven steps. No document promises it either.
* An orphan object after a crash or an open commit is recorded nowhere in the
  code (`docs/design.md` defers its collection): `OrphansAreKnown` counts it as
  lost to a fault.
* An open commit is looked up once and then holds up its direction until the
  session ends: `Settles` allows for it.
* An item whose last budgeted attempt expires stays RUNNING; a plain transition
  may move READY work to RUNNING without a lease; a job of an overtaken revision
  that fails for the last time leaves the chunk of the same text pending behind
  a failed job until the next edit or start (`Drained` counts this as given up).

## 5. Proofs

The proofs assume only the named assumptions of the modules:
`PolicyAssumption`, `ModelAssumption`, `OperationAssumption`,
`QueueAssumption`, `ObjectsAssumption`; for the merge of a note
`NodesAreOrdered` (node ids have an order), `TrashAssumption`, `SceneAssumption`
and `NoneAssumption`; for task sessions `MaxTasksAssumption`,
`RetainedAssumption`, `NoneAssumption` and `AbsenceAssumption`. (The last two of
each say that the value for "nothing" is not a record, as an `Option` has it.)
The theorems hold for any policy that `validate_policy` accepts, any items,
actors, notes, nodes, handlers and events, and any bounds. Every safety and
every action property that a run checks is stated by a theorem.

`OrgLeases_proofs`. The invariant properties are not inductive one by one.
That only one lease of an item is open (`OneOwner`) survives a claim because
claims ask that none is; that an attempt which is running is owned
(`LiveAttemptsAreOwned`) survives a reclaim because the old lease stood for
the last attempt (`LeaseMatchesAttempt`). The inductive invariant conjoins the
type invariant, these three, the capacity and budget bounds and acyclicity of
the plans; `Invariance` proves it action by action, grouped by what an action
does to leases: issue one, close one, expire some, renew one, none. The
capacity bound is about *unexpired* leases, a set that shrinks as time passes
and does not grow when another lease is renewed. From the invariant follow
`TypeCorrect`, `OwnershipCorrect`, `CapacityCorrect`, `RetryBudgetCorrect`,
and the action properties `LapsedForever` and `HistoryIsFinal`.
`AuditTrailAgrees` (the end reason of a lease and the status of its attempt)
is inductive with the fact that every lease's attempt exists: closing writes
both columns from one story (`EndTells`), and a later verdict on a submitted
attempt stays within what that reason allows (`StoriesLast`).
`QueueNeverBlocksItself` needs that an acyclic finite-or-infinite plan has,
among the unfinished items, one whose prerequisites are all finished: the set
of unfinished items is one of the sets in the definition of `Acyclic`.

`OrgFencing_proofs`. `ArchivedCorrect`: an archive needs that nothing is
active, and nothing becomes active while archived, since claims and heartbeats
are refused, or prolong what already is active. `OnlyTheHolder` follows from
the shape of each action and `OneOwner`. `Refinement` combines them: each
action maps to a step of `FencedWork` or stutters.

The last part of `OrgLeases_proofs` is about the structured commands
(`StructuredSpec`).
`ReviewIsRespected` holds under every policy: `validate_transition` lets a
review item succeed only with an approval, and an approval closes a submitted
attempt, which only a review lease stands for (`SubmittedIsReviewed`).
`SuccessWasEarned` assumes `SuccessIsDistinct`: successful states are none of
the named ones and are entered only from running work or review. A policy
without it is valid, but lets an unleased transition succeed; the engineering
default has it, which TLC confirms (`EngineeringAssumption`). Its invariant
adds that no lease of successful work is open (`Earned`), or an expiry could
still rewrite the attempt that earned it.

`OrgOperations_proofs`. `OpIInv` says what is sent, recorded and answered: a
command with a proof names a lease as it was issued (`SentOK`, whose columns
no step rewrites, `RowsKept`); a successful answer is the ledger's own
(`Recorded`); a recorded command that rewrote the document did so at a
revision that is over (`WrittenBefore`). `StaleIsFinal` needs `Dead`: when
"stale" is answered the request is not in the ledger and its lease is not
active, and a lease that is not active never is again (`InactiveStays`), so
the request can not be performed when it is delivered later. The four theorems
hold for any number of ids and requests.

`EmbeddingQueue_proofs`. The three statements about the index
(`VectorsMatchChunks`, `EmbeddedHasVector`, `PendingHasJob`) are inductive
only together with the shape of the rows, the tie between the worker and its
row (`WorkerHoldsItsJob`), and two facts of the life cycle: an absent note has
no chunks (`ChunksOfNotes`, or an offline import would bring chunks back
that lost their jobs), and the worker is idle unless the server runs
(`WorkerOnlyRuns`, or a start would requeue a job under the worker). What one
call of `sync_note_embedding_jobs` does to each table is stated once, row by
row (`SyncFacts`, `SyncJobFacts`), and used for edits and scan alike. The
theorems hold with and without storage errors, for any texts, models and
bounds, and with edits at any point of the scan: `QueueTypeCorrect`,
`VectorsMatchAlways`, `EmbeddedNeverWithoutVector`, `PendingNeverWithoutJob`.
`PurgeLeavesNothingBehind` adds that every job has its note (`JobsOfNotes`),
which the worker keeps because it queues a job again only for a chunk that
exists. `IndexFollowsEveryNote` is an action property and needs no further
invariant: as vectors match chunks, it is enough to follow the chunks; a write
of the note's search data makes them those of its text, or is the scan with an
overtaken one (`WritesIndex`), and every other step changes at most their
status (`OtherStepsKeepIndex`).

`Attachments_proofs`. `NoteKeepsItsObject`, `PinsKeepTheirObjects` and
`OrphansStayKnown` rest on one observation: an object that has a cleanup row
never comes to be referred to again, because only a freshly published object
ever becomes a note's, and everything else that refers to an object took it
from a note. So it is enough that a row is taken up for deletion only while
nothing refers to its object; what happens between the decision and the
deletion cannot change that. The inductive invariant says it in parts: the
shape of records, leases and rows; `HeadFollowsNote` (the unscanned heads agree
with the note, or an inbound answer would bring back an object from a head);
`RowsAreReplaced` (a row's object is no longer the note's); `HeldIsPrivate` (a
published object is known to its worker only); `ReferencedIsStored`;
`PassesAreSafe` (what a pass deletes is not referred to); `NothingIsRecorded`
(an installation that never synchronized has no records, so its passes need no
reservation); and `OrphansAreKnown` itself. Three lemmas carry the action
proofs: what a change of the records may do (`RecordsStep`), what a step of a
worker may do (`WorkStep`), and publication (`PublishStep`).

`SyncTasks_proofs` (`TaskStartsOnce`, `EveryReportFindsItsTask`,
`AppliesOneAtATime`, `FailuresAreProven`). None of the four properties is
inductive. Of the sender the invariant keeps only that what it sends is well
formed (`SenderOK`); the rest is about the receiver. `LedgerOK` and `OneLive`:
numbers up to the mark are used, each task is filed under its own number, what
waits to be forgotten has ended, and one task at most is open in each slot;
without this a worker could lose its task to the bound on retained tasks.
`JobsOK` and `DeferredOK`: a worker, and an abort that waits, has its task in
the ledger, open and under its own operation. `CommitsOK`: what a commit's
worker has come to tells whether its transaction can have taken effect, so
that a failure is reported only where it cannot. `LooseOK`: the workers a
session leaves behind have ended before the next one begins. What one update of the
ledger does (a status put in place of an open one, a task that ends, a task
that is opened) is stated once and used by every action.

`SyncDelivery_proofs` (`NoEventIsLost`) builds on that invariant. The sender
drops an event when it hears of a success, and a success has come a long way:
from the transaction to the worker, by `poll_task_jobs` to the ledger, from
there to the queue of answers, perhaps of an earlier submission or a repeated
one, and to the sender, whose task may meanwhile be another. `DeliveryOK` says
it of each station: what is asked, filed or answered under the number of the
task in progress is about that task and its event (`Asked`, `LedgerTrue`,
`Answers`), and a worker that applied has its event among those taken in
(`JobsTrue`). Each station must stay true to its task while the others move
on (`SenderStays`, `Moves`, `Grows`).

`StatusesNeverDisagree`: what the ledger takes on for a task has a higher number
than what it held, unless nothing changed, and never leaves an end
(`Precedes`, `Continues`). So the statuses of a task that are on their way, or
held by the sender, form a chain that ends at most at what the ledger holds
(`AgreeOK`), and two members of a chain never conflict, whichever of them came
first. A repeated submission, a question and the place a waiting status gives
up to a later one only choose among members of the chain.

`NothingIsLeftBehind` is about the moment the sender turns to its next event.
`TurnOK` says what has to be true all along. `QueueOK`: the tasks the receiver
has not seen are in the queue, all of them, in their order and before anything
that is about them; so what is next is the next number, and a question or a
cancellation never comes before its task. `WorkOK`: staged data, workers and
the abort that waits are of the transfer in progress, and an abort that works
has the transfer for itself; so a polled job knows that nothing else is open
(`PolledFacts`). `EndOK` and `Timely`: where the ledger, or an answer on its way,
has the end of the transfer, nothing of it is left. The case of weight is the
abort that waits for a task: `poll_task_jobs` ends both in one step, so the
answer to the abort leaves when the staged data is gone (`DonePollTurn`), and a
commit that stays open keeps the abort waiting (`OpenPollTurn`).

`SomebodyAlwaysAnswers` is the safety half of `Settles`: while the sender has a
task under way, its message, an answer that ends it, a worker of it or of the
task its abort waits for, or a commit of unknown outcome is there. With
fairness of those the sender hears in the end; without one of them no fairness
would help. `HeardOK` makes it inductive. Of a task the receiver has seen,
either the ledger still has it open or an answer with its end is in the queue
(`Tells`), and an open transfer has a worker unless it is a commit whose lookup
found nothing. An end must stay in the queue while later answers are merged
into it, which again needs that the statuses of a task form a chain, since the
later one takes the place of the earlier one (`JoinKeepsEnd`, `JoinTellsEnd`);
and it must be sent in the step in which the ledger closes the task, also for
the abort that ends together with the task it waited for (`PollHeard`).

`NoteSync_proofs` begins with the order of the stamps: `Earlier` is a total
order, and an advanced clock is later than what it was and than what it has
seen, whatever the wall clock reads. For each transaction of `sync.rs` a lemma
says what it may make of a node's records (`...Shape`), and others what such a
change keeps. `TypeOK` and `NodesOK` are inductive: a clock is never behind the
stamps of its association (`Tracked`), and a note of a registered node has a
version (`Rooted`). From them follow `TypeCorrect`, `AssociationsMoveForward`
and `HeadsMoveForward`, for any number of nodes and any order, loss and
repetition of events. The other two theorems have hypotheses:

* `PendingStaysCurrent` (the outbox has the current event) and
  `VersionsNameContents` (a version stands for one content) assume
  `NoPurgeAhead`, that the deletion of section 4 does not happen. With it TLC
  finds both violated, within 16 and 9 steps.
* `VersionsNameContents` also assumes that no node loses its database
  (`NothingIsLost`). A node that has lost it has lost its clock, and the first
  import of a note that comes back takes the note's own time as its stamp, which
  the node may have given before. Its invariant says where a version of a node may
  be found (`Issued`: only where the node's own head covers it; `Quiet`: nowhere
  before the node is registered), and that it names one content there (`Named`).

Both hypotheses are about rare steps, not states: all other behaviours of
`Spec`, with any sequence of edits, labels, deletions, merges and faults of the
network, satisfy them. The run `sync_safe` has behaviours of that kind
throughout.

Only model-checked is liveness (`QueueDrains`, `Converges`, `Settles`), which is
beyond the prover.

## 6. Abstractions

* Texts are hashes, model values or left out; titles, descriptions, events and
  timestamps on rows are left out. The audit trail is present as lease end
  reasons and attempt statuses. Labels of a note are one bit: whether the rule
  selects it.
* One document per workspace: leases, capacity and the ledger are per
  workspace, archival of a document is of that one.
* A raw import changes one item; one that changes several is the composition
  of such changes in one transaction. The policy of a workspace is constant.
* `create_item` is folded into `Init`, moves of items and documents are left
  out.
* Two scans never run at once: the offline import runs with the server down.
* The u64 counter of the hybrid clock is a natural number: the code refuses to
  advance past its maximum.
* `NoteSync` has the network between two nodes as small sets of frames in any
  order, which contains the orders a session allows. Its notes have no
  attachments; `Attachments` has them without versions.
* `SyncTasks` keeps the frames of a session in order, may merge what waits, has
  one blob per transfer, and leaves out leases on attachments, progress,
  heartbeats and rounds.
* In `Attachments` objects have fresh keys, the store's calls are atomic, and
  the paths of earlier versions are left out.

## 7. Not modelled, and what comes next

* Synchronization rounds (paging of inventories and state queries, their
  progress and reports), SSH tunnels, TLS, connection profiles and the direct
  mode of earlier peers (`sync_client/{scan,progress,ssh,connections}.rs`). A
  model of a round would compose `NoteSync` and `SyncTasks`.
* `update_workspace` under open leases, `create_item`, `move_item` and imports
  of several items at once. The first makes the policy a variable of
  `OrgLeases`; its proofs hold for each policy, not across a change of it.
* The embedding worker process (`note-embedding`): its bounded queue, timeouts
  and restarts. `EmbeddingQueue` takes its answer as success or failure at any
  time.
* The Org parser, source editor and layout, label catalogues, search and
  ranking, export formats, REST and MCP adapters, the frontend: text, rendering
  and numeric work without state of their own.
* The PostgreSQL adapter: the modules follow the embedded adapter; both
  implement the contracts of `note-storage` and share its contract tests.
* Proofs across components: that the events which `SyncTasks` delivers once and
  in order are those `NoteSync` takes from its wires, and a policy that changes
  under open leases.
