------------------------------ MODULE Attachments ------------------------------
(***************************************************************************)
(* The objects behind the attachments of notes: published before the note   *)
(* transaction that makes them authoritative, removed after the one that    *)
(* replaces them (note-pipelines/src/generated_attachments.rs), while       *)
(* synchronization pins what its records still refer to (sync.rs).          *)
(*                                                                         *)
(* One note with one attachment slot; every object key is fresh, so notes   *)
(* share nothing but the passes of the cleanup.  A worker is a task that    *)
(* runs one mutation, one event of the peer, or one cleanup pass; each of   *)
(* its steps is one storage transaction or one call of the object store.    *)
(* Which version of two wins is any outcome: NoteSync says which.           *)
(***************************************************************************)
EXTENDS Naturals, FiniteSets

CONSTANTS Handlers,    \* concurrent request handlers
          Appliers,    \* workers that apply events of the peer
          None,        \* no object, no record
          MaxObjects,  \* bound: objects published in one behaviour
          MaxChanges,  \* bound: changes of the note by users
          MaxFaults    \* bound: crashes, unknown outcomes and failed deletions

ASSUME ObjectsAssumption == MaxObjects \in Nat \ {0} /\ None \notin 1 .. MaxObjects

VARIABLES store,      \* the objects the attachment store holds
          created,    \* how many were ever published
          operations, \* attachment_operations: status and owner by object
          note, head, member, pending, \* the note and its sync records
          inflight,   \* read leases of the outbound transfer (durable)
          deleting,   \* objects reserved for deletion, for good
          session,    \* whether the leases of an earlier process were released
          configured, \* whether a connection profile was ever selected
          worker,     \* what each worker is doing
          lost,       \* history: objects given up to a fault
          changes, faults

records == <<note, head, member, pending>>
vars == <<store, created, operations, records, inflight, deleting, session,
          configured, worker, lost, changes, faults>>

Objects == 1 .. MaxObjects

NoNote == [status |-> "absent", object |-> None, selected |-> FALSE, revision |-> 0]

Resting == [job |-> "rest", object |-> None, seen |-> 0, todo |-> {}]

Workers == Handlers \cup Appliers

Get(record) == IF record = None THEN {} ELSE {record.object} \ {None}

\* What the note and the records of synchronization refer to.
Referenced ==
    (IF note.object = None THEN {} ELSE {note.object})
    \cup Get(pending) \cup Get(member) \cup UNION {Get(lease) : lease \in inflight}

----------------------------------------------------------------------------
(***************************************************************************)
(* capture_with_mode, as far as objects are concerned.  s holds the records *)
(* of the transaction.                                                     *)
(***************************************************************************)
Records == [note |-> note, head |-> head, member |-> member, pending |-> pending]

\* A fresh event id, as far as anyone compares: one no lease bears.
NewId == CHOOSE id \in 1 .. 2 : \A lease \in inflight : lease.id # id

Announce(s, kind, object) ==
    LET event == [id |-> NewId, kind |-> kind, object |-> object,
                  attached |-> kind \notin {"detach", "fence"}]
    IN [s EXCEPT !.member = event, !.pending = event]

Captured(s) ==
    LET captured == [s EXCEPT !.head = [object |-> s.note.object, selected |-> s.note.selected]]
        attached == s.member # None /\ s.member.attached
        closed   == s.member # None /\ ~s.member.attached /\ s.head # None /\ s.head.selected
        kind     == IF ~s.note.selected THEN "detach"
                    ELSE IF attached /\ s.member.kind # "attach" THEN "snapshot" ELSE "attach"
    IN IF (s.note.selected /\ closed) \/ (~s.note.selected /\ ~attached) THEN captured
       ELSE Announce(captured, kind, s.note.object)

Capture(s) == IF ~configured \/ s.note.status = "absent" THEN s ELSE Captured(s)

CapturePurge(s) ==
    LET purged == [s EXCEPT !.head = [object |-> None, selected |-> FALSE]]
    IN IF ~configured THEN s
       ELSE IF s.member # None /\ s.member.attached THEN Announce(purged, "purge", None)
       ELSE purged

\* ensure_not_deleting: no record may come to refer to a reserved object.
Store(s) ==
    /\ s.pending # pending => Get(s.pending) \cap deleting = {}
    /\ note' = s.note /\ head' = s.head /\ member' = s.member
    /\ pending' = s.pending

\* Mutant: the row of an object that is replaced is forgotten.
EnqueueNothing(object) == UNCHANGED operations

\* enqueue_attachment_cleanup; a row that exists already stays as it is.
Enqueue(object) ==
    operations' = IF object = None \/ operations[object].status # "none" THEN operations
                  ELSE [operations EXCEPT ![object] = [status |-> "open", owner |-> None]]

----------------------------------------------------------------------------
Become(w, job) == worker' = [worker EXCEPT ![w] = job]

Fault == faults < MaxFaults /\ faults' = faults + 1

\* publish_generated_attachments: a fresh key, stored and verified.
Publish(w, job) ==
    /\ worker[w].job = "rest"
    /\ created < MaxObjects
    /\ created' = created + 1
    /\ store' = store \cup {created'}
    /\ Become(w, [Resting EXCEPT !.job = job, !.object = created', !.seen = note.revision])
    /\ UNCHANGED <<operations, records, inflight, deleting, session, configured, lost, changes, faults>>

\* A user's change of the note: one transaction, with what it leaves for the
\* peer and for the cleanup.
Change(w, changed) ==
    /\ changes < MaxChanges
    /\ changes' = changes + 1
    /\ LET before == Records
           next == [before EXCEPT !.note = [changed EXCEPT !.revision = @ + 1]]
       IN Store(Capture(next))
    /\ UNCHANGED <<store, created, inflight, deleting, session, configured, lost>>

Sweep == [Resting EXCEPT !.job = "sweep"]

\* Mutant: an error of the commit is taken for a rollback.
Withdraw(w) == Become(w, [worker[w] EXCEPT !.job = "undo"])

\* An error of the commit tells nothing: the object stays, and no pass is made.
Retain(w) == Become(w, Resting)

\* put_note_attachment and update_note: the published object becomes the note's.
Put(w) ==
    /\ worker[w].job = "put"
    /\ note.status = "active"
    /\ note.revision = worker[w].seen
    /\ Change(w, [note EXCEPT !.object = worker[w].object])
    /\ Enqueue(note.object)
    /\ \/ Become(w, Sweep) /\ UNCHANGED faults
       \/ Retain(w) /\ Fault

\* The commit failed and did not take effect, or the rollback failed.
PutUncertain(w) ==
    /\ worker[w].job \in {"put", "apply"}
    /\ Fault
    /\ lost' = lost \cup {worker[w].object}
    /\ Become(w, Resting)
    /\ UNCHANGED <<store, created, operations, records, inflight, deleting, session, configured, changes>>

\* The transaction is refused (stale revision, no such note) or cannot begin,
\* and is rolled back.
Refuse(w) ==
    /\ worker[w].job \in {"put", "apply"}
    /\ Become(w, [worker[w] EXCEPT !.job = "undo"])
    /\ UNCHANGED <<store, created, operations, records, inflight, deleting, session, configured,
                   lost, changes, faults>>

\* cleanup_with_primary and cleanup_best_effort.
Undo(w) ==
    /\ worker[w].job = "undo"
    /\ \/ /\ store' = store \ {worker[w].object}
          /\ UNCHANGED <<lost, faults>>
       \/ /\ Fault
          /\ lost' = lost \cup {worker[w].object}
          /\ UNCHANGED store
    /\ Become(w, Resting)
    /\ UNCHANGED <<created, operations, records, inflight, deleting, session, configured, changes>>

\* delete_note_attachment.
Remove(w) ==
    /\ worker[w].job = "rest"
    /\ note.status = "active" /\ note.object # None
    /\ Change(w, [note EXCEPT !.object = None])
    /\ Enqueue(note.object)
    /\ \/ Become(w, Sweep) /\ UNCHANGED faults
       \/ Become(w, Resting) /\ Fault

\* Changes that leave the objects alone: labels, trash and restore.
Edit(w) ==
    /\ worker[w].job = "rest"
    /\ \/ note.status = "active" /\ Change(w, [note EXCEPT !.selected = ~@])
       \/ note.status = "active" /\ Change(w, [note EXCEPT !.status = "trashed"])
       \/ note.status = "trashed" /\ Change(w, [note EXCEPT !.status = "active"])
    /\ UNCHANGED <<operations, worker, faults>>

\* permanently_delete_note and purge_expired_deleted_notes.
Purge(w) ==
    /\ worker[w].job = "rest"
    /\ note.status = "trashed"
    /\ changes < MaxChanges
    /\ changes' = changes + 1
    /\ LET captured == IF head # None /\ member # None THEN Records ELSE Capture(Records)
           gone == [captured EXCEPT !.note = NoNote]
       IN Store(CapturePurge(gone))
    /\ Enqueue(note.object)
    /\ \/ Become(w, Sweep) /\ UNCHANGED faults
       \/ Become(w, Resting) /\ Fault
    /\ UNCHANGED <<store, created, inflight, deleting, session, configured, lost>>

----------------------------------------------------------------------------
(***************************************************************************)
(* Synchronization.                                                        *)
(***************************************************************************)

\* A connection profile is selected, for good, and initialize_sync captures
\* the notes that are there; changes in between capture themselves.
Configure ==
    /\ ~configured
    /\ configured' = TRUE
    /\ UNCHANGED <<store, created, operations, records, inflight, deleting, session, worker,
                   lost, changes, faults>>

Initialize ==
    /\ configured /\ head = None /\ note.status # "absent"
    /\ Store(Capture(Records))
    /\ UNCHANGED <<store, created, operations, inflight, deleting, session, configured, worker,
                   lost, changes, faults>>

\* release_abandoned_sync_events at the start of the server.
Release ==
    /\ ~session
    /\ session' = TRUE
    /\ inflight' = {}
    /\ UNCHANGED <<store, created, operations, records, deleting, configured, worker, lost,
                   changes, faults>>

\* reserve_sync_event: the current event of the association is sent, and its
\* objects are read while the lease is held.
Reserve ==
    /\ session /\ inflight = {} /\ member # None
    /\ Get(member) \cap deleting = {}
    /\ inflight' = {member}
    /\ UNCHANGED <<store, created, operations, records, deleting, session, configured, worker,
                   lost, changes, faults>>

\* acknowledge_sync_event: the exact event leaves the outbox; an association
\* that was opened or closed is now known to the peer.
Acknowledge ==
    /\ session
    /\ \E lease \in inflight :
          /\ inflight' = inflight \ {lease}
          /\ pending' = IF pending = lease THEN None ELSE pending
          /\ \/ /\ member = lease /\ lease.kind = "attach"
                /\ member' = [lease EXCEPT !.kind = "snapshot", !.id = NewId]
             \/ /\ member = lease /\ lease.kind = "detach"
                /\ member' = [lease EXCEPT !.kind = "fence", !.id = NewId, !.object = None]
             \/ /\ member # lease \/ lease.kind \notin {"attach", "detach"}
                /\ UNCHANGED member
    /\ UNCHANGED <<store, created, operations, note, head, deleting, session, configured, worker,
                   lost, changes, faults>>

\* release_sync_event, or release_abandoned_sync_events after a session: the
\* transfer came to nothing.
GiveUp ==
    /\ session /\ inflight # {}
    /\ inflight' = {}
    /\ UNCHANGED <<store, created, operations, records, deleting, session, configured, worker,
                   lost, changes, faults>>

\* Which events the association admits.
Admitted(kind) ==
    /\ configured
    /\ member = None => kind = "attach"
    /\ member # None => member.attached \/ kind \in {"attach", "detach"}

\* The association after an event that leaves nothing to send.
Received(kind, object) ==
    [id |-> NewId, kind |-> IF kind = "attach" THEN "snapshot" ELSE kind,
     object |-> object, attached |-> kind \notin {"detach", "fence"}]

\* apply_sync_event of a snapshot, its objects published.  Newer content wins,
\* its objects stay; what the commit answered makes no difference.
Accept(w, kind) ==
    /\ worker[w].job = "apply"
    /\ Admitted(kind)
    /\ head # None \/ note.status = "absent"
    /\ \E status \in {"active", "trashed"}, selected \in BOOLEAN :
          /\ kind # "detach" => selected
          /\ Store([note |-> [status |-> status, object |-> worker[w].object,
                             selected |-> selected, revision |-> note.revision + 1],
                    head |-> [object |-> worker[w].object, selected |-> selected],
                    member |-> Received(kind, worker[w].object),
                    pending |-> None])
    /\ Enqueue(note.object)
    /\ Become(w, Resting)
    /\ UNCHANGED <<store, created, inflight, deleting, session, configured, lost, changes, faults>>

\* An event of the version the node has: the node's objects are noted.
Same(w, kind) == Received(kind, head.object)

\* An earlier version is answered with the node's own.
Winner(kind) ==
    LET answer == IF note.status # "absent" THEN kind
                  ELSE IF kind = "detach" THEN "fence" ELSE "purge"
    IN Announce(Records, answer, head.object)

\* Content that does not win; its objects are removed again.
Ignore(w, kind) ==
    /\ worker[w].job = "apply"
    /\ Admitted(kind)
    /\ head # None
    /\ \/ Store([Records EXCEPT !.member = Same(w, kind), !.pending = None])
       \/ Store(Winner(kind))
    /\ Become(w, [worker[w] EXCEPT !.job = "undo"])
    /\ UNCHANGED <<store, created, operations, inflight, deleting, session, configured, lost,
                   changes, faults>>

\* A purge of the peer wins: no objects are published.
AcceptPurge ==
    /\ Admitted("purge")
    /\ head # None /\ note.status # "absent"
    /\ Store([note |-> NoNote, head |-> [object |-> None, selected |-> FALSE],
              member |-> Received("purge", None), pending |-> None])
    /\ Enqueue(note.object)
    /\ UNCHANGED <<store, created, inflight, deleting, session, configured, worker, lost,
                   changes, faults>>

\* apply_fence.
AcceptFence ==
    /\ configured /\ member # None /\ member.kind # "fence"
    /\ Store([Records EXCEPT !.member = Received("fence", None), !.pending = None])
    /\ UNCHANGED <<store, created, operations, inflight, deleting, session, configured, worker,
                   lost, changes, faults>>

----------------------------------------------------------------------------
(***************************************************************************)
(* run_attachment_cleanup_once.                                            *)
(***************************************************************************)
Open == {o \in Objects : operations[o].status = "open"}

\* A row may be claimed once its retry is due, or the claim of another worker
\* has lapsed, though that worker may still be at it: time is left out, so a
\* pass may claim any open rows.
\* It follows a mutation of this note, or of another one.
Claim(w, some) ==
    /\ \/ worker[w].job = "sweep"
       \/ worker[w].job = "rest" /\ some # {}
    /\ operations' = [o \in Objects |->
          IF o \in some THEN [operations[o] EXCEPT !.owner = w] ELSE operations[o]]
    /\ Become(w, IF some = {} THEN Resting ELSE [Resting EXCEPT !.job = "clean", !.todo = some])
    /\ UNCHANGED <<store, created, records, inflight, deleting, session, configured, lost,
                   changes, faults>>

\* The worker goes on with the rows it claimed after this one.
Onward(w, o) ==
    LET rest == worker[w].todo \ {o}
    IN Become(w, IF rest = {} THEN Resting ELSE [Resting EXCEPT !.job = "clean", !.todo = rest])

\* fail_attachment_operation and complete_attachment_operation: nothing
\* happens when the row was claimed again in between.
Conclude(w, o, status) ==
    operations' = IF operations[o] = [status |-> "open", owner |-> w]
                  THEN [operations EXCEPT ![o] = [status |-> status, owner |-> None]]
                  ELSE operations

\* Mutant: leases are forgotten.
PinnedByRecords(o) == o \in {note.object} \cup Get(pending) \cup Get(member)

\* reserve_sync_attachment_cleanup scans the notes and three namespaces.
Pinned(o) == o \in Referenced

\* An object in use: the row waits for another pass.
Postpone(w, o) ==
    /\ worker[w].job = "clean" /\ o \in worker[w].todo
    /\ configured /\ Pinned(o)
    /\ Conclude(w, o, "open")
    /\ Onward(w, o)
    /\ UNCHANGED <<store, created, records, inflight, deleting, session, configured, lost,
                   changes, faults>>

\* An installation that never synchronized has nothing to reserve against.
ReserveDeletion(w, o) ==
    /\ worker[w].job = "clean" /\ o \in worker[w].todo
    /\ configured => ~Pinned(o)
    /\ deleting' = IF configured THEN deleting \cup {o} ELSE deleting
    /\ Become(w, [worker[w] EXCEPT !.job = "delete", !.object = o])
    /\ UNCHANGED <<store, created, operations, records, inflight, session, configured, lost,
                   changes, faults>>

Delete(w) ==
    /\ worker[w].job = "delete"
    /\ store' = store \ {worker[w].object}
    /\ Become(w, [worker[w] EXCEPT !.job = "deleted"])
    /\ UNCHANGED <<created, operations, records, inflight, deleting, session, configured, lost,
                   changes, faults>>

DeleteFails(w) ==
    /\ worker[w].job = "delete"
    /\ Fault
    /\ Conclude(w, worker[w].object, "open")
    /\ Onward(w, worker[w].object)
    /\ UNCHANGED <<store, created, records, inflight, deleting, session, configured, lost, changes>>

Complete(w) ==
    /\ worker[w].job = "deleted"
    /\ Conclude(w, worker[w].object, "completed")
    /\ Onward(w, worker[w].object)
    /\ UNCHANGED <<store, created, records, inflight, deleting, session, configured, lost,
                   changes, faults>>

----------------------------------------------------------------------------
\* The objects a worker has published and not yet handed over.
Held == {worker[w].object : w \in {v \in Workers : worker[v].job \in {"put", "apply", "undo"}}}

\* The process ends; records, leases and claims stay.
Crash ==
    /\ Fault
    /\ worker' = [w \in Workers |-> Resting]
    /\ lost' = lost \cup Held
    /\ session' = FALSE
    /\ UNCHANGED <<store, created, operations, records, inflight, deleting, configured, changes>>

Init ==
    /\ store = {1} /\ created = 1
    /\ operations = [o \in Objects |-> [status |-> "none", owner |-> None]]
    /\ \E selected \in BOOLEAN :
          note = [status |-> "active", object |-> 1, selected |-> selected, revision |-> 1]
    /\ head = None /\ member = None /\ pending = None
    /\ inflight = {} /\ deleting = {} /\ session = FALSE /\ configured = FALSE
    /\ worker = [w \in Workers |-> Resting]
    /\ lost = {} /\ changes = 0 /\ faults = 0

Mutation(w) ==
    \/ Publish(w, "put") \/ Put(w)
    \/ Remove(w) \/ Edit(w) \/ Purge(w)

Inbound ==
    \/ \E w \in Appliers :
          \/ configured /\ Publish(w, "apply")
          \/ \E kind \in {"attach", "snapshot", "detach"} : Accept(w, kind) \/ Ignore(w, kind)
    \/ AcceptPurge \/ AcceptFence

Outbound == Release \/ Reserve \/ Acknowledge \/ GiveUp

Clean(w) ==
    \/ \E o \in worker[w].todo : Postpone(w, o) \/ ReserveDeletion(w, o)
    \/ Delete(w) \/ Complete(w)

Pass(w) == (\E some \in SUBSET Open : Claim(w, some)) \/ Clean(w) \/ DeleteFails(w)

Next ==
    \/ \E w \in Handlers : Mutation(w) \/ Pass(w)
    \/ \E w \in Workers : PutUncertain(w) \/ Refuse(w) \/ Undo(w)
    \/ Inbound \/ Outbound \/ Configure \/ Initialize \/ Crash

Spec == Init /\ [][Next]_vars

----------------------------------------------------------------------------
\* A note never names an object that is gone, whatever answer its commits had
\* (docs/design.md: recoverable orphan objects rather than metadata that
\* references missing bytes).
NoteHasItsObject == note.object \in store \cup {None}

\* Nor does what is still to be sent: the outbox, the inventory, and the
\* transfer that reads under a lease, though the note has moved on.
PinsHaveTheirObjects == Referenced \ {note.object} \subseteq store

\* What is stored and no longer the note's will be removed: a cleanup row is
\* open, or a worker has it, unless a fault left it behind as an orphan.
OrphansAreKnown == store \ {note.object} \subseteq Open \cup Held \cup lost
==============================================================================
