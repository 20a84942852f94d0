--------------------------- MODULE EmbeddingQueue ---------------------------
(***************************************************************************)
(* The durable embedding queue (note-pipelines/src/embedding_queue.rs over *)
(* note-storage-turso/src/embedding_jobs.rs): notes are cut into chunks,   *)
(* every chunk without a vector gets a job, and one scheduler embeds one   *)
(* job at a time, holding no transaction while it computes, so the note    *)
(* may be edited, trashed, restored, purged or created anew meanwhile.     *)
(*                                                                         *)
(* Every transaction is one action.  The content of a note is the sequence *)
(* of the hashes of its chunks.  A job row has an id that is never used    *)
(* again; as one worker holds at most one row, the model keeps only        *)
(* whether that row still is the one it claimed (worker.mine).             *)
(***************************************************************************)
EXTENDS Naturals, Sequences, FiniteSets

CONSTANTS
    Notes, Hashes,
    Contents,        \* the texts a note may have, as sequences of hashes
    Models,          \* embedding fingerprints the server may be configured with
    MaxAttempts,     \* MAX_EMBEDDING_ATTEMPTS
    StorageErrors,   \* whether a transaction of the scheduler may fail
    MaxRevision,     \* bound on the revisions of a note
    MaxStarts        \* bound on the starts of the server

ASSUME QueueAssumption ==
    /\ Contents \subseteq Seq(Hashes)
    /\ MaxAttempts \in Nat \ {0}
    /\ MaxRevision \in Nat /\ MaxStarts \in Nat
    /\ StorageErrors \in BOOLEAN

VARIABLES
    notes,     \* row of each note: "absent", or "active" or "trashed" with a text
    chunks,    \* note_chunks, by <<note, index>>
    jobs,      \* embedding_jobs, by <<note, index, hash>>
    vectors,   \* note_chunk_embeddings: the text and the model each is of
    model,     \* the stored embedding fingerprint
    phase,     \* "down" or "importing"; else how far the scheduler task is:
               \* "opening", "listing", "scanning" or "running"
    scan,      \* the notes listed by the scan and not yet written
    worker,    \* the job being embedded, or Idle
    starts     \* how often the server was started

vars == <<notes, chunks, jobs, vectors, model, phase, scan, worker, starts>>

Revisions == 1 .. MaxRevision

Absent == [status |-> "absent", content |-> <<>>, revision |-> 0]

Idle == [job |-> <<>>, revision |-> 0, attempts |-> 0, mine |-> FALSE]

Without(f, S) == [x \in DOMAIN f \ S |-> f[x]]

SlotsOf(n, f) == {s \in DOMAIN f : s[1] = n}

Active(n) == notes[n].status = "active"

-----------------------------------------------------------------------------
(* enqueue_embedding_job on the rows js: a new row, or the row of the same *)
(* text made pending again with its attempts kept; a processing row stays. *)
Enqueue(js, j, revision) ==
    [x \in DOMAIN js \cup {j} |->
        IF x # j THEN js[x]
        ELSE IF j \notin DOMAIN js
        THEN [revision |-> revision, status |-> "pending", attempts |-> 0]
        ELSE IF js[j].status = "processing" THEN js[j]
        ELSE [js[j] EXCEPT !.revision = revision, !.status = "pending"]]

(* Mutant: a chunk whose text did not change is taken to have its vector.   *)
KnownTextIsEmbedded(n, k, hash) ==
    <<n, k>> \in DOMAIN chunks /\ chunks[<<n, k>>].hash = hash

(* A chunk that has a vector keeps it unless its text is known to differ.  *)
Embedded(n, k, hash) ==
    /\ <<n, k>> \in DOMAIN vectors
    /\ <<n, k>> \in DOMAIN chunks => chunks[<<n, k>>].hash = hash

(* Mutant: a row is deleted under the worker that processes it.             *)
StaleJobsOfAnyStatus(n, content) ==
    {j \in SlotsOf(n, jobs) : j[2] \in DOMAIN content => j[3] # content[j[2]]}

(* delete_stale_embedding_jobs_for_chunk, delete_embedding_jobs_from_chunk.*)
StaleJobs(n, content) ==
    {j \in SlotsOf(n, jobs) :
        /\ jobs[j].status # "processing"
        /\ j[2] \in DOMAIN content => j[3] # content[j[2]]}

(* sync_note_embedding_jobs: the chunks of note n become those of content; *)
(* a chunk without a vector of its text is queued; vectors, chunks and     *)
(* jobs of other texts go, save a job that is being processed.             *)
SyncNoteJobs(n, content, revision) ==
    LET kept  == {k \in DOMAIN content : Embedded(n, k, content[k])}
        slots == {<<n, k>> : k \in DOMAIN content}
        queued == {<<n, k, content[k]>> : k \in DOMAIN content \ kept}
    IN
    /\ chunks' = [s \in (DOMAIN chunks \ SlotsOf(n, chunks)) \cup slots |->
          IF s \notin slots THEN chunks[s]
          ELSE [hash |-> content[s[2]], revision |-> revision,
                status |-> IF s[2] \in kept THEN "embedded" ELSE "pending"]]
    /\ vectors' = Without(vectors, SlotsOf(n, vectors) \ {<<n, k>> : k \in kept})
    /\ jobs' = [j \in (DOMAIN jobs \ StaleJobs(n, content)) \cup queued |->
          IF j \in queued THEN Enqueue(jobs, j, revision)[j] ELSE jobs[j]]

(* Mutant: the job that is being processed is spared, as an edit spares it. *)
ClearAllButProcessing(n) ==
    /\ chunks' = Without(chunks, SlotsOf(n, chunks))
    /\ jobs' = Without(jobs, {j \in SlotsOf(n, jobs) : jobs[j].status # "processing"})
    /\ vectors' = Without(vectors, SlotsOf(n, vectors))
    /\ UNCHANGED worker

(* clear_note_search_data, and the cascade of deleting the note row.       *)
ClearSearchData(n) ==
    /\ chunks' = Without(chunks, SlotsOf(n, chunks))
    /\ jobs' = Without(jobs, SlotsOf(n, jobs))
    /\ vectors' = Without(vectors, SlotsOf(n, vectors))
    /\ worker' = IF worker # Idle /\ worker.job[1] = n
                 THEN [worker EXCEPT !.mine = FALSE] ELSE worker

-----------------------------------------------------------------------------
Init ==
    /\ notes = [n \in Notes |-> Absent]
    /\ chunks = [s \in {} |-> {}]
    /\ jobs = [j \in {} |-> {}]
    /\ vectors = [s \in {} |-> {}]
    /\ model \in Models
    /\ phase = "down"
    /\ scan = {}
    /\ worker = Idle
    /\ starts = 0

(* Notes change through the API and the other tasks of a server that has    *)
(* reconciled its model: none of them waits for the scheduler.              *)
Editing == phase \notin {"down", "importing"}

(* save_note, update_note, restore_notes and the arrival of a synchronized *)
(* note: note, chunks and jobs are written in one transaction.             *)
PutNote(n, content) ==
    LET revision == notes[n].revision + 1 IN
    /\ Editing
    /\ revision \in Revisions
    /\ notes' = [notes EXCEPT ![n] =
          [status |-> "active", content |-> content, revision |-> revision]]
    /\ SyncNoteJobs(n, content, revision)
    /\ UNCHANGED <<model, phase, scan, worker, starts>>

(* put_note_attachment and its removal: a new revision of the same text.   *)
PutAttachment(n) ==
    /\ Editing /\ Active(n)
    /\ notes[n].revision + 1 \in Revisions
    /\ notes' = [notes EXCEPT ![n].revision = @ + 1]
    /\ UNCHANGED <<chunks, jobs, vectors, model, phase, scan, worker, starts>>

(* delete_note moves a note to the trash; a synchronized one may arrive    *)
(* trashed, with any content.                                              *)
TrashNote(n, content) ==
    LET revision == notes[n].revision + 1 IN
    /\ Editing
    /\ revision \in Revisions
    /\ notes' = [notes EXCEPT ![n] =
          [status |-> "trashed", content |-> content, revision |-> revision]]
    /\ ClearSearchData(n)
    /\ UNCHANGED <<model, phase, scan, starts>>

(* permanently_delete_note, the purge of old trash and synchronized purges.*)
(* A note created again under the same id starts at revision 1.            *)
PurgeNote(n) ==
    /\ Editing /\ notes[n] # Absent
    /\ notes' = [notes EXCEPT ![n] = Absent]
    /\ ClearSearchData(n)
    /\ UNCHANGED <<model, phase, scan, starts>>

-----------------------------------------------------------------------------
ActiveSources ==
    {[note |-> n, content |-> notes[n].content, revision |-> notes[n].revision] :
        n \in {m \in Notes : Active(m)}}

(* The offline import inserts notes without chunks and then scans.         *)
ImportNote(n, content) ==
    /\ phase = "down" /\ starts < MaxStarts
    /\ notes[n] = Absent
    /\ notes' = [notes EXCEPT ![n] =
          [status |-> "active", content |-> content, revision |-> 1]]
    /\ phase' = "importing"
    /\ scan' = {[note |-> m, content |-> notes'[m].content,
                 revision |-> notes'[m].revision] :
                   m \in {m \in Notes : notes'[m].status = "active"}}
    /\ starts' = starts + 1
    /\ UNCHANGED <<chunks, jobs, vectors, model, worker>>

(* Mutant: what an earlier process was embedding is left to it. *)
RequeueNothing(js) == js

(* requeue_processing_embedding_jobs: what was interrupted is queued again.*)
Requeue(js) ==
    [j \in DOMAIN js |->
        IF js[j].status = "processing" THEN [js[j] EXCEPT !.status = "pending"]
                                       ELSE js[j]]

ActiveSlots == {s \in DOMAIN chunks : Active(s[1])}

ResetForRegeneration ==
    /\ vectors' = [s \in {} |-> {}]
    /\ chunks' = [s \in DOMAIN chunks |->
          IF s \in ActiveSlots THEN [chunks[s] EXCEPT !.status = "pending"]
                               ELSE chunks[s]]
    /\ jobs' = [j \in {<<s[1], s[2], chunks[s].hash>> : s \in ActiveSlots} |->
          [revision |-> chunks[<<j[1], j[2]>>].revision,
           status |-> "pending", attempts |-> 0]]

(* reconcile_embedding_fingerprint under the configured model m; then all   *)
(* tasks are started.                                                      *)
StartServer(m) ==
    /\ phase = "down" /\ starts < MaxStarts
    /\ model' = m
    /\ IF m # model THEN ResetForRegeneration ELSE UNCHANGED <<chunks, jobs, vectors>>
    /\ phase' = "opening"
    /\ starts' = starts + 1
    /\ UNCHANGED <<notes, scan, worker>>

(* The scheduler requeues; if that fails it logs the error and goes on.     *)
RequeueJobs ==
    /\ phase = "opening"
    /\ \/ jobs' = Requeue(jobs)
       \/ StorageErrors /\ jobs' = jobs
    /\ phase' = "listing"
    /\ UNCHANGED <<notes, chunks, vectors, model, scan, worker, starts>>

(* enqueue_missing_chunk_embeddings lists the active notes once.            *)
ListNotes ==
    /\ phase = "listing"
    /\ scan' = ActiveSources
    /\ phase' = "scanning"
    /\ UNCHANGED <<notes, chunks, jobs, vectors, model, worker, starts>>

(* enqueue_missing_chunk_embeddings, one note: its chunks are rewritten    *)
(* from the content that was listed, whatever the note has become.  A note *)
(* purged meanwhile violates the foreign key and ends the scan.            *)
ScanNote(source) ==
    /\ source \in scan
    /\ IF notes[source.note] = Absent
       THEN scan' = {} /\ UNCHANGED <<chunks, jobs, vectors>>
       ELSE /\ SyncNoteJobs(source.note, source.content, source.revision)
            /\ scan' = scan \ {source}
    /\ UNCHANGED <<notes, model, phase, worker, starts>>

ScanFails ==
    /\ StorageErrors /\ scan # {}
    /\ scan' = {}
    /\ UNCHANGED <<notes, chunks, jobs, vectors, model, phase, worker, starts>>

ScanEnds ==
    /\ phase \in {"importing", "scanning"} /\ scan = {}
    /\ phase' = IF phase = "importing" THEN "down" ELSE "running"
    /\ UNCHANGED <<notes, chunks, jobs, vectors, model, scan, worker, starts>>

(* The process stops at any point; the worker's result is lost.            *)
Stop ==
    /\ phase # "down"
    /\ phase' = "down"
    /\ scan' = {}
    /\ worker' = Idle
    /\ UNCHANGED <<notes, chunks, jobs, vectors, model, starts>>

-----------------------------------------------------------------------------
(* process_next_embedding_job, first transaction.  The oldest pending job  *)
(* is taken; the order is left out.                                        *)
ClaimJob(j) ==
    /\ phase = "running" /\ worker = Idle
    /\ j \in DOMAIN jobs /\ jobs[j].status = "pending"
    /\ jobs' = [jobs EXCEPT ![j].status = "processing", ![j].attempts = @ + 1]
    /\ worker' = [job |-> j, revision |-> jobs[j].revision,
                  attempts |-> jobs[j].attempts + 1, mine |-> TRUE]
    /\ UNCHANGED <<notes, chunks, vectors, model, phase, scan, starts>>

WorkerSlot == <<worker.job[1], worker.job[2]>>

(* Mutants: the text is compared together with the revision everywhere; a   *)
(* result is stored in whatever chunk is there.                             *)
SameTextSameRevision ==
    /\ WorkerSlot \in DOMAIN chunks
    /\ chunks[WorkerSlot].hash = worker.job[3]
    /\ chunks[WorkerSlot].revision = worker.revision

AnyChunkIsCurrent == WorkerSlot \in DOMAIN chunks

ChunkHasText == WorkerSlot \in DOMAIN chunks /\ chunks[WorkerSlot].hash = worker.job[3]

ChunkIsCurrent == ChunkHasText /\ chunks[WorkerSlot].revision = worker.revision

(* complete_embedding_job: the vector is stored if the chunk is the one    *)
(* that was claimed; the same text at another revision is queued again.    *)
CompleteJob ==
    LET rest == IF worker.mine THEN Without(jobs, {worker.job}) ELSE jobs IN
    /\ worker # Idle
    /\ \/ /\ ChunkIsCurrent
          /\ vectors' = [s \in DOMAIN vectors \cup {WorkerSlot} |->
                IF s = WorkerSlot THEN [hash |-> worker.job[3], model |-> model]
                                  ELSE vectors[s]]
          /\ chunks' = [chunks EXCEPT ![WorkerSlot].status = "embedded"]
          /\ jobs' = rest
       \/ /\ ~ChunkIsCurrent
          /\ jobs' = IF ChunkHasText
                     THEN Enqueue(rest, worker.job, chunks[WorkerSlot].revision)
                     ELSE rest
          /\ UNCHANGED <<chunks, vectors>>
    /\ worker' = Idle
    /\ UNCHANGED <<notes, model, phase, scan, starts>>

(* fail_embedding_job: the embedder failed or timed out.                   *)
FailJob ==
    LET last == worker.attempts >= MaxAttempts IN
    /\ worker # Idle
    /\ jobs' = IF worker.mine
               THEN [jobs EXCEPT ![worker.job].status =
                        IF last THEN "failed" ELSE "pending"]
               ELSE jobs
    /\ chunks' = IF last /\ ChunkIsCurrent
                 THEN [chunks EXCEPT ![WorkerSlot].status = "failed"] ELSE chunks
    /\ worker' = Idle
    /\ UNCHANGED <<notes, vectors, model, phase, scan, starts>>

(* The second transaction fails: the scheduler logs it and takes the next  *)
(* job; this one stays "processing" until the server is started again.     *)
AbandonJob ==
    /\ StorageErrors /\ worker # Idle
    /\ worker' = Idle
    /\ UNCHANGED <<notes, chunks, jobs, vectors, model, phase, scan, starts>>

-----------------------------------------------------------------------------
Edit == \E n \in Notes :
    \/ PutAttachment(n) \/ PurgeNote(n)
    \/ \E content \in Contents : PutNote(n, content) \/ TrashNote(n, content)

Scan ==
    \/ RequeueJobs \/ ListNotes \/ ScanFails \/ ScanEnds
    \/ \E source \in scan : ScanNote(source)

Work == CompleteJob \/ FailJob \/ AbandonJob \/ \E j \in DOMAIN jobs : ClaimJob(j)

Start ==
    \/ \E m \in Models : StartServer(m)
    \/ \E n \in Notes, content \in Contents : ImportNote(n, content)

Next == Edit \/ Scan \/ Work \/ Start \/ Stop

Spec == Init /\ [][Next]_vars

(* The scheduler task always runs on: the scan goes through its list, the  *)
(* loop takes the next job, and the embedder answers or times out.         *)
Fairness == WF_vars(Scan) /\ WF_vars(Work)

FairSpec == Spec /\ Fairness

-----------------------------------------------------------------------------
Slots == Notes \X (Nat \ {0})

(* While its row is stored, the job in the worker is marked processing.    *)
WorkerHoldsItsJob ==
    worker.mine => /\ worker.job \in DOMAIN jobs
                   /\ jobs[worker.job].status = "processing"
                   /\ jobs[worker.job].attempts = worker.attempts

TypeOK ==
    /\ notes \in [Notes -> {Absent} \cup [status : {"active", "trashed"},
                     content : Contents, revision : Revisions \cup {1}]]
    /\ DOMAIN chunks \subseteq Slots
    /\ \A s \in DOMAIN chunks : chunks[s] \in
          [hash : Hashes, revision : Nat, status : {"pending", "embedded", "failed"}]
    /\ DOMAIN jobs \subseteq Notes \X (Nat \ {0}) \X Hashes
    /\ \A j \in DOMAIN jobs : jobs[j] \in
          [revision : Nat, status : {"pending", "processing", "failed"}, attempts : Nat]
    /\ DOMAIN vectors \subseteq Slots
    /\ \A s \in DOMAIN vectors : vectors[s] \in [hash : Hashes, model : Models]
    /\ model \in Models
    /\ phase \in {"down", "importing", "opening", "listing", "scanning", "running"}
    /\ scan \subseteq [note : Notes, content : Contents, revision : Nat]
    /\ worker = Idle \/ worker \in [job : Notes \X (Nat \ {0}) \X Hashes,
          revision : Nat, attempts : Nat, mine : BOOLEAN]
    /\ starts \in Nat
    /\ WorkerHoldsItsJob

(* Dense search ranks a chunk by a vector of that very chunk's text, made  *)
(* by the model now configured: results of jobs overtaken by an edit, a    *)
(* deletion, a restart or a change of model never reach the index.         *)
VectorsMatchChunks ==
    \A s \in DOMAIN vectors :
        /\ s \in DOMAIN chunks
        /\ vectors[s] = [hash |-> chunks[s].hash, model |-> model]

(* A chunk that claims to be embedded can be found: sync_note_embedding_   *)
(* jobs never queues it again.                                             *)
EmbeddedHasVector ==
    \A s \in DOMAIN chunks :
        Active(s[1]) /\ chunks[s].status = "embedded" => s \in DOMAIN vectors

(* No chunk waits for a job that does not exist: whatever happened while   *)
(* its text was being embedded, a job for that text is still stored.       *)
PendingHasJob ==
    \A s \in DOMAIN chunks :
        Active(s[1]) /\ chunks[s].status = "pending"
        => <<s[1], s[2], chunks[s].hash>> \in DOMAIN jobs

(* The text by which search may find a note.                               *)
TextOf(n) == IF Active(n) THEN notes[n].content ELSE <<>>

(* The rows of note n in a table of the index are of that text.            *)
OfItsText(n, table) ==
    \A s \in SlotsOf(n, table) :
        s[2] \in DOMAIN TextOf(n) /\ table[s].hash = TextOf(n)[s[2]]

Indexed(n) == OfItsText(n, chunks) /\ OfItsText(n, vectors)

(* The scan writes a text that it listed and the note no longer has.       *)
WritesOvertakenText(n) ==
    \E source \in scan :
        /\ source.note = n /\ source.content # TextOf(n)
        /\ notes[n] # Absent
        /\ ScanNote(source)

(* A transaction that writes the search data of note n.                    *)
WritesIndexOf(n) ==
    \/ \E content \in Contents : PutNote(n, content) \/ TrashNote(n, content)
    \/ PurgeNote(n)
    \/ \E source \in scan : source.note = n /\ ScanNote(source)

(* Chunks and vectors follow the text of their note, and go when it is     *)
(* trashed or purged, however late results, failures, restarts and changes *)
(* of model fall between.  One step alone leads the index astray: the      *)
(* startup scan, which runs beside all edits and compares no revisions,    *)
(* writes a text that was edited or trashed after it was listed.  Any      *)
(* other write of the note's search data puts that right again.            *)
IndexFollowsNotes ==
    [][\A n \in Notes :
         Indexed(n) \/ WritesIndexOf(n) => Indexed(n)' \/ WritesOvertakenText(n)]_vars

(* A purged note leaves no chunk, no vector and no job, though the scan had *)
(* listed it or a job of it was being embedded when it went: neither brings *)
(* anything back for a note created again under the same id to inherit.     *)
PurgedLeavesNothing ==
    \A n \in Notes : notes[n] = Absent =>
        SlotsOf(n, chunks) = {} /\ SlotsOf(n, vectors) = {} /\ SlotsOf(n, jobs) = {}

(* Once edits stop, a running server works the queue off: nothing stays    *)
(* pending or processing, and what is not embedded has given up trying.    *)
Drained ==
    /\ \A j \in DOMAIN jobs : jobs[j].status = "failed"
    /\ \A s \in ActiveSlots :
          \/ chunks[s].status \in {"embedded", "failed"}
          \/ <<s[1], s[2], chunks[s].hash>> \in DOMAIN jobs

QueueDrains ==
    (<>[][~Edit]_vars) => ((phase = "running") ~> (phase = "down" \/ Drained))
=============================================================================
