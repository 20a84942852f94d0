----------------------- MODULE EmbeddingQueue_proofs -----------------------
(* Proofs of the safety properties of EmbeddingQueue. *)
EXTENDS EmbeddingQueue, TLAPS

(* Every chunk has its note: the scan skips a purged one, the cascade clears*)
(* it, and the worker adds no chunk.                                       *)
ChunksOfNotes ==
    \A s \in DOMAIN chunks : notes[s[1]] # Absent

(* Only the loop of a running scheduler embeds anything.                   *)
WorkerOnlyRuns == phase # "running" => worker = Idle

ChunkRows ==
    [hash : Hashes, revision : Nat, status : {"pending", "embedded", "failed"}]

JobRows ==
    [revision : Nat, status : {"pending", "processing", "failed"}, attempts : Nat]

JobKeys == Notes \X (Nat \ {0}) \X Hashes

(* The stored rows are well formed.                                        *)
RowsOK ==
    /\ DOMAIN chunks \subseteq Slots
    /\ \A s \in DOMAIN chunks : chunks[s] \in ChunkRows
    /\ DOMAIN jobs \subseteq JobKeys
    /\ \A j \in DOMAIN jobs : jobs[j] \in JobRows
    /\ DOMAIN vectors \subseteq Slots
    /\ \A s \in DOMAIN vectors : vectors[s] \in [hash : Hashes, model : Models]

NoteRows ==
    {Absent} \cup [status : {"active", "trashed"}, content : Contents,
                   revision : Revisions \cup {1}]

WorkerOK ==
    worker = Idle \/ worker \in
        [job : JobKeys, revision : Nat, attempts : Nat, mine : BOOLEAN]

(* The rest of the state is.                                               *)
RestOK ==
    /\ notes \in [Notes -> NoteRows]
    /\ model \in Models
    /\ phase \in {"down", "importing", "opening", "listing", "scanning", "running"}
    /\ scan \subseteq [note : Notes, content : Contents, revision : Nat]
    /\ WorkerOK
    /\ starts \in Nat

LEMMA TypeOKIsParts == TypeOK <=> RowsOK /\ RestOK /\ WorkerHoldsItsJob
  BY DEF TypeOK, RowsOK, RestOK, WorkerOK, NoteRows, ChunkRows, JobRows, JobKeys

IndexOK == VectorsMatchChunks /\ EmbeddedHasVector /\ PendingHasJob

IInv ==
    /\ RowsOK /\ RestOK /\ WorkerHoldsItsJob
    /\ IndexOK
    /\ ChunksOfNotes /\ WorkerOnlyRuns

LEMMA IdleIsIdle == Idle.mine = FALSE /\ \A w : w = Idle => w.mine = FALSE
  BY DEF Idle

LEMMA InitInv == Init => IInv
  BY QueueAssumption DEF Init, IInv, RowsOK, RestOK, WorkerHoldsItsJob, IndexOK,
     VectorsMatchChunks, EmbeddedHasVector, PendingHasJob, ChunksOfNotes,
     WorkerOnlyRuns, WorkerOK, NoteRows, Idle, Absent

(* What sync_note_embedding_jobs makes of each table, row by row.          *)
LEMMA SyncFacts ==
    ASSUME NEW n \in Notes, NEW content \in Contents, NEW revision \in Nat,
           RowsOK, SyncNoteJobs(n, content, revision)
    PROVE  /\ \A s \in DOMAIN chunks' : s[1] # n =>
                 s \in DOMAIN chunks /\ chunks'[s] = chunks[s]
           /\ \A s \in DOMAIN chunks : s[1] # n => s \in DOMAIN chunks'
           /\ \A s \in DOMAIN chunks' : s[1] = n =>
                 /\ s = <<n, s[2]>> /\ s[2] \in DOMAIN content
                 /\ chunks'[s] = [hash |-> content[s[2]], revision |-> revision,
                       status |-> IF Embedded(n, s[2], content[s[2]])
                                  THEN "embedded" ELSE "pending"]
           /\ \A k \in DOMAIN content : <<n, k>> \in DOMAIN chunks'
           /\ \A s \in DOMAIN vectors' :
                 s \in DOMAIN vectors /\ vectors'[s] = vectors[s]
           /\ \A s \in DOMAIN vectors : s[1] # n => s \in DOMAIN vectors'
           /\ \A s \in DOMAIN vectors' : s[1] = n =>
                 /\ s = <<n, s[2]>> /\ s[2] \in DOMAIN content
                 /\ Embedded(n, s[2], content[s[2]])
           /\ \A k \in DOMAIN content : Embedded(n, k, content[k]) =>
                 <<n, k>> \in DOMAIN vectors'
  <1> DEFINE slots == {<<n, k>> : k \in DOMAIN content}
             kept == {k \in DOMAIN content : Embedded(n, k, content[k])}
  <1>1. /\ DOMAIN chunks' = (DOMAIN chunks \ SlotsOf(n, chunks)) \cup slots
        /\ \A s \in DOMAIN chunks' : chunks'[s] =
             IF s \notin slots THEN chunks[s]
             ELSE [hash |-> content[s[2]], revision |-> revision,
                   status |-> IF s[2] \in kept THEN "embedded" ELSE "pending"]
    BY DEF SyncNoteJobs
  <1>2. /\ DOMAIN vectors' =
             DOMAIN vectors \ (SlotsOf(n, vectors) \ {<<n, k>> : k \in kept})
        /\ \A s \in DOMAIN vectors' : vectors'[s] = vectors[s]
    BY DEF SyncNoteJobs, Without
  <1>3. \A s \in slots : s[1] = n /\ s = <<n, s[2]>> /\ s[2] \in DOMAIN content
    OBVIOUS
  <1>4. \A s \in DOMAIN vectors : s[1] = n => s = <<n, s[2]>>
    BY DEF RowsOK, Slots
  <1>5. \A k \in kept : <<n, k>> \in DOMAIN vectors
    BY DEF Embedded
  <1>6. /\ \A s \in DOMAIN chunks' : s[1] # n =>
              s \in DOMAIN chunks /\ chunks'[s] = chunks[s]
        /\ \A s \in DOMAIN chunks : s[1] # n => s \in DOMAIN chunks'
        /\ \A k \in DOMAIN content : <<n, k>> \in DOMAIN chunks'
    BY <1>1, <1>3 DEF SlotsOf
  <1>7. \A s \in DOMAIN chunks' : s[1] = n =>
              /\ s = <<n, s[2]>> /\ s[2] \in DOMAIN content
              /\ chunks'[s] = [hash |-> content[s[2]], revision |-> revision,
                    status |-> IF Embedded(n, s[2], content[s[2]])
                               THEN "embedded" ELSE "pending"]
    BY <1>1, <1>3 DEF SlotsOf
  <1>8. /\ \A s \in DOMAIN vectors' :
              s \in DOMAIN vectors /\ vectors'[s] = vectors[s]
        /\ \A s \in DOMAIN vectors : s[1] # n => s \in DOMAIN vectors'
    BY <1>2 DEF SlotsOf
  <1>9. \A s \in DOMAIN vectors' : s[1] = n =>
              /\ s = <<n, s[2]>> /\ s[2] \in DOMAIN content
              /\ Embedded(n, s[2], content[s[2]])
    <2> TAKE s \in DOMAIN vectors'
    <2> HAVE s[1] = n
    <2>1. PICK k \in kept : s = <<n, k>>
      BY <1>2 DEF SlotsOf
    <2> QED BY <2>1
  <1>10. \A k \in DOMAIN content : Embedded(n, k, content[k]) =>
              <<n, k>> \in DOMAIN vectors'
    BY <1>2, <1>5
  <1> QED BY <1>6, <1>7, <1>8, <1>9, <1>10

LEMMA SyncJobFacts ==
    ASSUME NEW n \in Notes, NEW content \in Contents, NEW revision \in Nat,
           RowsOK, SyncNoteJobs(n, content, revision)
    PROVE  /\ DOMAIN jobs' \subseteq JobKeys
           /\ \A j \in DOMAIN jobs' : jobs'[j] \in JobRows
           /\ \A j \in DOMAIN jobs : j[1] # n =>
                 j \in DOMAIN jobs' /\ jobs'[j] = jobs[j]
           /\ \A j \in DOMAIN jobs : jobs[j].status = "processing" =>
                 j \in DOMAIN jobs' /\ jobs'[j] = jobs[j]
           /\ \A k \in DOMAIN content : ~Embedded(n, k, content[k]) =>
                 <<n, k, content[k]>> \in DOMAIN jobs'
  <1> DEFINE kept == {k \in DOMAIN content : Embedded(n, k, content[k])}
             queued == {<<n, k, content[k]>> : k \in DOMAIN content \ kept}
  <1>1. /\ DOMAIN jobs' = (DOMAIN jobs \ StaleJobs(n, content)) \cup queued
        /\ \A j \in DOMAIN jobs' : jobs'[j] =
             IF j \in queued THEN Enqueue(jobs, j, revision)[j] ELSE jobs[j]
    BY DEF SyncNoteJobs
  <1>2. \A j \in queued : j \in JobKeys /\ j[1] = n
    BY QueueAssumption DEF JobKeys
  <1>3. \A j \in queued : Enqueue(jobs, j, revision)[j] =
             IF j \notin DOMAIN jobs
             THEN [revision |-> revision, status |-> "pending", attempts |-> 0]
             ELSE IF jobs[j].status = "processing" THEN jobs[j]
             ELSE [jobs[j] EXCEPT !.revision = revision, !.status = "pending"]
    BY DEF Enqueue
  <1>4. \A j \in DOMAIN jobs' : jobs'[j] \in JobRows
    <2> TAKE j \in DOMAIN jobs'
    <2>1. j \in DOMAIN jobs => jobs[j] \in JobRows
      BY DEF RowsOK
    <2>2. \A row \in JobRows :
              [row EXCEPT !.revision = revision, !.status = "pending"] \in JobRows
      BY DEF JobRows
    <2>3. [revision |-> revision, status |-> "pending", attempts |-> 0] \in JobRows
      BY DEF JobRows
    <2>4. CASE j \in queued
      <3>1. CASE j \notin DOMAIN jobs
        BY <1>1, <1>3, <2>3, <2>4, <3>1
      <3>2. CASE j \in DOMAIN jobs /\ jobs[j].status = "processing"
        BY <1>1, <1>3, <2>1, <2>4, <3>2
      <3>3. CASE j \in DOMAIN jobs /\ jobs[j].status # "processing"
        <4>1. jobs'[j] = [jobs[j] EXCEPT !.revision = revision, !.status = "pending"]
          BY <1>1, <1>3, <2>4, <3>3, Zenon
        <4> QED BY <2>1, <2>2, <3>3, <4>1
      <3> QED BY <3>1, <3>2, <3>3
    <2>5. CASE j \notin queued
      BY <1>1, <2>1, <2>5
    <2> QED BY <2>4, <2>5
  <1>5. DOMAIN jobs' \subseteq JobKeys
    BY <1>1, <1>2 DEF RowsOK
  <1>6. \A j \in DOMAIN jobs : j[1] # n => j \in DOMAIN jobs' /\ jobs'[j] = jobs[j]
    BY <1>1, <1>2 DEF StaleJobs, SlotsOf
  <1>7. \A j \in DOMAIN jobs : jobs[j].status = "processing" =>
             j \in DOMAIN jobs' /\ jobs'[j] = jobs[j]
    BY <1>1, <1>3 DEF StaleJobs
  <1>8. \A k \in DOMAIN content : ~Embedded(n, k, content[k]) =>
             <<n, k, content[k]>> \in DOMAIN jobs'
    BY <1>1
  <1> QED BY <1>4, <1>5, <1>6, <1>7, <1>8

(* Writing one note with its chunks and jobs keeps the tables consistent.  *)
LEMMA SyncPreserves ==
    ASSUME IInv, NEW n \in Notes, NEW content \in Contents, NEW revision \in Nat,
           SyncNoteJobs(n, content, revision),
           model' = model, worker' = worker,
           \A m \in Notes : m # n => notes'[m] = notes[m],
           notes'[n] # Absent
    PROVE  RowsOK' /\ WorkerHoldsItsJob' /\ IndexOK' /\ ChunksOfNotes'
  <1> USE DEF IInv
  <1> DEFINE row(k) == [hash |-> content[k], revision |-> revision,
                        status |-> IF Embedded(n, k, content[k])
                                   THEN "embedded" ELSE "pending"]
  <1>0. content \in Seq(Hashes) /\ DOMAIN content \subseteq Nat \ {0}
        /\ \A k \in DOMAIN content : content[k] \in Hashes
    BY QueueAssumption
  <1>r. \A k \in DOMAIN content : row(k) \in ChunkRows
    BY <1>0 DEF ChunkRows
  <1>c. /\ \A s \in DOMAIN chunks' : s[1] # n =>
               s \in DOMAIN chunks /\ chunks'[s] = chunks[s]
        /\ \A s \in DOMAIN chunks' : s[1] = n =>
               s = <<n, s[2]>> /\ s[2] \in DOMAIN content /\ chunks'[s] = row(s[2])
        /\ \A s \in DOMAIN chunks : s[1] # n => s \in DOMAIN chunks'
        /\ \A k \in DOMAIN content : <<n, k>> \in DOMAIN chunks'
    BY SyncFacts
  <1>v. /\ \A s \in DOMAIN vectors' : s \in DOMAIN vectors /\ vectors'[s] = vectors[s]
        /\ \A s \in DOMAIN vectors : s[1] # n => s \in DOMAIN vectors'
        /\ \A s \in DOMAIN vectors' : s[1] = n =>
              /\ s = <<n, s[2]>> /\ s[2] \in DOMAIN content
              /\ Embedded(n, s[2], content[s[2]])
        /\ \A k \in DOMAIN content : Embedded(n, k, content[k]) =>
              <<n, k>> \in DOMAIN vectors'
    BY SyncFacts
  <1>j. /\ DOMAIN jobs' \subseteq JobKeys
        /\ \A j \in DOMAIN jobs' : jobs'[j] \in JobRows
        /\ \A j \in DOMAIN jobs : j[1] # n => j \in DOMAIN jobs' /\ jobs'[j] = jobs[j]
        /\ \A j \in DOMAIN jobs : jobs[j].status = "processing" =>
              j \in DOMAIN jobs' /\ jobs'[j] = jobs[j]
        /\ \A k \in DOMAIN content : ~Embedded(n, k, content[k]) =>
              <<n, k, content[k]>> \in DOMAIN jobs'
    BY SyncJobFacts
  <1>1. RowsOK'
    <2>1. \A s \in DOMAIN chunks' : s \in Slots /\ chunks'[s] \in ChunkRows
      <3> TAKE s \in DOMAIN chunks'
      <3>1. CASE s[1] # n
        BY <1>c, <3>1 DEF RowsOK
      <3>2. CASE s[1] = n
        <4>1. s = <<n, s[2]>> /\ s[2] \in DOMAIN content /\ chunks'[s] = row(s[2])
          BY <1>c, <3>2
        <4>2. s[2] \in Nat \ {0}
          BY <1>0, <4>1
        <4>3. s \in Slots
          BY <4>1, <4>2 DEF Slots
        <4> QED BY <1>r, <4>1, <4>3
      <3> QED BY <3>1, <3>2
    <2>2. \A s \in DOMAIN vectors' :
              s \in Slots /\ vectors'[s] \in [hash : Hashes, model : Models]
      BY <1>v DEF RowsOK
    <2> QED BY <2>1, <2>2, <1>j DEF RowsOK
  <1>2. WorkerHoldsItsJob'
    BY <1>j DEF WorkerHoldsItsJob
  <1>3. VectorsMatchChunks'
    <2> SUFFICES ASSUME NEW s \in DOMAIN vectors'
                 PROVE  /\ s \in DOMAIN chunks'
                        /\ vectors'[s] = [hash |-> chunks'[s].hash, model |-> model]
      BY DEF VectorsMatchChunks
    <2>1. /\ s \in DOMAIN vectors /\ vectors'[s] = vectors[s]
          /\ s \in DOMAIN chunks
          /\ vectors[s] = [hash |-> chunks[s].hash, model |-> model]
      BY <1>v DEF IndexOK, VectorsMatchChunks
    <2>2. CASE s[1] # n
      BY <1>c, <2>1, <2>2
    <2>3. CASE s[1] = n
      <3>1. /\ s = <<n, s[2]>> /\ s[2] \in DOMAIN content
            /\ Embedded(n, s[2], content[s[2]])
        BY <1>v, <2>3
      <3>2. chunks[s].hash = content[s[2]]
        BY <2>1, <3>1 DEF Embedded
      <3>3. s \in DOMAIN chunks' /\ chunks'[s] = row(s[2])
        BY <1>c, <2>3, <3>1
      <3>4. chunks'[s].hash = content[s[2]]
        BY <3>3
      <3> QED BY <2>1, <3>2, <3>3, <3>4
    <2> QED BY <2>2, <2>3
  <1>4. EmbeddedHasVector'
    <2> SUFFICES ASSUME NEW s \in DOMAIN chunks', Active(s[1])',
                        chunks'[s].status = "embedded"
                 PROVE  s \in DOMAIN vectors'
      BY DEF EmbeddedHasVector
    <2>1. CASE s[1] # n
      <3>1. s \in DOMAIN chunks /\ chunks'[s] = chunks[s] /\ s[1] \in Notes
        BY <1>c, <2>1 DEF RowsOK, Slots
      <3>2. Active(s[1])
        BY <2>1, <3>1 DEF Active
      <3>3. s \in DOMAIN vectors
        BY <3>1, <3>2 DEF IndexOK, EmbeddedHasVector
      <3> QED BY <1>v, <2>1, <3>3
    <2>2. CASE s[1] = n
      <3>1. s = <<n, s[2]>> /\ s[2] \in DOMAIN content /\ chunks'[s] = row(s[2])
        BY <1>c, <2>2
      <3>2. Embedded(n, s[2], content[s[2]])
        BY <3>1
      <3> QED BY <1>v, <3>1, <3>2
    <2> QED BY <2>1, <2>2
  <1>5. PendingHasJob'
    <2> SUFFICES ASSUME NEW s \in DOMAIN chunks', Active(s[1])',
                        chunks'[s].status = "pending"
                 PROVE  <<s[1], s[2], chunks'[s].hash>> \in DOMAIN jobs'
      BY DEF PendingHasJob
    <2>1. CASE s[1] # n
      <3>1. s \in DOMAIN chunks /\ chunks'[s] = chunks[s] /\ s[1] \in Notes
        BY <1>c, <2>1 DEF RowsOK, Slots
      <3>2. Active(s[1])
        BY <2>1, <3>1 DEF Active
      <3>3. <<s[1], s[2], chunks[s].hash>> \in DOMAIN jobs
        BY <3>1, <3>2 DEF IndexOK, PendingHasJob
      <3>4. <<s[1], s[2], chunks[s].hash>>[1] # n
        BY <2>1
      <3>5. <<s[1], s[2], chunks[s].hash>> \in DOMAIN jobs'
        BY <1>j, <3>3, <3>4
      <3> QED BY <3>1, <3>5
    <2>2. CASE s[1] = n
      <3>1. s = <<n, s[2]>> /\ s[2] \in DOMAIN content /\ chunks'[s] = row(s[2])
        BY <1>c, <2>2
      <3>2. ~Embedded(n, s[2], content[s[2]]) /\ chunks'[s].hash = content[s[2]]
        BY <3>1
      <3> QED BY <1>j, <2>2, <3>1, <3>2
    <2> QED BY <2>1, <2>2
  <1>6. ChunksOfNotes'
    <2> SUFFICES ASSUME NEW s \in DOMAIN chunks'
                 PROVE  notes'[s[1]] # Absent
      BY DEF ChunksOfNotes
    <2>1. CASE s[1] # n
      <3>1. s \in DOMAIN chunks /\ s[1] \in Notes
        BY <1>c, <2>1 DEF RowsOK, Slots
      <3> QED BY <2>1, <3>1 DEF ChunksOfNotes
    <2>2. CASE s[1] = n
      BY <2>2
    <2> QED BY <2>1, <2>2
  <1> QED BY <1>1, <1>2, <1>3, <1>4, <1>5, <1>6 DEF IndexOK

(* Clearing a note's search data and changing only that note keeps them so.*)
LEMMA ClearPreserves ==
    ASSUME IInv, NEW n \in Notes, ClearSearchData(n), model' = model,
           \A m \in Notes : m # n => notes'[m] = notes[m]
    PROVE  RowsOK' /\ WorkerHoldsItsJob' /\ IndexOK' /\ ChunksOfNotes' /\ WorkerOK'
  <1> USE DEF IInv
  <1>c. /\ \A s \in DOMAIN chunks' :
              s[1] # n /\ s \in DOMAIN chunks /\ chunks'[s] = chunks[s]
        /\ \A s \in DOMAIN chunks : s[1] # n => s \in DOMAIN chunks'
    BY DEF ClearSearchData, Without, SlotsOf
  <1>v. /\ \A s \in DOMAIN vectors' :
              s[1] # n /\ s \in DOMAIN vectors /\ vectors'[s] = vectors[s]
        /\ \A s \in DOMAIN vectors : s[1] # n => s \in DOMAIN vectors'
    BY DEF ClearSearchData, Without, SlotsOf
  <1>j. /\ \A j \in DOMAIN jobs' :
              j[1] # n /\ j \in DOMAIN jobs /\ jobs'[j] = jobs[j]
        /\ \A j \in DOMAIN jobs : j[1] # n => j \in DOMAIN jobs' /\ jobs'[j] = jobs[j]
    BY DEF ClearSearchData, Without, SlotsOf
  <1>n. \A s \in DOMAIN chunks' : s[1] \in Notes /\ notes'[s[1]] = notes[s[1]]
    BY <1>c DEF RowsOK, Slots
  <1>1. RowsOK'
    BY <1>c, <1>v, <1>j DEF RowsOK
  <1>2. WorkerHoldsItsJob' /\ WorkerOK'
    <2>1. CASE worker # Idle /\ worker.job[1] = n
      <3>1. worker' = [worker EXCEPT !.mine = FALSE]
        BY <2>1 DEF ClearSearchData
      <3>2. worker \in [job : JobKeys, revision : Nat, attempts : Nat, mine : BOOLEAN]
        BY <2>1 DEF RestOK, WorkerOK
      <3>3. worker'.mine = FALSE /\ worker' \in
              [job : JobKeys, revision : Nat, attempts : Nat, mine : BOOLEAN]
        BY <3>1, <3>2
      <3> QED BY <3>3 DEF WorkerHoldsItsJob, WorkerOK
    <2>2. CASE ~(worker # Idle /\ worker.job[1] = n)
      <3>1. worker' = worker
        BY <2>2 DEF ClearSearchData
      <3>2. worker.mine => worker.job[1] # n
        BY <2>2, IdleIsIdle
      <3> QED BY <1>j, <3>1, <3>2 DEF WorkerHoldsItsJob, RestOK, WorkerOK
    <2> QED BY <2>1, <2>2
  <1>3. VectorsMatchChunks'
    BY <1>c, <1>v DEF IndexOK, VectorsMatchChunks
  <1>4. EmbeddedHasVector'
    BY <1>c, <1>v, <1>n DEF IndexOK, EmbeddedHasVector, Active
  <1>5. PendingHasJob'
    <2> SUFFICES ASSUME NEW s \in DOMAIN chunks', Active(s[1])',
                        chunks'[s].status = "pending"
                 PROVE  <<s[1], s[2], chunks'[s].hash>> \in DOMAIN jobs'
      BY DEF PendingHasJob
    <2>1. s \in DOMAIN chunks /\ chunks'[s] = chunks[s] /\ s[1] # n /\ Active(s[1])
      BY <1>c, <1>n DEF Active
    <2>2. <<s[1], s[2], chunks[s].hash>> \in DOMAIN jobs
      BY <2>1 DEF IndexOK, PendingHasJob
    <2>3. <<s[1], s[2], chunks[s].hash>>[1] # n
      BY <2>1
    <2> QED BY <1>j, <2>1, <2>2, <2>3
  <1>6. ChunksOfNotes'
    BY <1>c, <1>n DEF ChunksOfNotes
  <1> QED BY <1>1, <1>2, <1>3, <1>4, <1>5, <1>6 DEF IndexOK

LEMMA PutNoteStep ==
    ASSUME IInv, NEW n \in Notes, NEW content \in Contents, PutNote(n, content)
    PROVE  IInv'
  <1> DEFINE revision == notes[n].revision + 1
             row == [status |-> "active", content |-> content, revision |-> revision]
  <1>1. /\ Editing /\ revision \in Revisions
        /\ notes' = [notes EXCEPT ![n] = row]
        /\ SyncNoteJobs(n, content, revision)
        /\ UNCHANGED <<model, phase, scan, worker, starts>>
    BY DEF PutNote
  <1>2. notes \in [Notes -> NoteRows] /\ revision \in Nat
    BY <1>1, QueueAssumption DEF IInv, RestOK, Revisions
  <1>3. row \in NoteRows /\ row # Absent
    BY <1>1 DEF NoteRows, Absent
  <1>4. notes' \in [Notes -> NoteRows] /\ notes'[n] = row
        /\ \A m \in Notes : m # n => notes'[m] = notes[m]
    BY <1>1, <1>2, <1>3
  <1>5. RowsOK' /\ WorkerHoldsItsJob' /\ IndexOK' /\ ChunksOfNotes'
    BY <1>1, <1>2, <1>3, <1>4, SyncPreserves
  <1>6. RestOK' /\ WorkerOnlyRuns'
    BY <1>1, <1>4 DEF IInv, RestOK, WorkerOK, WorkerOnlyRuns
  <1> QED BY <1>5, <1>6 DEF IInv

LEMMA PutAttachmentStep ==
    ASSUME IInv, NEW n \in Notes, PutAttachment(n)
    PROVE  IInv'
  <1> USE DEF IInv
  <1>1. /\ Active(n) /\ notes[n].revision + 1 \in Revisions
        /\ notes' = [notes EXCEPT ![n].revision = @ + 1]
        /\ UNCHANGED <<chunks, jobs, vectors, model, phase, scan, worker, starts>>
    BY DEF PutAttachment
  <1>2. notes \in [Notes -> NoteRows]
    BY DEF RestOK
  <1>3. notes[n] \in [status : {"active", "trashed"}, content : Contents,
                      revision : Revisions \cup {1}]
    BY <1>1, <1>2 DEF Active, NoteRows, Absent
  <1>4. /\ notes' \in [Notes -> NoteRows]
        /\ \A m \in Notes : m # n => notes'[m] = notes[m]
        /\ notes'[n].status = notes[n].status
        /\ notes'[n].status # "absent"
    BY <1>1, <1>2, <1>3 DEF NoteRows
  <1>5. \A m \in Notes : /\ Active(m)' <=> Active(m)
                         /\ notes[m] # Absent => notes'[m] # Absent
    BY <1>4 DEF Active, Absent
  <1>6. RowsOK' /\ RestOK' /\ WorkerHoldsItsJob' /\ WorkerOnlyRuns'
    BY <1>1, <1>4 DEF RowsOK, RestOK, WorkerOK, WorkerHoldsItsJob, WorkerOnlyRuns
  <1>7. \A s \in DOMAIN chunks : s[1] \in Notes
    BY DEF RowsOK, Slots
  <1>8. IndexOK' /\ ChunksOfNotes'
    BY <1>1, <1>5, <1>7 DEF IndexOK, VectorsMatchChunks, EmbeddedHasVector,
       PendingHasJob, ChunksOfNotes
  <1> QED BY <1>6, <1>8

LEMMA TrashNoteStep ==
    ASSUME IInv, NEW n \in Notes, NEW content \in Contents, TrashNote(n, content)
    PROVE  IInv'
  <1> DEFINE revision == notes[n].revision + 1
             row == [status |-> "trashed", content |-> content, revision |-> revision]
  <1>1. /\ Editing /\ revision \in Revisions
        /\ notes' = [notes EXCEPT ![n] = row]
        /\ ClearSearchData(n)
        /\ UNCHANGED <<model, phase, scan, starts>>
    BY DEF TrashNote
  <1>2. notes \in [Notes -> NoteRows] /\ row \in NoteRows
    BY <1>1 DEF IInv, RestOK, NoteRows
  <1>3. notes' \in [Notes -> NoteRows] /\ \A m \in Notes : m # n => notes'[m] = notes[m]
    BY <1>1, <1>2
  <1>4. RowsOK' /\ WorkerHoldsItsJob' /\ IndexOK' /\ ChunksOfNotes' /\ WorkerOK'
    BY <1>1, <1>3, ClearPreserves
  <1>5. RestOK' /\ WorkerOnlyRuns'
    BY <1>1, <1>3, <1>4 DEF IInv, RestOK, WorkerOnlyRuns, ClearSearchData
  <1> QED BY <1>4, <1>5 DEF IInv

LEMMA PurgeNoteStep ==
    ASSUME IInv, NEW n \in Notes, PurgeNote(n)
    PROVE  IInv'
  <1>1. /\ notes' = [notes EXCEPT ![n] = Absent]
        /\ ClearSearchData(n)
        /\ UNCHANGED <<model, phase, scan, starts>>
    BY DEF PurgeNote
  <1>2. notes \in [Notes -> NoteRows] /\ Absent \in NoteRows
    BY DEF IInv, RestOK, NoteRows
  <1>3. notes' \in [Notes -> NoteRows] /\ \A m \in Notes : m # n => notes'[m] = notes[m]
    BY <1>1, <1>2
  <1>4. RowsOK' /\ WorkerHoldsItsJob' /\ IndexOK' /\ ChunksOfNotes' /\ WorkerOK'
    BY <1>1, <1>3, ClearPreserves
  <1>5. RestOK' /\ WorkerOnlyRuns'
    BY <1>1, <1>3, <1>4 DEF IInv, RestOK, WorkerOnlyRuns, ClearSearchData
  <1> QED BY <1>4, <1>5 DEF IInv

(* Listing the active notes reads rows as they are.                        *)
LEMMA ActiveSourcesType ==
    ASSUME RestOK
    PROVE  ActiveSources \subseteq [note : Notes, content : Contents, revision : Nat]
  <1>1. \A m \in Notes : Active(m) =>
            notes[m].content \in Contents /\ notes[m].revision \in Nat
    BY QueueAssumption DEF RestOK, NoteRows, Active, Absent, Revisions
  <1> QED BY <1>1 DEF ActiveSources

LEMMA ImportNoteStep ==
    ASSUME IInv, NEW n \in Notes, NEW content \in Contents, ImportNote(n, content)
    PROVE  IInv'
  <1> USE DEF IInv
  <1> DEFINE row == [status |-> "active", content |-> content, revision |-> 1]
  <1>1. /\ phase = "down" /\ notes[n] = Absent
        /\ notes' = [notes EXCEPT ![n] = row]
        /\ phase' = "importing" /\ starts' = starts + 1
        /\ scan' = {[note |-> m, content |-> notes'[m].content,
                     revision |-> notes'[m].revision] :
                       m \in {m \in Notes : notes'[m].status = "active"}}
        /\ UNCHANGED <<chunks, jobs, vectors, model, worker>>
    BY DEF ImportNote
  <1>2. row \in NoteRows /\ row # Absent /\ notes \in [Notes -> NoteRows]
    BY DEF NoteRows, Absent, RestOK
  <1>3. /\ notes' \in [Notes -> NoteRows] /\ notes'[n] = row
        /\ \A m \in Notes : m # n => notes'[m] = notes[m]
    BY <1>1, <1>2
  <1>4. scan' \subseteq [note : Notes, content : Contents, revision : Nat]
    <2>1. \A m \in Notes : notes'[m].status = "active" =>
              notes'[m].content \in Contents /\ notes'[m].revision \in Nat
      BY <1>3, QueueAssumption DEF NoteRows, Absent, Revisions
    <2> QED BY <1>1, <2>1
  <1>5. \A s \in DOMAIN chunks : s[1] \in Notes /\ s[1] # n
    BY <1>1 DEF RowsOK, Slots, ChunksOfNotes
  <1>6. RowsOK' /\ RestOK' /\ WorkerHoldsItsJob' /\ WorkerOnlyRuns'
    BY <1>1, <1>3, <1>4
    DEF RowsOK, RestOK, WorkerOK, WorkerHoldsItsJob, WorkerOnlyRuns
  <1>7. IndexOK' /\ ChunksOfNotes'
    BY <1>1, <1>3, <1>5 DEF IndexOK, VectorsMatchChunks, EmbeddedHasVector,
       PendingHasJob, ChunksOfNotes, Active
  <1> QED BY <1>6, <1>7

(* Queueing a job keeps the rows well formed.                              *)
LEMMA EnqueueRows ==
    ASSUME NEW js, NEW j, NEW revision \in Nat,
           \A x \in DOMAIN js : js[x] \in JobRows
    PROVE  \A x \in DOMAIN Enqueue(js, j, revision) :
               Enqueue(js, j, revision)[x] \in JobRows
  <1> TAKE x \in DOMAIN Enqueue(js, j, revision)
  <1>1. /\ x \in DOMAIN js \cup {j}
        /\ Enqueue(js, j, revision)[x] =
             IF x # j THEN js[x]
             ELSE IF j \notin DOMAIN js
             THEN [revision |-> revision, status |-> "pending", attempts |-> 0]
             ELSE IF js[j].status = "processing" THEN js[j]
             ELSE [js[j] EXCEPT !.revision = revision, !.status = "pending"]
    BY DEF Enqueue
  <1>2. \A row \in JobRows :
            [row EXCEPT !.revision = revision, !.status = "pending"] \in JobRows
    BY DEF JobRows
  <1>3. [revision |-> revision, status |-> "pending", attempts |-> 0] \in JobRows
    BY DEF JobRows
  <1>4. CASE x # j
    BY <1>1, <1>4
  <1>5. CASE x = j /\ j \notin DOMAIN js
    BY <1>1, <1>3, <1>5
  <1>6. CASE x = j /\ j \in DOMAIN js /\ js[j].status = "processing"
    BY <1>1, <1>6
  <1>7. CASE x = j /\ j \in DOMAIN js /\ js[j].status # "processing"
    <2>1. Enqueue(js, j, revision)[x] =
             [js[j] EXCEPT !.revision = revision, !.status = "pending"]
      BY <1>1, <1>7, Zenon
    <2> QED BY <1>2, <1>7, <2>1
  <1> QED BY <1>4, <1>5, <1>6, <1>7

(* Making pending again what was being embedded keeps the tables           *)
(* consistent.                                                             *)
LEMMA RequeuePreserves ==
    ASSUME IInv, worker = Idle, jobs' = Requeue(jobs),
           UNCHANGED <<notes, chunks, vectors, model, worker>>
    PROVE  RowsOK' /\ WorkerHoldsItsJob' /\ IndexOK' /\ ChunksOfNotes'
  <1> USE DEF IInv
  <1>1. DOMAIN jobs' = DOMAIN jobs
    BY DEF Requeue
  <1>2. \A j \in DOMAIN jobs' : jobs'[j] \in JobRows
    <2> TAKE j \in DOMAIN jobs'
    <2>1. \A row \in JobRows : [row EXCEPT !.status = "pending"] \in JobRows
      BY DEF JobRows
    <2>2. jobs[j] \in JobRows
      BY <1>1 DEF RowsOK
    <2>3. jobs'[j] = [jobs[j] EXCEPT !.status = "pending"] \/ jobs'[j] = jobs[j]
      BY <1>1, Zenon DEF Requeue
    <2> QED BY <2>1, <2>2, <2>3
  <1>3. RowsOK' /\ WorkerHoldsItsJob'
    BY <1>1, <1>2, IdleIsIdle DEF RowsOK, WorkerHoldsItsJob
  <1>4. IndexOK' /\ ChunksOfNotes'
    BY <1>1 DEF IndexOK, VectorsMatchChunks, EmbeddedHasVector, PendingHasJob,
       ChunksOfNotes, Active
  <1> QED BY <1>3, <1>4

(* So does queueing every chunk of an active note anew for another model.  *)
LEMMA ResetPreserves ==
    ASSUME IInv, worker = Idle, ResetForRegeneration, model' \in Models,
           UNCHANGED <<notes, worker>>
    PROVE  RowsOK' /\ WorkerHoldsItsJob' /\ IndexOK' /\ ChunksOfNotes'
  <1> USE DEF IInv
  <1>1. /\ DOMAIN vectors' = {} /\ DOMAIN chunks' = DOMAIN chunks
        /\ \A s \in DOMAIN chunks : chunks'[s] =
              IF s \in ActiveSlots THEN [chunks[s] EXCEPT !.status = "pending"]
                                   ELSE chunks[s]
        /\ DOMAIN jobs' = {<<s[1], s[2], chunks[s].hash>> : s \in ActiveSlots}
        /\ \A j \in DOMAIN jobs' : jobs'[j] =
              [revision |-> chunks[<<j[1], j[2]>>].revision,
               status |-> "pending", attempts |-> 0]
    BY DEF ResetForRegeneration
  <1>2. \A s \in DOMAIN chunks : s \in Slots /\ chunks[s] \in ChunkRows
    BY DEF RowsOK
  <1>3. \A s \in ActiveSlots : s \in DOMAIN chunks
    BY DEF ActiveSlots
  <1>4. \A s \in DOMAIN chunks : chunks'[s] \in ChunkRows /\ chunks'[s].hash = chunks[s].hash
    <2> TAKE s \in DOMAIN chunks
    <2>1. \A row \in ChunkRows : /\ [row EXCEPT !.status = "pending"] \in ChunkRows
                                 /\ [row EXCEPT !.status = "pending"].hash = row.hash
      BY DEF ChunkRows
    <2>2. chunks'[s] = [chunks[s] EXCEPT !.status = "pending"] \/ chunks'[s] = chunks[s]
      BY <1>1, Zenon
    <2> QED BY <1>2, <2>1, <2>2
  <1>5. \A s \in ActiveSlots : chunks'[s].status = "pending"
    <2> TAKE s \in ActiveSlots
    <2>1. \A row \in ChunkRows : [row EXCEPT !.status = "pending"].status = "pending"
      BY DEF ChunkRows
    <2>2. chunks'[s] = [chunks[s] EXCEPT !.status = "pending"]
      BY <1>1, <1>3, Zenon
    <2> QED BY <1>2, <1>3, <2>1, <2>2
  <1>6. \A j \in DOMAIN jobs' : j \in JobKeys /\ jobs'[j] \in JobRows
    <2> TAKE j \in DOMAIN jobs'
    <2>1. PICK s \in ActiveSlots : j = <<s[1], s[2], chunks[s].hash>>
      BY <1>1
    <2>2. s \in Slots /\ chunks[s] \in ChunkRows
      BY <1>2, <1>3
    <2>3. s = <<j[1], j[2]>> /\ j \in JobKeys
      BY <2>1, <2>2 DEF Slots, ChunkRows, JobKeys
    <2>4. chunks[<<j[1], j[2]>>].revision \in Nat
      BY <2>2, <2>3 DEF ChunkRows
    <2>5. jobs'[j] \in JobRows
      <3>1. jobs'[j] = [revision |-> chunks[<<j[1], j[2]>>].revision,
                        status |-> "pending", attempts |-> 0]
        BY <1>1, Zenon
      <3> QED BY <2>4, <3>1 DEF JobRows
    <2> QED BY <2>3, <2>5
  <1>7. RowsOK'
    BY <1>1, <1>2, <1>4, <1>6 DEF RowsOK
  <1>8. WorkerHoldsItsJob'
    BY IdleIsIdle DEF WorkerHoldsItsJob
  <1>9. VectorsMatchChunks' /\ ChunksOfNotes'
    BY <1>1 DEF VectorsMatchChunks, ChunksOfNotes
  <1>10. \A s \in DOMAIN chunks' : Active(s[1])' => s \in ActiveSlots
    BY <1>1 DEF ActiveSlots, Active
  <1>11. EmbeddedHasVector'
    BY <1>5, <1>10 DEF EmbeddedHasVector
  <1>12. PendingHasJob'
    BY <1>1, <1>3, <1>4, <1>10 DEF PendingHasJob
  <1> QED BY <1>7, <1>8, <1>9, <1>11, <1>12 DEF IndexOK

LEMMA StartServerStep ==
    ASSUME IInv, NEW m \in Models, StartServer(m)
    PROVE  IInv'
  <1>1. /\ phase = "down" /\ model' = m /\ phase' = "opening"
        /\ starts' = starts + 1
        /\ UNCHANGED <<notes, scan, worker>>
    BY DEF StartServer
  <1>2. worker = Idle
    BY <1>1 DEF IInv, WorkerOnlyRuns
  <1>3. RestOK' /\ WorkerOnlyRuns'
    BY <1>1, <1>2 DEF IInv, RestOK, WorkerOK, WorkerOnlyRuns
  <1>4. RowsOK' /\ WorkerHoldsItsJob' /\ IndexOK' /\ ChunksOfNotes'
    <2>1. CASE m # model
      BY <1>1, <1>2, <2>1, ResetPreserves DEF StartServer
    <2>2. CASE m = model
      BY <1>1, <2>2 DEF StartServer, IInv, RowsOK, WorkerHoldsItsJob, IndexOK,
         VectorsMatchChunks, EmbeddedHasVector, PendingHasJob, ChunksOfNotes, Active
    <2> QED BY <2>1, <2>2
  <1> QED BY <1>3, <1>4 DEF IInv

LEMMA RequeueJobsStep ==
    ASSUME IInv, RequeueJobs
    PROVE  IInv'
  <1>1. /\ phase = "opening" /\ phase' = "listing"
        /\ UNCHANGED <<notes, chunks, vectors, model, scan, worker, starts>>
    BY DEF RequeueJobs
  <1>2. worker = Idle
    BY <1>1 DEF IInv, WorkerOnlyRuns
  <1>3. RestOK' /\ WorkerOnlyRuns'
    BY <1>1, <1>2 DEF IInv, RestOK, WorkerOK, WorkerOnlyRuns
  <1>4. RowsOK' /\ WorkerHoldsItsJob' /\ IndexOK' /\ ChunksOfNotes'
    <2>1. CASE jobs' = Requeue(jobs)
      BY <1>1, <1>2, <2>1, RequeuePreserves
    <2>2. CASE jobs' = jobs
      BY <1>1, <2>2 DEF IInv, RowsOK, WorkerHoldsItsJob, IndexOK,
         VectorsMatchChunks, EmbeddedHasVector, PendingHasJob, ChunksOfNotes, Active
    <2> QED BY <2>1, <2>2 DEF RequeueJobs
  <1> QED BY <1>3, <1>4 DEF IInv

LEMMA ScanNoteStep ==
    ASSUME IInv, NEW source \in scan, ScanNote(source)
    PROVE  IInv'
  <1> USE DEF IInv
  <1>1. /\ source \in [note : Notes, content : Contents, revision : Nat]
        /\ source.note \in Notes /\ source.content \in Contents
        /\ source.revision \in Nat
    BY DEF RestOK
  <1>2. /\ UNCHANGED <<notes, model, phase, worker, starts>>
        /\ scan' = {} \/ scan' = scan \ {source}
    BY DEF ScanNote
  <1>3. RestOK' /\ WorkerOnlyRuns'
    BY <1>2 DEF RestOK, WorkerOK, WorkerOnlyRuns
  <1>4. RowsOK' /\ WorkerHoldsItsJob' /\ IndexOK' /\ ChunksOfNotes'
    <2>1. CASE notes[source.note] = Absent
      <3>1. UNCHANGED <<chunks, jobs, vectors>>
        BY <2>1 DEF ScanNote
      <3> QED BY <1>2, <3>1 DEF RowsOK, WorkerHoldsItsJob, IndexOK,
          VectorsMatchChunks, EmbeddedHasVector, PendingHasJob, ChunksOfNotes, Active
    <2>2. CASE notes[source.note] # Absent
      <3>1. SyncNoteJobs(source.note, source.content, source.revision)
        BY <2>2 DEF ScanNote
      <3>2. notes'[source.note] # Absent
        BY <1>2, <2>2
      <3> QED BY <1>1, <1>2, <3>1, <3>2, SyncPreserves
    <2> QED BY <2>1, <2>2
  <1> QED BY <1>3, <1>4

(* Steps that write no table.                                              *)
LEMMA NoTableStep ==
    ASSUME IInv, ListNotes \/ ScanFails \/ ScanEnds \/ Stop \/ AbandonJob
    PROVE  IInv'
  <1> USE DEF IInv
  <1>1. UNCHANGED <<notes, chunks, jobs, vectors, model, starts>>
    BY DEF ListNotes, ScanFails, ScanEnds, Stop, AbandonJob
  <1>2. worker' = worker \/ worker' = Idle
    BY DEF ListNotes, ScanFails, ScanEnds, Stop, AbandonJob
  <1>3. WorkerHoldsItsJob'
    BY <1>1, <1>2, IdleIsIdle DEF WorkerHoldsItsJob
  <1>4. RestOK'
    <2>1. scan' \subseteq scan \/ scan' = ActiveSources
      BY DEF ListNotes, ScanFails, ScanEnds, Stop, AbandonJob
    <2>2. phase' \in {"down", "importing", "opening", "listing", "scanning", "running"}
      BY DEF RestOK, ListNotes, ScanFails, ScanEnds, Stop, AbandonJob
    <2>3. scan' \subseteq [note : Notes, content : Contents, revision : Nat]
      BY <2>1, ActiveSourcesType DEF RestOK
    <2> QED BY <1>1, <1>2, <2>2, <2>3 DEF RestOK, WorkerOK
  <1>5. WorkerOnlyRuns'
    BY DEF WorkerOnlyRuns, ListNotes, ScanFails, ScanEnds, Stop, AbandonJob
  <1>6. RowsOK' /\ IndexOK' /\ ChunksOfNotes'
    BY <1>1 DEF RowsOK, IndexOK, VectorsMatchChunks, EmbeddedHasVector,
       PendingHasJob, ChunksOfNotes, Active
  <1> QED BY <1>3, <1>4, <1>5, <1>6

LEMMA ClaimJobStep ==
    ASSUME IInv, NEW j \in DOMAIN jobs, ClaimJob(j)
    PROVE  IInv'
  <1> USE DEF IInv
  <1>1. /\ phase = "running" /\ worker = Idle /\ jobs[j].status = "pending"
        /\ worker' = [job |-> j, revision |-> jobs[j].revision,
                      attempts |-> jobs[j].attempts + 1, mine |-> TRUE]
        /\ UNCHANGED <<notes, chunks, vectors, model, phase, scan, starts>>
    BY DEF ClaimJob
  <1>2. /\ DOMAIN jobs' = DOMAIN jobs
        /\ \A i \in DOMAIN jobs : i # j => jobs'[i] = jobs[i]
        /\ jobs'[j] = [[jobs[j] EXCEPT !.status = "processing"]
                            EXCEPT !.attempts = @ + 1]
    BY DEF ClaimJob
  <1>3. j \in JobKeys /\ jobs[j] \in JobRows
    BY DEF RowsOK
  <1> DEFINE marked(row) == [row EXCEPT !.status = "processing"]
             counted(row) == [row EXCEPT !.attempts = @ + 1]
  <1>m. \A row \in JobRows : /\ marked(row) \in JobRows
                             /\ marked(row).status = "processing"
                             /\ marked(row).attempts = row.attempts
    BY DEF JobRows
  <1>c. \A row \in JobRows : /\ counted(row) \in JobRows
                             /\ counted(row).status = row.status
                             /\ counted(row).attempts = row.attempts + 1
    BY DEF JobRows
  <1>5. /\ jobs'[j] \in JobRows /\ jobs'[j].status = "processing"
        /\ jobs'[j].attempts = jobs[j].attempts + 1
    <2>1. jobs'[j] = counted(marked(jobs[j]))
      BY <1>2
    <2> HIDE DEF marked, counted
    <2> QED BY <1>3, <1>m, <1>c, <2>1
  <1>6. RowsOK'
    BY <1>1, <1>2, <1>5 DEF RowsOK
  <1>7. WorkerHoldsItsJob'
    BY <1>1, <1>2, <1>5 DEF WorkerHoldsItsJob
  <1>8. RestOK' /\ WorkerOnlyRuns'
    BY <1>1, <1>3 DEF RestOK, WorkerOK, WorkerOnlyRuns, JobRows
  <1>9. IndexOK' /\ ChunksOfNotes'
    BY <1>1, <1>2 DEF IndexOK, VectorsMatchChunks, EmbeddedHasVector,
       PendingHasJob, ChunksOfNotes, Active
  <1> QED BY <1>6, <1>7, <1>8, <1>9

(* A worker that is not idle holds a well formed job.                      *)
LEMMA BusyWorker ==
    ASSUME IInv, worker # Idle
    PROVE  /\ worker \in [job : JobKeys, revision : Nat, attempts : Nat, mine : BOOLEAN]
           /\ worker.job \in JobKeys /\ WorkerSlot \in Slots
           /\ worker.job = <<WorkerSlot[1], WorkerSlot[2], worker.job[3]>>
           /\ worker.job[3] \in Hashes
  BY DEF IInv, RestOK, WorkerOK, JobKeys, WorkerSlot, Slots

LEMMA CompleteJobStep ==
    ASSUME IInv, CompleteJob
    PROVE  IInv'
  <1> USE DEF IInv
  <1> DEFINE rest == IF worker.mine THEN Without(jobs, {worker.job}) ELSE jobs
             vector == [hash |-> worker.job[3], model |-> model]
  <1>1. worker # Idle /\ worker' = Idle
        /\ UNCHANGED <<notes, model, phase, scan, starts>>
    BY DEF CompleteJob
  <1>2. /\ worker.job \in JobKeys /\ WorkerSlot \in Slots
        /\ worker.job = <<WorkerSlot[1], WorkerSlot[2], worker.job[3]>>
        /\ worker.job[3] \in Hashes
    BY <1>1, BusyWorker
  <1>3. /\ DOMAIN rest \subseteq DOMAIN jobs
        /\ \A j \in DOMAIN rest : rest[j] = jobs[j]
        /\ \A j \in DOMAIN jobs : j # worker.job => j \in DOMAIN rest
    BY DEF Without
  <1>4. RestOK' /\ WorkerOnlyRuns' /\ WorkerHoldsItsJob'
    BY <1>1, IdleIsIdle DEF RestOK, WorkerOK, WorkerOnlyRuns, WorkerHoldsItsJob
  <1>5. model \in Models
    BY DEF RestOK
  <1>6. CASE ChunkIsCurrent
    <2>1. /\ WorkerSlot \in DOMAIN chunks
          /\ chunks[WorkerSlot].hash = worker.job[3]
      BY <1>6 DEF ChunkIsCurrent, ChunkHasText
    <2>2. /\ vectors' = [s \in DOMAIN vectors \cup {WorkerSlot} |->
                IF s = WorkerSlot THEN vector ELSE vectors[s]]
          /\ chunks' = [chunks EXCEPT ![WorkerSlot].status = "embedded"]
          /\ jobs' = rest
      BY <1>6 DEF CompleteJob
    <2>3. /\ DOMAIN chunks' = DOMAIN chunks
          /\ \A s \in DOMAIN chunks : s # WorkerSlot => chunks'[s] = chunks[s]
          /\ chunks'[WorkerSlot] = [chunks[WorkerSlot] EXCEPT !.status = "embedded"]
      BY <2>1, <2>2
    <2>4. \A row \in ChunkRows :
             LET new == [row EXCEPT !.status = "embedded"]
             IN  new \in ChunkRows /\ new.hash = row.hash /\ new.status = "embedded"
      BY DEF ChunkRows
    <2>5. chunks[WorkerSlot] \in ChunkRows
      BY <2>1 DEF RowsOK
    <2>6. /\ chunks'[WorkerSlot] \in ChunkRows
          /\ chunks'[WorkerSlot].hash = worker.job[3]
          /\ chunks'[WorkerSlot].status = "embedded"
      BY <2>1, <2>3, <2>4, <2>5
    <2>7. /\ DOMAIN vectors' = DOMAIN vectors \cup {WorkerSlot}
          /\ vectors'[WorkerSlot] = vector
          /\ \A s \in DOMAIN vectors : s # WorkerSlot => vectors'[s] = vectors[s]
      BY <2>2
    <2>8. vector \in [hash : Hashes, model : Models]
      BY <1>2, <1>5
    <2>9. RowsOK'
      <3>1. DOMAIN chunks' \subseteq Slots /\ \A s \in DOMAIN chunks' : chunks'[s] \in ChunkRows
        BY <2>3, <2>6 DEF RowsOK
      <3>2. DOMAIN jobs' \subseteq JobKeys /\ \A j \in DOMAIN jobs' : jobs'[j] \in JobRows
        BY <1>3, <2>2 DEF RowsOK
      <3>3. /\ DOMAIN vectors' \subseteq Slots
            /\ \A s \in DOMAIN vectors' : vectors'[s] \in [hash : Hashes, model : Models]
        BY <1>2, <2>7, <2>8 DEF RowsOK
      <3> QED BY <1>1, <3>1, <3>2, <3>3 DEF RowsOK
    <2>10. VectorsMatchChunks'
      BY <1>1, <2>1, <2>3, <2>6, <2>7 DEF IndexOK, VectorsMatchChunks
    <2>11. EmbeddedHasVector'
      BY <1>1, <2>3, <2>7 DEF IndexOK, EmbeddedHasVector, Active
    <2>12. PendingHasJob'
      <3> SUFFICES ASSUME NEW s \in DOMAIN chunks', Active(s[1])',
                          chunks'[s].status = "pending"
                   PROVE  <<s[1], s[2], chunks'[s].hash>> \in DOMAIN jobs'
        BY DEF PendingHasJob
      <3>1. s # WorkerSlot /\ s \in DOMAIN chunks /\ chunks'[s] = chunks[s] /\ Active(s[1])
        BY <1>1, <2>3, <2>6 DEF Active
      <3>2. <<s[1], s[2], chunks[s].hash>> \in DOMAIN jobs
        BY <3>1 DEF IndexOK, PendingHasJob
      <3>3. s \in Slots
        BY <3>1 DEF RowsOK
      <3>4. <<s[1], s[2], chunks[s].hash>> # worker.job
        BY <1>2, <3>1, <3>3 DEF Slots
      <3> QED BY <1>3, <2>2, <3>1, <3>2, <3>4
    <2>13. ChunksOfNotes'
      BY <1>1, <2>3 DEF ChunksOfNotes
    <2> QED BY <1>4, <2>9, <2>10, <2>11, <2>12, <2>13 DEF IndexOK
  <1>7. CASE ~ChunkIsCurrent
    <2> DEFINE revision == chunks[WorkerSlot].revision
    <2>1. /\ UNCHANGED <<chunks, vectors>>
          /\ jobs' = IF ChunkHasText THEN Enqueue(rest, worker.job, revision) ELSE rest
      BY <1>7 DEF CompleteJob
    <2>2. \A j \in DOMAIN rest : rest[j] \in JobRows /\ j \in JobKeys
      BY <1>3 DEF RowsOK
    <2>3. /\ DOMAIN jobs' \subseteq JobKeys
          /\ \A j \in DOMAIN jobs' : jobs'[j] \in JobRows
          /\ \A j \in DOMAIN rest : j \in DOMAIN jobs'
          /\ ChunkHasText => worker.job \in DOMAIN jobs'
      <3>1. CASE ChunkHasText
        <4>1. revision \in Nat
          BY <3>1 DEF ChunkHasText, RowsOK, ChunkRows
        <4>2. jobs' = Enqueue(rest, worker.job, revision)
          BY <2>1, <3>1
        <4>3. DOMAIN jobs' = DOMAIN rest \cup {worker.job}
          BY <4>2 DEF Enqueue
        <4>4. \A j \in DOMAIN jobs' : jobs'[j] \in JobRows
          BY <2>2, <4>1, <4>2, EnqueueRows
        <4> QED BY <1>2, <2>2, <4>3, <4>4
      <3>2. CASE ~ChunkHasText
        BY <2>1, <2>2, <3>2
      <3> QED BY <3>1, <3>2
    <2>4. RowsOK'
      BY <1>1, <2>1, <2>3 DEF RowsOK
    <2>5. VectorsMatchChunks' /\ EmbeddedHasVector' /\ ChunksOfNotes'
      BY <1>1, <2>1 DEF IndexOK, VectorsMatchChunks, EmbeddedHasVector,
         ChunksOfNotes, Active
    <2>6. PendingHasJob'
      <3> SUFFICES ASSUME NEW s \in DOMAIN chunks, Active(s[1]),
                          chunks[s].status = "pending"
                   PROVE  <<s[1], s[2], chunks[s].hash>> \in DOMAIN jobs'
        BY <1>1, <2>1 DEF PendingHasJob, Active
      <3>1. <<s[1], s[2], chunks[s].hash>> \in DOMAIN jobs
        BY DEF IndexOK, PendingHasJob
      <3>2. CASE <<s[1], s[2], chunks[s].hash>> # worker.job
        BY <1>3, <2>3, <3>1, <3>2
      <3>3. CASE <<s[1], s[2], chunks[s].hash>> = worker.job
        <4>1. s \in Slots
          BY DEF RowsOK
        <4>2. s = WorkerSlot /\ chunks[s].hash = worker.job[3]
          BY <1>2, <3>3, <4>1 DEF Slots, WorkerSlot
        <4>3. ChunkHasText
          BY <4>2 DEF ChunkHasText
        <4> QED BY <2>3, <3>3, <4>3
      <3> QED BY <3>2, <3>3
    <2> QED BY <1>4, <2>4, <2>5, <2>6 DEF IndexOK
  <1> QED BY <1>6, <1>7

LEMMA FailJobStep ==
    ASSUME IInv, FailJob
    PROVE  IInv'
  <1> USE DEF IInv
  <1> DEFINE result == IF worker.attempts >= MaxAttempts THEN "failed" ELSE "pending"
  <1>1. /\ worker # Idle /\ worker' = Idle
        /\ UNCHANGED <<notes, vectors, model, phase, scan, starts>>
    BY DEF FailJob
  <1>2. RestOK' /\ WorkerOnlyRuns' /\ WorkerHoldsItsJob'
    BY <1>1, IdleIsIdle DEF RestOK, WorkerOK, WorkerOnlyRuns, WorkerHoldsItsJob
  <1>3. /\ DOMAIN jobs' = DOMAIN jobs
        /\ \A j \in DOMAIN jobs : jobs'[j] \in JobRows
    <2>1. CASE worker.mine
      <3>1. worker.job \in DOMAIN jobs
        BY <2>1 DEF WorkerHoldsItsJob
      <3>2. jobs' = [jobs EXCEPT ![worker.job].status = result]
        BY <2>1 DEF FailJob
      <3>3. /\ DOMAIN jobs' = DOMAIN jobs
            /\ jobs'[worker.job] = [jobs[worker.job] EXCEPT !.status = result]
            /\ \A j \in DOMAIN jobs : j # worker.job => jobs'[j] = jobs[j]
        BY <3>1, <3>2
      <3>4. \A row \in JobRows : [row EXCEPT !.status = result] \in JobRows
        BY DEF JobRows
      <3> QED BY <3>1, <3>3, <3>4 DEF RowsOK
    <2>2. CASE ~worker.mine
      BY <2>2 DEF FailJob, RowsOK
    <2> QED BY <2>1, <2>2
  <1>4. /\ DOMAIN chunks' = DOMAIN chunks
        /\ \A s \in DOMAIN chunks : /\ chunks'[s] \in ChunkRows
                                    /\ chunks'[s].hash = chunks[s].hash
                                    /\ \/ chunks'[s] = chunks[s]
                                       \/ chunks'[s].status = "failed"
    <2>1. CASE ChunkIsCurrent /\ worker.attempts >= MaxAttempts
      <3>1. WorkerSlot \in DOMAIN chunks
        BY <2>1 DEF ChunkIsCurrent, ChunkHasText
      <3>2. chunks' = [chunks EXCEPT ![WorkerSlot].status = "failed"]
        BY <2>1 DEF FailJob
      <3>3. /\ DOMAIN chunks' = DOMAIN chunks
            /\ chunks'[WorkerSlot] = [chunks[WorkerSlot] EXCEPT !.status = "failed"]
            /\ \A s \in DOMAIN chunks : s # WorkerSlot => chunks'[s] = chunks[s]
        BY <3>1, <3>2
      <3>4. \A row \in ChunkRows : /\ [row EXCEPT !.status = "failed"] \in ChunkRows
                                   /\ [row EXCEPT !.status = "failed"].hash = row.hash
                                   /\ [row EXCEPT !.status = "failed"].status = "failed"
        BY DEF ChunkRows
      <3>5. chunks[WorkerSlot] \in ChunkRows
        BY <3>1 DEF RowsOK
      <3>6. /\ chunks'[WorkerSlot] \in ChunkRows
            /\ chunks'[WorkerSlot].hash = chunks[WorkerSlot].hash
            /\ chunks'[WorkerSlot].status = "failed"
        BY <3>3, <3>4, <3>5
      <3>7. \A s \in DOMAIN chunks : chunks[s] \in ChunkRows
        BY DEF RowsOK
      <3>8. /\ DOMAIN chunks' = DOMAIN chunks
            /\ \A s \in DOMAIN chunks : s # WorkerSlot => chunks'[s] = chunks[s]
        BY <3>3
      <3> QED BY <3>6, <3>7, <3>8
    <2>2. CASE ~(ChunkIsCurrent /\ worker.attempts >= MaxAttempts)
      BY <2>2 DEF FailJob, RowsOK
    <2> QED BY <2>1, <2>2
  <1>5. RowsOK'
    BY <1>1, <1>3, <1>4 DEF RowsOK
  <1>6. VectorsMatchChunks' /\ ChunksOfNotes'
    BY <1>1, <1>4 DEF IndexOK, VectorsMatchChunks, ChunksOfNotes
  <1>7. EmbeddedHasVector' /\ PendingHasJob'
    BY <1>1, <1>3, <1>4 DEF IndexOK, EmbeddedHasVector, PendingHasJob, Active
  <1> QED BY <1>2, <1>5, <1>6, <1>7 DEF IndexOK

LEMMA StutterInv == IInv /\ UNCHANGED vars => IInv'
  BY DEF vars, IInv, RowsOK, RestOK, WorkerOK, WorkerHoldsItsJob, IndexOK,
     VectorsMatchChunks, EmbeddedHasVector, PendingHasJob, ChunksOfNotes,
     WorkerOnlyRuns, Active

LEMMA NextInv == IInv /\ [Next]_vars => IInv'
  <1> SUFFICES ASSUME IInv, [Next]_vars
               PROVE  IInv'
    OBVIOUS
  <1>1. CASE Edit
    BY <1>1, PutNoteStep, PutAttachmentStep, TrashNoteStep, PurgeNoteStep DEF Edit
  <1>2. CASE Scan
    BY <1>2, RequeueJobsStep, ScanNoteStep, NoTableStep DEF Scan
  <1>3. CASE Work
    BY <1>3, CompleteJobStep, FailJobStep, NoTableStep, ClaimJobStep DEF Work
  <1>4. CASE Start
    BY <1>4, StartServerStep, ImportNoteStep DEF Start
  <1>5. CASE Stop
    BY <1>5, NoTableStep
  <1>6. CASE UNCHANGED vars
    BY <1>6, StutterInv
  <1> QED BY <1>1, <1>2, <1>3, <1>4, <1>5, <1>6 DEF Next

LEMMA Invariance == Spec => []IInv
  BY InitInv, NextInv, PTL DEF Spec

(* Every table of the queue stays well formed, and the job the worker      *)
(* holds, if its row was not deleted under it, is that row, still marked   *)
(* processing with the attempts counted when it was claimed.               *)
THEOREM QueueTypeCorrect == Spec => []TypeOK
  <1>1. IInv => TypeOK
    BY TypeOKIsParts DEF IInv
  <1> QED BY <1>1, Invariance, PTL

(* Whatever overtakes a job between its two transactions, a vector is      *)
(* stored only for the text it was computed from, by the configured model. *)
THEOREM VectorsMatchAlways == Spec => []VectorsMatchChunks
  <1>1. IInv => VectorsMatchChunks
    BY DEF IInv, IndexOK
  <1> QED BY <1>1, Invariance, PTL

(* A chunk of an active note that is marked embedded has its vector: no    *)
(* edit, reset or late completion leaves one that is never embedded again. *)
THEOREM EmbeddedNeverWithoutVector == Spec => []EmbeddedHasVector
  <1>1. IInv => EmbeddedHasVector
    BY DEF IInv, IndexOK
  <1> QED BY <1>1, Invariance, PTL

(* A chunk of an active note that waits for its vector has a stored job of *)
(* its text: no interleaving of edits, scans, restarts and the worker      *)
(* loses the work.                                                         *)
THEOREM PendingNeverWithoutJob == Spec => []PendingHasJob
  <1>1. IInv => PendingHasJob
    BY DEF IInv, IndexOK
  <1> QED BY <1>1, Invariance, PTL

-----------------------------------------------------------------------------
(* Every job has its note.                                                 *)
JobsOfNotes == \A j \in DOMAIN jobs : notes[j[1]] # Absent

(* No step but a purge makes a note absent, and no step queues a job for a *)
(* note that then is: what is queued is of a chunk or of an active note.   *)
LEMMA JobsNext ==
    ASSUME IInv, JobsOfNotes, [Next]_vars
    PROVE  JobsOfNotes'
  <1> USE DEF IInv
  <1>n. notes \in [Notes -> NoteRows]
    BY DEF RestOK
  <1>j. \A j \in DOMAIN jobs : j[1] \in Notes
    BY DEF RowsOK, JobKeys
  <1>k. \A s \in DOMAIN chunks : s[1] \in Notes /\ notes[s[1]] # Absent
    BY DEF RowsOK, Slots, ChunksOfNotes
  <1> DEFINE Stays == \A m \in Notes : notes[m] # Absent => notes'[m] # Absent
             Queues == \A j \in DOMAIN jobs' :
                          \/ j \in DOMAIN jobs
                          \/ j[1] \in Notes /\ notes'[j[1]] # Absent
  <1>q. Stays /\ Queues => JobsOfNotes'
    BY <1>j DEF JobsOfNotes
  <1>s. ASSUME NEW n \in Notes, NEW content, NEW revision, notes'[n] # Absent,
               SyncNoteJobs(n, content, revision)
        PROVE  Queues
    <2> DEFINE queued == {<<n, k, content[k]>> : k \in DOMAIN content}
    <2>1. DOMAIN jobs' \subseteq DOMAIN jobs \cup queued
      BY <1>s DEF SyncNoteJobs
    <2> QED BY <1>s, <2>1
  <1>c. ASSUME NEW n \in Notes, ClearSearchData(n),
               \A m \in Notes : m # n => notes'[m] = notes[m]
        PROVE  JobsOfNotes'
    <2>1. \A j \in DOMAIN jobs' : j \in DOMAIN jobs /\ j[1] # n
      BY <1>c DEF ClearSearchData, Without, SlotsOf
    <2> QED BY <1>c, <1>j, <2>1 DEF JobsOfNotes
  <1>1. ASSUME NEW n \in Notes, NEW content \in Contents, PutNote(n, content)
        PROVE  JobsOfNotes'
    <2>1. /\ notes'[n].status = "active"
          /\ \A m \in Notes : m # n => notes'[m] = notes[m]
      BY <1>1, <1>n DEF PutNote
    <2>2. notes'[n] # Absent /\ Stays
      BY <2>1 DEF Absent
    <2> QED BY <1>1, <1>s, <1>q, <2>2 DEF PutNote
  <1>2. ASSUME NEW n \in Notes, PutAttachment(n)
        PROVE  JobsOfNotes'
    <2>1. /\ notes' = [notes EXCEPT ![n].revision = @ + 1] /\ Active(n)
          /\ jobs' = jobs
      BY <1>2 DEF PutAttachment
    <2>2. notes[n] \in [status : {"active", "trashed"}, content : Contents,
                        revision : Revisions \cup {1}]
      BY <1>n, <2>1 DEF Active, NoteRows, Absent
    <2>3. notes'[n].status = notes[n].status /\ \A m \in Notes : m # n => notes'[m] = notes[m]
      BY <1>n, <2>1, <2>2
    <2>4. Stays
      BY <2>1, <2>3 DEF Active, Absent
    <2> QED BY <1>q, <2>1, <2>4
  <1>3. ASSUME NEW n \in Notes, NEW content \in Contents, TrashNote(n, content)
        PROVE  JobsOfNotes'
    BY <1>3, <1>c, <1>n DEF TrashNote
  <1>4. ASSUME NEW n \in Notes, PurgeNote(n)
        PROVE  JobsOfNotes'
    BY <1>4, <1>c, <1>n DEF PurgeNote
  <1>5. ASSUME NEW source \in scan, ScanNote(source)
        PROVE  JobsOfNotes'
    <2>1. notes' = notes /\ source.note \in Notes
      BY <1>5 DEF ScanNote, RestOK
    <2>2. CASE notes[source.note] = Absent
      BY <1>5, <2>1, <2>2 DEF ScanNote, JobsOfNotes
    <2>3. CASE notes[source.note] # Absent
      BY <1>5, <1>s, <1>q, <2>1, <2>3 DEF ScanNote
    <2> QED BY <2>2, <2>3
  <1>6. CASE CompleteJob
    <2>1. notes' = notes /\ worker # Idle
      BY <1>6 DEF CompleteJob
    <2>2. DOMAIN jobs' \subseteq DOMAIN jobs \cup {worker.job}
      BY <1>6 DEF CompleteJob, Enqueue, Without
    <2>3. worker.job \in DOMAIN jobs' => worker.job \in DOMAIN jobs \/ ChunkHasText
      BY <1>6 DEF CompleteJob, Enqueue, Without
    <2>4. ChunkHasText => worker.job[1] \in Notes /\ notes[worker.job[1]] # Absent
      BY <1>k DEF ChunkHasText, WorkerSlot
    <2> QED BY <1>q, <2>1, <2>2, <2>3, <2>4
  <1>7. CASE FailJob \/ \E j \in DOMAIN jobs : ClaimJob(j)
    <2>1. notes' = notes /\ DOMAIN jobs' = DOMAIN jobs
      BY <1>7 DEF FailJob, ClaimJob
    <2> QED BY <2>1 DEF JobsOfNotes
  <1>8. ASSUME NEW n \in Notes, NEW content \in Contents, ImportNote(n, content)
        PROVE  JobsOfNotes'
    <2>1. jobs' = jobs /\ notes'[n].status = "active"
          /\ \A m \in Notes : m # n => notes'[m] = notes[m]
      BY <1>8, <1>n DEF ImportNote
    <2>2. Stays
      BY <2>1 DEF Absent
    <2> QED BY <1>q, <2>1, <2>2
  <1>9. ASSUME NEW m \in Models, StartServer(m)
        PROVE  JobsOfNotes'
    <2>1. notes' = notes
      BY <1>9 DEF StartServer
    <2>2. CASE m # model
      <3>1. DOMAIN jobs' = {<<s[1], s[2], chunks[s].hash>> : s \in ActiveSlots}
        BY <1>9, <2>2 DEF StartServer, ResetForRegeneration
      <3>2. \A s \in ActiveSlots : s \in DOMAIN chunks
        BY DEF ActiveSlots
      <3>3. Queues
        BY <1>k, <2>1, <3>1, <3>2
      <3> QED BY <1>q, <2>1, <3>3
    <2>3. CASE m = model
      BY <1>9, <2>1, <2>3 DEF StartServer, JobsOfNotes
    <2> QED BY <2>2, <2>3
  <1>10. CASE RequeueJobs
    <2>1. notes' = notes /\ DOMAIN jobs' = DOMAIN jobs
      BY <1>10 DEF RequeueJobs, Requeue
    <2> QED BY <2>1 DEF JobsOfNotes
  <1>11. CASE ListNotes \/ ScanFails \/ ScanEnds \/ AbandonJob \/ Stop \/ UNCHANGED vars
    <2>1. notes' = notes /\ jobs' = jobs
      BY <1>11 DEF ListNotes, ScanFails, ScanEnds, AbandonJob, Stop, vars
    <2> QED BY <2>1 DEF JobsOfNotes
  <1> QED BY <1>1, <1>2, <1>3, <1>4, <1>5, <1>6, <1>7, <1>8, <1>9, <1>10, <1>11
      DEF Next, Edit, Scan, Work, Start

(* Whatever the scan had listed and the worker was embedding when it went, *)
(* a purged note has no chunk, no vector and no job.                       *)
THEOREM PurgeLeavesNothingBehind == Spec => []PurgedLeavesNothing
  <1>1. Init => JobsOfNotes
    BY DEF Init, JobsOfNotes
  <1>2. IInv /\ JobsOfNotes => PurgedLeavesNothing
    BY DEF IInv, IndexOK, VectorsMatchChunks, ChunksOfNotes, JobsOfNotes,
       PurgedLeavesNothing, SlotsOf
  <1>3. IInv /\ JobsOfNotes /\ [Next]_vars => JobsOfNotes'
    BY JobsNext
  <1> QED BY <1>1, <1>2, <1>3, Invariance, PTL DEF Spec

-----------------------------------------------------------------------------
(* A note whose chunks are of its text is indexed: vectors match chunks.   *)
LEMMA IndexedByChunks ==
    ASSUME IInv', NEW n \in Notes, OfItsText(n, chunks)'
    PROVE  Indexed(n)'
  BY DEF IInv, IndexOK, VectorsMatchChunks, Indexed, OfItsText, SlotsOf

(* A note whose text stays, and whose chunks at most change their status.  *)
LEMMA IndexKept ==
    ASSUME NEW n \in Notes, Indexed(n), notes'[n] = notes[n],
           \A s \in SlotsOf(n, chunks') :
               s \in DOMAIN chunks /\ chunks'[s].hash = chunks[s].hash
    PROVE  OfItsText(n, chunks)'
  <1>1. TextOf(n)' = TextOf(n)
    BY DEF TextOf, Active
  <1> QED BY <1>1 DEF Indexed, OfItsText, SlotsOf

(* Writing a note's chunks from the text it has.                           *)
LEMMA SyncIndexes ==
    ASSUME IInv, NEW n \in Notes, NEW content \in Contents, NEW revision \in Nat,
           SyncNoteJobs(n, content, revision), TextOf(n)' = content
    PROVE  OfItsText(n, chunks)'
  <1>1. \A s \in DOMAIN chunks' : s[1] = n =>
            s[2] \in DOMAIN content /\ chunks'[s].hash = content[s[2]]
    BY SyncFacts DEF IInv
  <1> QED BY <1>1 DEF OfItsText, SlotsOf

(* Writing or clearing the chunks of one note leaves those of the others.  *)
LEMMA OthersKept ==
    ASSUME IInv, NEW n \in Notes, NEW m \in Notes, m # n, Indexed(m),
           notes'[m] = notes[m],
           \/ ClearSearchData(n)
           \/ \E content \in Contents, revision \in Nat : SyncNoteJobs(n, content, revision)
    PROVE  OfItsText(m, chunks)'
  <1>1. CASE ClearSearchData(n)
    <2>1. \A s \in DOMAIN chunks' : s \in DOMAIN chunks /\ chunks'[s] = chunks[s]
      BY <1>1 DEF ClearSearchData, Without
    <2> QED BY <2>1, IndexKept DEF SlotsOf
  <1>2. ASSUME NEW content \in Contents, NEW revision \in Nat,
               SyncNoteJobs(n, content, revision)
        PROVE  OfItsText(m, chunks)'
    <2>1. \A s \in DOMAIN chunks' : s[1] # n =>
              s \in DOMAIN chunks /\ chunks'[s] = chunks[s]
      BY <1>2, SyncFacts DEF IInv
    <2> QED BY <2>1, IndexKept DEF SlotsOf
  <1> QED BY <1>1, <1>2

(* A transaction on the search data of n leaves it as its text says, unless*)
(* it is the scan with an overtaken text.                                  *)
LEMMA WritesIndex ==
    ASSUME IInv, NEW n \in Notes, WritesIndexOf(n)
    PROVE  OfItsText(n, chunks)' \/ WritesOvertakenText(n)
  <1> USE DEF IInv
  <1>n. notes \in [Notes -> NoteRows]
    BY DEF RestOK
  <1>1. ASSUME NEW content \in Contents, PutNote(n, content)
        PROVE  OfItsText(n, chunks)'
    <2> DEFINE revision == notes[n].revision + 1
    <2>1. revision \in Nat /\ SyncNoteJobs(n, content, revision)
      BY <1>1, QueueAssumption DEF PutNote, Revisions
    <2>2. TextOf(n)' = content
      BY <1>1, <1>n DEF PutNote, TextOf, Active
    <2> QED BY <2>1, <2>2, SyncIndexes
  <1>2. CASE ClearSearchData(n)
    <2>1. SlotsOf(n, chunks') = {}
      BY <1>2 DEF ClearSearchData, Without, SlotsOf
    <2> QED BY <2>1 DEF OfItsText, SlotsOf
  <1>3. ASSUME NEW source \in scan, source.note = n, ScanNote(source)
        PROVE  OfItsText(n, chunks)' \/ WritesOvertakenText(n)
    <2>1. source.content \in Contents /\ source.revision \in Nat
      BY DEF RestOK
    <2>2. notes' = notes /\ TextOf(n)' = TextOf(n)
      BY <1>3 DEF ScanNote, TextOf, Active
    <2>3. CASE notes[n] = Absent
      <3>1. chunks' = chunks /\ SlotsOf(n, chunks) = {}
        BY <1>3, <2>3 DEF ScanNote, ChunksOfNotes, SlotsOf
      <3> QED BY <3>1 DEF OfItsText, SlotsOf
    <2>4. CASE notes[n] # Absent /\ source.content = TextOf(n)
      <3>1. SyncNoteJobs(n, source.content, source.revision)
        BY <1>3, <2>4 DEF ScanNote
      <3> QED BY <2>1, <2>2, <2>4, <3>1, SyncIndexes
    <2>5. CASE notes[n] # Absent /\ source.content # TextOf(n)
      BY <1>3, <2>5 DEF WritesOvertakenText
    <2> QED BY <2>3, <2>4, <2>5
  <1> QED BY <1>1, <1>2, <1>3 DEF WritesIndexOf, TrashNote, PurgeNote

(* What the worker, a start and an import make of the chunks: statuses.    *)
LEMMA HashesKept ==
    ASSUME IInv, Work \/ Start
    PROVE  /\ DOMAIN chunks' = DOMAIN chunks
           /\ \A s \in DOMAIN chunks : chunks'[s].hash = chunks[s].hash
  <1> USE DEF IInv
  <1>r. \A s \in DOMAIN chunks : chunks[s] \in ChunkRows
    BY DEF RowsOK
  <1>1. ASSUME NEW result, WorkerSlot \in DOMAIN chunks,
               chunks' = [chunks EXCEPT ![WorkerSlot].status = result]
        PROVE  /\ DOMAIN chunks' = DOMAIN chunks
               /\ \A s \in DOMAIN chunks : chunks'[s].hash = chunks[s].hash
    <2>1. \A row \in ChunkRows : [row EXCEPT !.status = result].hash = row.hash
      BY DEF ChunkRows
    <2>2. /\ DOMAIN chunks' = DOMAIN chunks
          /\ chunks'[WorkerSlot] = [chunks[WorkerSlot] EXCEPT !.status = result]
          /\ \A s \in DOMAIN chunks : s # WorkerSlot => chunks'[s] = chunks[s]
      BY <1>1
    <2>3. chunks'[WorkerSlot].hash = chunks[WorkerSlot].hash
      BY <1>1, <1>r, <2>1, <2>2
    <2>4. DOMAIN chunks' = DOMAIN chunks
      BY <2>2
    <2>5. \A s \in DOMAIN chunks : s # WorkerSlot => chunks'[s] = chunks[s]
      BY <2>2
    <2> QED BY <2>3, <2>4, <2>5
  <1>2. CASE ChunkIsCurrent /\ CompleteJob
    BY <1>1, <1>2 DEF CompleteJob, ChunkIsCurrent, ChunkHasText
  <1>3. CASE ChunkIsCurrent /\ FailJob
    BY <1>1, <1>3 DEF FailJob, ChunkIsCurrent, ChunkHasText
  <1>4. CASE Work /\ (~ChunkIsCurrent \/ ~(CompleteJob \/ FailJob))
    <2>1. chunks' = chunks
      BY <1>4 DEF Work, CompleteJob, FailJob, AbandonJob, ClaimJob
    <2> QED BY <2>1
  <1>5. CASE ResetForRegeneration
    <2>1. /\ DOMAIN chunks' = DOMAIN chunks
          /\ \A s \in DOMAIN chunks : chunks'[s] =
                IF s \in ActiveSlots THEN [chunks[s] EXCEPT !.status = "pending"]
                                     ELSE chunks[s]
      BY <1>5 DEF ResetForRegeneration
    <2>2. \A row \in ChunkRows : [row EXCEPT !.status = "pending"].hash = row.hash
      BY DEF ChunkRows
    <2>3. \A s \in DOMAIN chunks : \/ chunks'[s] = [chunks[s] EXCEPT !.status = "pending"]
                                   \/ chunks'[s] = chunks[s]
      BY <2>1, Zenon
    <2>4. DOMAIN chunks' = DOMAIN chunks
      BY <2>1
    <2> QED BY <1>r, <2>2, <2>3, <2>4
  <1>6. CASE Start /\ ~ResetForRegeneration
    <2>1. chunks' = chunks
      BY <1>6 DEF Start, StartServer, ImportNote
    <2> QED BY <2>1
  <1>7. CASE Work
    BY <1>2, <1>3, <1>4, <1>7
  <1>8. CASE Start
    BY <1>5, <1>6, <1>8
  <1> QED BY <1>7, <1>8

(* Every other step leaves an indexed note indexed.                        *)
LEMMA OtherStepsKeepIndex ==
    ASSUME IInv, NEW n \in Notes, Indexed(n), [Next]_vars, ~WritesIndexOf(n)
    PROVE  OfItsText(n, chunks)'
  <1> USE DEF IInv
  <1>n. notes \in [Notes -> NoteRows]
    BY DEF RestOK
  <1>1. ASSUME NEW m \in Notes, NEW content \in Contents, PutNote(m, content)
        PROVE  OfItsText(n, chunks)'
    <2>1. n # m
      BY <1>1 DEF WritesIndexOf
    <2>2. notes'[n] = notes[n]
      BY <1>1, <1>n, <2>1 DEF PutNote
    <2>3. \E c \in Contents, revision \in Nat : SyncNoteJobs(m, c, revision)
      BY <1>1, QueueAssumption DEF PutNote, Revisions
    <2> QED BY <2>1, <2>2, <2>3, OthersKept
  <1>2. ASSUME NEW m \in Notes, PutAttachment(m)
        PROVE  OfItsText(n, chunks)'
    <2>1. chunks' = chunks /\ notes' = [notes EXCEPT ![m].revision = @ + 1] /\ Active(m)
      BY <1>2 DEF PutAttachment
    <2>2. notes[m] \in [status : {"active", "trashed"}, content : Contents,
                        revision : Revisions \cup {1}]
      BY <1>n, <2>1 DEF Active, NoteRows, Absent
    <2>3. /\ notes'[m].status = notes[m].status /\ notes'[m].content = notes[m].content
          /\ n # m => notes'[n] = notes[n]
      BY <1>n, <2>1, <2>2
    <2>4. TextOf(n)' = TextOf(n)
      BY <2>3 DEF TextOf, Active
    <2> QED BY <2>1, <2>4 DEF Indexed, OfItsText, SlotsOf
  <1>3. ASSUME NEW m \in Notes, NEW content \in Contents, TrashNote(m, content)
        PROVE  OfItsText(n, chunks)'
    <2>1. n # m
      BY <1>3 DEF WritesIndexOf
    <2>2. notes'[n] = notes[n] /\ ClearSearchData(m)
      BY <1>3, <1>n, <2>1 DEF TrashNote
    <2> QED BY <2>1, <2>2, OthersKept
  <1>4. ASSUME NEW m \in Notes, PurgeNote(m)
        PROVE  OfItsText(n, chunks)'
    <2>1. n # m
      BY <1>4 DEF WritesIndexOf
    <2>2. notes'[n] = notes[n] /\ ClearSearchData(m)
      BY <1>4, <1>n, <2>1 DEF PurgeNote
    <2> QED BY <2>1, <2>2, OthersKept
  <1>5. ASSUME NEW source \in scan, ScanNote(source)
        PROVE  OfItsText(n, chunks)'
    <2>1. /\ source.note \in Notes /\ source.content \in Contents
          /\ source.revision \in Nat /\ notes' = notes
      BY <1>5 DEF ScanNote, RestOK
    <2>2. source.note # n
      BY <1>5 DEF WritesIndexOf
    <2>3. CASE notes[source.note] = Absent
      <3>1. chunks' = chunks
        BY <1>5, <2>3 DEF ScanNote
      <3> QED BY <2>1, <3>1, IndexKept DEF SlotsOf
    <2>4. CASE notes[source.note] # Absent
      <3>1. SyncNoteJobs(source.note, source.content, source.revision)
        BY <1>5, <2>4 DEF ScanNote
      <3> QED BY <2>1, <2>2, <3>1, OthersKept
    <2> QED BY <2>3, <2>4
  <1>6. CASE Work
    <2>1. notes' = notes
      BY <1>6 DEF Work, CompleteJob, FailJob, AbandonJob, ClaimJob
    <2> QED BY <1>6, <2>1, HashesKept, IndexKept DEF SlotsOf
  <1>7. ASSUME NEW m \in Models, StartServer(m)
        PROVE  OfItsText(n, chunks)'
    <2>1. Start /\ notes' = notes
      BY <1>7 DEF Start, StartServer
    <2> QED BY <2>1, HashesKept, IndexKept DEF SlotsOf
  <1>8. ASSUME NEW m \in Notes, NEW content \in Contents, ImportNote(m, content)
        PROVE  OfItsText(n, chunks)'
    <2>1. chunks' = chunks /\ notes[m] = Absent /\ n # m => notes'[n] = notes[n]
      BY <1>8, <1>n DEF ImportNote
    <2>2. CASE n # m
      BY <1>8, <1>n, <2>1, <2>2, IndexKept DEF SlotsOf, ImportNote
    <2>3. CASE n = m
      <3>1. chunks' = chunks /\ SlotsOf(n, chunks) = {}
        BY <1>8, <2>3 DEF ImportNote, ChunksOfNotes, SlotsOf
      <3> QED BY <3>1 DEF OfItsText, SlotsOf
    <2> QED BY <2>2, <2>3
  <1>9. CASE RequeueJobs \/ ListNotes \/ ScanFails \/ ScanEnds \/ Stop \/ UNCHANGED vars
    <2>1. notes' = notes /\ chunks' = chunks
      BY <1>9 DEF RequeueJobs, ListNotes, ScanFails, ScanEnds, Stop, vars
    <2> QED BY <2>1, IndexKept DEF SlotsOf
  <1> QED BY <1>1, <1>2, <1>3, <1>4, <1>5, <1>6, <1>7, <1>8, <1>9
      DEF Next, Edit, Scan, Start

(* Chunks and vectors follow their note through every interleaving of      *)
(* edits, the startup scan, late results, failures, crashes and changes of *)
(* model, and only the scan's write of an overtaken text leads them astray.*)
THEOREM IndexFollowsEveryNote == Spec => IndexFollowsNotes
  <1>1. IInv /\ [Next]_vars =>
            [\A n \in Notes :
               Indexed(n) \/ WritesIndexOf(n) => Indexed(n)' \/ WritesOvertakenText(n)]_vars
    <2> SUFFICES ASSUME IInv, [Next]_vars, NEW n \in Notes,
                        Indexed(n) \/ WritesIndexOf(n)
                 PROVE  Indexed(n)' \/ WritesOvertakenText(n)
      OBVIOUS
    <2>1. IInv'
      BY NextInv
    <2>2. CASE WritesIndexOf(n)
      BY <2>1, <2>2, WritesIndex, IndexedByChunks
    <2>3. CASE ~WritesIndexOf(n)
      BY <2>1, <2>3, OtherStepsKeepIndex, IndexedByChunks
    <2> QED BY <2>2, <2>3
  <1> QED BY <1>1, Invariance, PTL DEF Spec, IndexFollowsNotes
=============================================================================
