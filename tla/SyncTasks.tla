------------------------------- MODULE SyncTasks -------------------------------
(***************************************************************************)
(* One direction of a task session: a sender that delivers the events of   *)
(* its outbox, one transfer at a time, and a receiver that runs each task   *)
(* it is sent (note-server/src/sync_client/runtime.rs).  Both ends run the  *)
(* same code; the other direction uses a ledger, slots and messages of its  *)
(* own.  A transfer is four tasks: begin, the blobs (one task here), commit *)
(* and, after a failure, abort.                                            *)
(*                                                                         *)
(* The socket keeps the order of its frames.  Frames that wait for a busy   *)
(* session may be merged (pump.rs), so a message joins its queue in one of  *)
(* two ways.  A peer may also repeat a task, ask for its status, cancel it  *)
(* or give its transfer up early: this sender does not, its protocol does   *)
(* let a peer do so.                                                       *)
(***************************************************************************)
EXTENDS TaskLedger, FiniteSets

CONSTANTS Merges,   \* whether waiting frames may be merged: a set of booleans
          Scenes    \* bounds: events to deliver, and how often each trouble may happen

Troubles == {"cut", "crash", "death", "doubt", "unread", "repeat", "cancel",
             "early", "retry", "spoil", "refuse"}

ASSUME SceneAssumption ==
    \A scene \in Scenes :
        /\ scene.events \subseteq Events
        /\ \A trouble \in Troubles : scene.troubles[trouble] \in Nat
ASSUME MergesAssumption == Merges \subseteq BOOLEAN /\ Merges # {}

VARIABLES outbox,    \* the sender's events without an acknowledgement (durable)
          blocked,   \* those it will not try again by itself
          sender,    \* its transfer: stage, event, task and last status of it
          number,    \* the last task number it used in this session
          up,        \* the session is joined
          ledger,    \* the receiver's tasks of this session
          staging,   \* the transfer the receiver has begun
          jobs,      \* the task workers of this session
          deferred,  \* an abort that waits for a transfer task
          stored,    \* events the receiver has a receipt for (durable)
          passed,    \* events it decided to ignore, which leave no receipt
          landed,    \* history: the tasks whose transaction took effect
          limbo,     \* commits whose outcome nobody was told
          loose,     \* commit workers that outlived their session
          ran,       \* history: how often each task of the session was started
          toReceiver, toSender,
          budget

outward == <<outbox, blocked, sender, number>>
inward  == <<ledger, staging, jobs, deferred, ran>>
durable == <<stored, passed, landed, limbo, loose>>
vars == <<outward, inward, durable, up, toReceiver, toSender, budget>>

Stages == {"idle", "begin", "upload", "commit", "abort"}

Rest == [stage |-> "idle", event |-> None, view |-> None, early |-> FALSE]

Op(stage) == CASE stage = "begin"  -> "transfer_begin"
               [] stage = "upload" -> "blob_end"
               [] stage = "commit" -> "transfer_commit"
               [] stage = "abort"  -> "transfer_abort"

\* What a worker has come to, and what it is still doing.
Running == {"running", "applied", "reading"}
Ended   == {"ok", "failed", "attempt", "uncertain", "unknown", "dead"}

\* event is the event a commit was given when it started; doubt says that a
\* check of the receipts must not be taken for a failure.
Job(op, payload, event, held, step, doubt, cancelled) ==
    [op |-> op, payload |-> payload, event |-> event, held |-> held, step |-> step,
     doubt |-> doubt, cancelled |-> cancelled]

Durable(job) == job.op = "transfer_commit"

\* What the three of them may be, when there is one.
Stagings == {None} \cup [event : Events, complete : BOOLEAN]

Jobs == [op : Operations, payload : Events, event : Events \cup {None}, held : Stagings,
         step : Running \cup Ended, doubt : BOOLEAN, cancelled : BOOLEAN]

Deferrals == [abort : Ids, event : Events, task : Ids]

ASSUME AbsenceAssumption == None \notin Jobs \cup Deferrals

Submit(task)   == [kind |-> "submit", task |-> task]
Get(id)        == [kind |-> "get", id |-> id]
Cancel(id)     == [kind |-> "cancel", id |-> id]
Report(status) == [kind |-> "status", status |-> status]
Refusal(id, code) == [kind |-> "error", id |-> id, code |-> code]
Broken         == [kind |-> "broken"]

Spend(trouble) == budget[trouble] > 0 /\ budget' = [budget EXCEPT ![trouble] = @ - 1]
----------------------------------------------------------------------------
(***************************************************************************)
(* Queues                                                                  *)
(***************************************************************************)

SameTask(a, b) ==
    \/ a.kind = "status" /\ b.kind = "status" /\ a.status.id = b.status.id
    \/ a.kind = "get" /\ b.kind = "get" /\ a.id = b.id

\* buffer_business: a status takes the place of the status of the same task
\* that still waits; two that disagree fail the socket.
Join(queue, message, merge) ==
    LET same == {i \in DOMAIN queue : SameTask(queue[i], message)}
    IN IF ~merge \/ same = {} THEN Append(queue, message)
       ELSE LET i == CHOOSE j \in same : TRUE
                verdict == IF message.kind = "status"
                           THEN AcceptUpdate(queue[i].status, message.status) ELSE "new"
            IN CASE verdict = "new" -> [queue EXCEPT ![i] = message]
                 [] verdict = "old" -> queue
                 [] OTHER -> Append(queue, Broken)

JoinAll(queue, messages, merge) ==
    LET joined[n \in 0 .. Len(messages)] ==
            IF n = 0 THEN queue ELSE Join(joined[n - 1], messages[n], merge)
    IN joined[Len(messages)]

Answer(messages) == \E merge \in Merges : toSender' = JoinAll(toSender, messages, merge)
----------------------------------------------------------------------------
(***************************************************************************)
(* Sender                                                                  *)
(***************************************************************************)

\* submit_task: the next number, a task without a status.
Send(stage, event, early) ==
    LET id == number + 1
    IN /\ id \in Ids
       /\ number' = id
       /\ sender' = [stage |-> stage, event |-> event, view |-> None, early |-> early]
       /\ toReceiver' = Append(toReceiver, Submit([id |-> id, op |-> Op(stage),
                                                   event |-> event]))

\* deliver_candidate: an event that is not blocked.
Deliver(e) ==
    /\ up /\ sender.stage = "idle" /\ e \in outbox \ blocked
    /\ Send("begin", e, FALSE)
    /\ UNCHANGED <<outbox, blocked, inward, durable, up, toSender, budget>>

\* The event cannot be prepared: its attachments are gone, or it is too large.
PreparationFails(e) ==
    /\ up /\ sender.stage = "idle" /\ e \in outbox \ blocked
    /\ Spend("spoil")
    /\ blocked' = blocked \cup {e}
    /\ UNCHANGED <<outbox, sender, number, inward, durable, up, toReceiver, toSender>>

\* The awaited task succeeded.
Proceed ==
    CASE sender.stage = "begin"  -> Send("upload", sender.event, FALSE) /\ UNCHANGED <<outbox, blocked>>
      [] sender.stage = "upload" -> Send("commit", sender.event, FALSE) /\ UNCHANGED <<outbox, blocked>>
      [] sender.stage = "commit" -> /\ outbox' = outbox \ {sender.event}
                                    /\ sender' = Rest
                                    /\ UNCHANGED <<blocked, number, toReceiver>>

\* The abort is over, however it ended.
Resume == /\ blocked' = IF sender.early THEN blocked ELSE blocked \cup {sender.event}
          /\ sender' = Rest
          /\ UNCHANGED <<outbox, number, toReceiver>>

\* RemoteTaskFailure: abort the transfer; the abort's own answer is not looked at.
GiveUp == Send("abort", sender.event, FALSE) /\ UNCHANGED <<outbox, blocked>>

Awaits(id) == sender.stage # "idle" /\ id = number

\* handle_task_frame, "task_status" and "task_error", and wait_remote_task.
HearStatus(status) ==
    IF ~Awaits(status.id) THEN UNCHANGED <<outward, toReceiver>>
    ELSE LET verdict == IF sender.view = None THEN "new"
                        ELSE AcceptUpdate(sender.view, status)
         IN CASE verdict = "old" -> UNCHANGED <<outward, toReceiver>>
              [] verdict = "new" /\ ~Terminal(status) ->
                   /\ sender' = [sender EXCEPT !.view = status]
                   /\ UNCHANGED <<outbox, blocked, number, toReceiver>>
              [] verdict = "new" /\ Terminal(status) /\ sender.stage = "abort" -> Resume
              [] verdict = "new" /\ Terminal(status) /\ sender.stage # "abort" ->
                   IF status.state = "succeeded" THEN Proceed ELSE GiveUp

HearError(id) ==
    IF ~Awaits(id) THEN UNCHANGED <<outward, toReceiver>>
    ELSE IF sender.stage = "abort" THEN Resume ELSE GiveUp

\* A status that contradicts an earlier one would end the session: it never
\* happens (StatusesAgree), so no step is given for it.
Conflicting(message) ==
    \/ message.kind = "broken"
    \/ /\ message.kind = "status" /\ Awaits(message.status.id) /\ sender.view # None
       /\ AcceptUpdate(sender.view, message.status) = "conflict"

Hear ==
    /\ up /\ toSender # <<>>
    /\ ~Conflicting(Head(toSender))
    /\ toSender' = Tail(toSender)
    /\ \/ Head(toSender).kind = "status" /\ HearStatus(Head(toSender).status)
       \/ Head(toSender).kind = "error" /\ HearError(Head(toSender).id)
    /\ UNCHANGED <<inward, durable, up, budget>>

\* A task submitted again, or asked for.  This sender asks every five seconds.
Repeat(id) ==
    /\ up /\ id \in 1 .. number /\ Spend("repeat")
    /\ \/ \E merge \in Merges : toReceiver' = Join(toReceiver, Get(id), merge)
       \/ /\ Holds(ledger, id)
          /\ toReceiver' = Append(toReceiver, Submit(ledger.entries[id].task))
    /\ UNCHANGED <<outward, inward, durable, up, toSender>>

CancelTask ==
    /\ up /\ sender.stage \in Stages \ {"idle"} /\ Spend("cancel")
    /\ toReceiver' = Append(toReceiver, Cancel(number))
    /\ UNCHANGED <<outward, inward, durable, up, toSender>>

\* A peer gives a transfer up, or commits it, before its task has ended.
TurnEarly ==
    /\ up /\ sender.stage \in {"begin", "upload", "commit"} /\ Spend("early")
    /\ \/ Send("abort", sender.event, TRUE)
       \/ sender.stage = "begin" /\ Send("commit", sender.event, FALSE)
    /\ UNCHANGED <<outbox, blocked, inward, durable, up, toSender>>

\* SyncRuntime::retry: the blocked events are tried again.
Retry ==
    /\ blocked # {} /\ Spend("retry")
    /\ blocked' = {}
    /\ UNCHANGED <<outbox, sender, number, inward, durable, up, toReceiver, toSender>>
----------------------------------------------------------------------------
(***************************************************************************)
(* Receiver: frames                                                        *)
(***************************************************************************)

\* The job a task starts.  A transfer worker takes the staging with it.
Start(task) ==
    LET event == IF task.op = "transfer_commit" /\ staging # None /\ staging.complete
                 THEN staging.event ELSE None
    IN Job(task.op, task.event, event, staging, "running", FALSE, FALSE)

\* Mutant: an abort never waits.
NeverWaits(l, task) == FALSE

\* An abort while a transfer task is open waits for it.
MustWait(l, task) == task.op = "transfer_abort" /\ ActiveTransfer(l) # {}

StartTask(task) ==
    LET queued  == Admitted(ledger, task)
        running == Update(queued, task.id, "own")
        pending == Update(running, task.id, "cancellation_pending")
        told(l) == Report(l.entries[task.id].status)
    IN /\ ran' = [ran EXCEPT ![task.id] = @ + 1]
       /\ IF MustWait(running, task)
          THEN /\ ledger' = pending
               /\ deferred' = [abort |-> task.id, event |-> task.event,
                               task |-> CHOOSE i \in ActiveTransfer(running) : TRUE]
               /\ Answer(<<told(queued), told(running), told(pending)>>)
               /\ UNCHANGED <<jobs, staging>>
          ELSE /\ ledger' = running
               /\ jobs' = [jobs EXCEPT ![task.id] = Start(task)]
               /\ staging' = None
               /\ Answer(<<told(queued), told(running)>>)
               /\ UNCHANGED deferred

TakeSubmit(task) ==
    CASE Verdict(ledger, task) = "start" -> StartTask(task)
      [] Verdict(ledger, task) \in {"replay", "busy"} ->
           /\ ledger' = Admitted(ledger, task)
           /\ Answer(<<Report(ledger'.entries[task.id].status)>>)
           /\ UNCHANGED <<staging, jobs, deferred, ran>>
      [] OTHER -> /\ Answer(<<Refusal(task.id, Verdict(ledger, task))>>)
                  /\ UNCHANGED inward

TakeGet(id) ==
    /\ Answer(<<IF Holds(ledger, id) THEN Report(ledger.entries[id].status)
                ELSE IF id <= ledger.highwater THEN Refusal(id, "retired")
                ELSE Refusal(id, "unknown_task")>>)
    /\ UNCHANGED inward

\* Mutant: the cancellation is announced before the worker has ended.
CancelledAtOnce(l, id) == Finish(l, id, "cancelled")

CancelNoted(l, id) == Update(l, id, "cancellation_pending")

\* A job that can still be undone is aborted; a commit only takes note.
TakeCancel(id) ==
    IF jobs[id] = None THEN TakeGet(id)
    ELSE /\ jobs' = [jobs EXCEPT ![id].cancelled = TRUE,
                                 ![id].step = IF Durable(jobs[id]) \/ @ \in Ended THEN @
                                              ELSE "dead"]
         /\ ledger' = CancelNoted(ledger, id)
         /\ Answer(<<Report(ledger'.entries[id].status)>>)
         /\ UNCHANGED <<staging, deferred, ran>>

Take ==
    /\ up /\ toReceiver # <<>>
    /\ toReceiver' = Tail(toReceiver)
    /\ CASE Head(toReceiver).kind = "submit" -> TakeSubmit(Head(toReceiver).task)
         [] Head(toReceiver).kind = "get"    -> TakeGet(Head(toReceiver).id)
         [] Head(toReceiver).kind = "cancel" -> TakeCancel(Head(toReceiver).id)
    /\ UNCHANGED <<outward, durable, up, budget>>
----------------------------------------------------------------------------
(***************************************************************************)
(* Receiver: workers                                                       *)
(***************************************************************************)

Working(id, op) == up /\ jobs[id] # None /\ jobs[id].op = op /\ jobs[id].step = "running"

Ends(id, step) == jobs' = [jobs EXCEPT ![id].step = step]

WorkerLeaves == UNCHANGED <<outward, up, toReceiver, toSender, ledger, staging, deferred, ran>>

\* TransferWorker::receive, "transfer_begin".
Begin(id) ==
    /\ Working(id, "transfer_begin")
    /\ jobs' = IF jobs[id].held # None THEN [jobs EXCEPT ![id].step = "failed"]
               ELSE [jobs EXCEPT ![id].step = "ok",
                                 ![id].held = [event |-> jobs[id].payload, complete |-> FALSE]]
    /\ WorkerLeaves /\ UNCHANGED <<durable, budget>>

\* "blob_chunk", "attachment_begin" and "blob_end", to the last blob.
Upload(id) ==
    /\ Working(id, "blob_end")
    /\ jobs' = IF jobs[id].held = None \/ jobs[id].held.event # jobs[id].payload
               THEN [jobs EXCEPT ![id].step = "failed"]
               ELSE [jobs EXCEPT ![id].step = "ok", ![id].held.complete = TRUE]
    /\ WorkerLeaves /\ UNCHANGED <<durable, budget>>

\* Storage fails, or a blob does not match its checksum.
UploadFails(id) ==
    /\ Working(id, "blob_end") /\ Spend("spoil")
    /\ Ends(id, "failed")
    /\ WorkerLeaves /\ UNCHANGED durable

Abort(id) ==
    /\ Working(id, "transfer_abort")
    /\ jobs' = IF jobs[id].held # None /\ jobs[id].held.event # jobs[id].payload
               THEN [jobs EXCEPT ![id].step = "failed"]
               ELSE [jobs EXCEPT ![id].step = "ok", ![id].held = None]
    /\ WorkerLeaves /\ UNCHANGED <<durable, budget>>

\* The transfer is not complete, or is another one.
CommitRefused(id) ==
    /\ Working(id, "transfer_commit")
    /\ jobs[id].held = None \/ jobs[id].event = None \/ jobs[id].event # jobs[id].payload
    /\ Ends(id, "failed")
    /\ WorkerLeaves /\ UNCHANGED <<durable, budget>>

Applying(id) == /\ Working(id, "transfer_commit")
                /\ jobs[id].event # None /\ jobs[id].event = jobs[id].payload

\* apply_sync_event commits, with a receipt or (event ignored) without one.
Apply(id) ==
    /\ Applying(id)
    /\ Ends(id, "applied")
    /\ \/ stored' = stored \cup {jobs[id].event} /\ UNCHANGED passed
       \/ /\ jobs[id].event \notin stored
          /\ passed' = passed \cup {jobs[id].event} /\ UNCHANGED stored
    /\ landed' = landed \cup {id}
    /\ WorkerLeaves /\ UNCHANGED <<limbo, loose, budget>>

\* A definitive rejection, inside the transaction that is rolled back.
Reject(id) ==
    /\ Applying(id) /\ jobs[id].event \notin stored /\ Spend("refuse")
    /\ Ends(id, "failed")
    /\ WorkerLeaves /\ UNCHANGED durable

\* The transaction fails before its commit.
ApplyFails(id) ==
    /\ Applying(id) /\ Spend("refuse")
    /\ Ends(id, "attempt")
    /\ WorkerLeaves /\ UNCHANGED durable

\* The commit fails in a way that leaves its outcome open.
CommitUncertain(id) ==
    /\ Applying(id) /\ Spend("doubt")
    /\ Ends(id, "uncertain")
    /\ limbo' = limbo \cup {[id |-> id, event |-> jobs[id].event]}
    /\ WorkerLeaves /\ UNCHANGED <<stored, passed, landed, loose>>

Answered(id) ==
    /\ up /\ jobs[id] # None /\ jobs[id].step = "applied"
    /\ Ends(id, "ok")
    /\ WorkerLeaves /\ UNCHANGED <<durable, budget>>

\* The worker panics.  If it was in its commit, the outcome is open.
Dies(id) ==
    /\ up /\ jobs[id] # None /\ jobs[id].step \in Running /\ Spend("death")
    /\ Ends(id, "dead")
    /\ limbo' = IF Applying(id) THEN limbo \cup {[id |-> id, event |-> jobs[id].event]}
                ELSE limbo
    /\ WorkerLeaves /\ UNCHANGED <<stored, passed, landed, loose>>

\* Mutant: an open commit is taken for one that took effect.
Trusting(job, receipt) == IF receipt \/ job.doubt THEN "ok" ELSE "failed"

\* What a look at the receipts says of an apply that did not succeed.
Established(job, receipt) ==
    IF receipt THEN "ok" ELSE IF job.doubt THEN "unknown" ELSE "failed"

\* sync_received_event, for an apply that did not report its success.  Only a
\* receipt proves the commit; only a failure that came before the commit is
\* proved by the lack of one.
Read(id) ==
    /\ up /\ jobs[id] # None /\ jobs[id].step = "reading"
    /\ Ends(id, Established(jobs[id], jobs[id].payload \in stored))
    /\ WorkerLeaves /\ UNCHANGED <<durable, budget>>

ReadFails(id) ==
    /\ up /\ jobs[id] # None /\ jobs[id].step = "reading" /\ Spend("unread")
    /\ Ends(id, "unknown")
    /\ WorkerLeaves /\ UNCHANGED durable

\* A commit in limbo takes effect after all, or never does.
Settle(l) ==
    /\ l \in limbo
    /\ limbo' = limbo \ {l}
    /\ \/ /\ stored' = stored \cup {l.event}
          /\ landed' = landed \cup ({l.id} \ {0})
       \/ UNCHANGED <<stored, landed>>
    /\ UNCHANGED <<outward, inward, up, toReceiver, toSender, passed, loose, budget>>
----------------------------------------------------------------------------
(***************************************************************************)
(* poll_task_jobs                                                          *)
(***************************************************************************)

\* Mutant: a commit whose outcome is open is checked like one that failed.
NeverDoubtful(job) == FALSE

Doubtful(job) == job.step \in {"dead", "uncertain"}

\* The receipts are read once: the job that reads them has no event of its own.
Reading(job) == Job(job.op, job.payload, None, None, "reading", Doubtful(job), job.cancelled)

MustRead(job) == /\ Durable(job) /\ job.event # None
                 /\ job.step \in {"dead", "attempt", "uncertain"}

\* A commit that stays undecided for the rest of the session.
Undecided(job) == Durable(job) /\ (job.step = "unknown" \/ (job.step = "dead" /\ ~MustRead(job)))

Result(job) ==
    IF job.cancelled /\ ~Durable(job) THEN "cancelled"
    ELSE CASE job.step = "ok" -> "succeeded"
           [] job.step = "dead" -> "worker_failed"
           [] OTHER -> "operation_failed"

\* The staging a job gives back: only a task that succeeded gives it back.
Returned(job) ==
    IF Result(job) = "succeeded" /\ ~Durable(job) THEN job.held ELSE staging

\* Mutant: nobody comes back to the deferred abort.
NeverDeferred(l, held) ==
    [ledger |-> l, staging |-> held, deferred |-> deferred, told |-> <<>>]

\* The deferred abort, once the task it waits for has ended.
Deferred(l, held) ==
    IF deferred = None \/ ~(Holds(l, deferred.task) /\ Terminal(l.entries[deferred.task].status))
    THEN [ledger |-> l, staging |-> held, deferred |-> deferred, told |-> <<>>]
    ELSE LET other == held # None /\ held.event # deferred.event
             done == Finish(l, deferred.abort, IF other THEN "operation_failed" ELSE "succeeded")
         IN [ledger |-> done, staging |-> IF other THEN held ELSE None, deferred |-> None,
             told |-> <<Report(done.entries[deferred.abort].status)>>]

Poll(id) ==
    /\ up /\ jobs[id] # None /\ jobs[id].step \in Ended
    /\ LET job   == jobs[id]
           open  == MustRead(job) \/ Undecided(job)
           next  == IF open THEN Unknown(ledger, id) ELSE Finish(ledger, id, Result(job))
           held  == IF open THEN staging ELSE Returned(job)
           after == Deferred(next, held)
       IN /\ jobs' = [jobs EXCEPT ![id] = IF MustRead(job) THEN Reading(job) ELSE None]
          /\ ledger' = after.ledger
          /\ staging' = after.staging
          /\ deferred' = after.deferred
          /\ Answer(<<Report(next.entries[id].status)>> \o after.told)
    /\ UNCHANGED <<outward, durable, up, ran, toReceiver, budget>>
----------------------------------------------------------------------------
(***************************************************************************)
(* Sessions                                                                *)
(***************************************************************************)

Drop == /\ up' = FALSE /\ toReceiver' = <<>> /\ toSender' = <<>>
        /\ sender' = Rest /\ number' = 0

\* Workers of a commit outlive their session; the others are aborted.
Commits(step) == {i \in Ids : jobs[i] # None /\ Durable(jobs[i]) /\ jobs[i].step = step}

EndSession ==
    /\ Drop
    /\ ledger' = NewLedger /\ staging' = None /\ deferred' = None
    /\ jobs' = [i \in Ids |-> None] /\ ran' = [i \in Ids |-> 0]
    /\ landed' = {}

\* The workers of the session that is left: a commit goes on, the rest is gone.
LeaveWorkers ==
    /\ loose' = loose \cup {jobs[i].event : i \in {j \in Ids : Applying(j)}}
    /\ limbo' = {[l EXCEPT !.id = 0] : l \in limbo}
    /\ UNCHANGED <<stored, passed>>

\* The socket fails, the configuration changes or the peer restarts it.
Cut ==
    /\ up /\ Spend("cut")
    /\ EndSession /\ LeaveWorkers
    /\ UNCHANGED <<outbox, blocked>>

\* drain_workers: a commit of the last session ends; nobody hears how.
Drain(e) ==
    /\ e \in loose
    /\ loose' = loose \ {e}
    /\ \/ stored' = stored \cup {e} /\ UNCHANGED passed
       \/ e \notin stored /\ passed' = passed \cup {e} /\ UNCHANGED stored
       \/ UNCHANGED <<stored, passed>>
    /\ UNCHANGED <<outward, inward, up, toReceiver, toSender, landed, limbo, budget>>

DrainUncertain(e) ==
    /\ e \in loose /\ Spend("doubt")
    /\ loose' = loose \ {e}
    /\ limbo' = limbo \cup {[id |-> 0, event |-> e]}
    /\ UNCHANGED <<outward, inward, up, toReceiver, toSender, landed, stored, passed>>

\* Mutant: a new session does not wait for the workers of the last one.
AlwaysDrained == TRUE

Drained == loose = {}

Connect ==
    /\ ~up /\ Drained
    /\ up' = TRUE
    /\ UNCHANGED <<outward, inward, durable, toReceiver, toSender, budget>>

\* The receiver's process ends: its workers end with it.
CrashReceiver ==
    /\ Spend("crash")
    /\ EndSession
    /\ loose' = {}
    /\ limbo' = {[l EXCEPT !.id = 0] : l \in limbo}
    /\ UNCHANGED <<outbox, blocked, stored, passed>>

\* The sender's process ends: the rejections it kept are gone.
CrashSender ==
    /\ Spend("crash")
    /\ EndSession /\ LeaveWorkers
    /\ blocked' = {}
    /\ UNCHANGED outbox

----------------------------------------------------------------------------
Init ==
    /\ \E scene \in Scenes :
          /\ outbox = scene.events
          /\ stored = Events \ scene.events   \* those were delivered before
          /\ budget = scene.troubles
    /\ blocked = {} /\ sender = Rest /\ number = 0
    /\ up = FALSE
    /\ ledger = NewLedger /\ staging = None /\ deferred = None
    /\ jobs = [i \in Ids |-> None] /\ ran = [i \in Ids |-> 0]
    /\ passed = {} /\ landed = {} /\ limbo = {} /\ loose = {}
    /\ toReceiver = <<>> /\ toSender = <<>>

Worker(id) ==
    \/ Begin(id) \/ Upload(id) \/ Abort(id) \/ CommitRefused(id)
    \/ Apply(id) \/ Answered(id) \/ Read(id) \/ Poll(id)

Failure(id) ==
    \/ UploadFails(id) \/ Reject(id) \/ ApplyFails(id) \/ CommitUncertain(id)
    \/ Dies(id) \/ ReadFails(id)

Next ==
    \/ \E e \in Events : Deliver(e) \/ PreparationFails(e) \/ Drain(e) \/ DrainUncertain(e)
    \/ \E id \in Ids : Worker(id) \/ Failure(id) \/ Repeat(id)
    \/ Hear \/ CancelTask \/ TurnEarly \/ Retry
    \/ Take \/ (\E l \in limbo : Settle(l))
    \/ Cut \/ Connect \/ CrashReceiver \/ CrashSender

Spec == Init /\ [][Next]_vars

\* The code's scheduling: both ends read their sockets and poll their jobs,
\* workers end, a database decides, a client that lost its socket retries.
Fairness ==
    /\ WF_vars(\E e \in Events : Deliver(e))
    /\ WF_vars(Hear) /\ WF_vars(Take)
    /\ \A id \in Ids : WF_vars(Worker(id))
    /\ WF_vars(\E l \in limbo : Settle(l))
    /\ WF_vars(\E e \in Events : Drain(e)) /\ WF_vars(Connect)

FairSpec == Spec /\ Fairness

----------------------------------------------------------------------------
(***************************************************************************)
(* Properties                                                              *)
(***************************************************************************)

\* An event leaves the outbox only when the receiver's own transaction has
\* taken it in: no worker that died, no open commit and no lost session is
\* ever answered with a success.
ReceiptIsEarned == Events \ outbox \subseteq stored \cup passed

\* A commit that was reported as failed or cancelled did not take effect and
\* never will, so the sender may call the event rejected.  An open outcome
\* stays open.
FailureIsProven ==
    \A id \in Ids :
        Holds(ledger, id) /\ ledger.entries[id].task.op = "transfer_commit"
        /\ ledger.entries[id].status.state \in {"failed", "cancelled"}
        => id \notin landed /\ \A l \in limbo : l.id # id

\* No two transactions for transfers run at a time, within a session or
\* across the end of one.
OneApplyAtATime == Cardinality(Commits("running")) + Cardinality(loose) <= 1

\* A task is started at most once in a session, whatever is repeated and
\* whatever the ledger has forgotten.
StartsOnce == \A id \in Ids : ran[id] <= 1

\* The ledger still holds, open, every task that a worker or a deferred abort
\* will report on: the code takes that for granted ("admitted task").
ReportsFindTheirTask ==
    /\ \A id \in Ids : jobs[id] # None =>
           Holds(ledger, id) /\ ~Terminal(ledger.entries[id].status)
    /\ deferred # None => /\ Holds(ledger, deferred.abort)
                          /\ ~Terminal(ledger.entries[deferred.abort].status)

\* Statuses that repeat, overtake or merge with others never contradict one
\* another.
StatusesAgree ==
    /\ \A i \in DOMAIN toSender : toSender[i] # Broken
    /\ toSender # <<>> => ~Conflicting(Head(toSender))

\* A transfer is given up as failed only when the receiver has ended it: no
\* worker of it is left when the sender turns to its next event.
NoWorkLeftBehind ==
    up /\ sender.stage = "idle" => /\ staging = None /\ deferred = None
                                   /\ \A id \in Ids : jobs[id] = None

Undetermined ==
    \E id \in ActiveTransfer(ledger) :
        /\ jobs[id] = None /\ ledger.entries[id].status.phase # "own"

\* The end of a task, as an answer.
Ending(message, id) ==
    \/ message.kind = "error" /\ message.id = id
    \/ message.kind = "status" /\ message.status.id = id /\ Terminal(message.status)

\* The sender never waits for an answer that nobody is going to give: its task
\* or the end of it is on its way, or a worker will report it, or the task its
\* abort waits for - unless the session keeps a commit of unknown outcome.
WaitsForSomebody ==
    up /\ sender.stage # "idle" =>
        \/ \E k \in DOMAIN toReceiver :
               toReceiver[k].kind = "submit" /\ toReceiver[k].task.id = number
        \/ \E k \in DOMAIN toSender : Ending(toSender[k], number)
        \/ jobs[number] # None
        \/ deferred # None /\ deferred.abort = number /\ jobs[deferred.task] # None
        \/ Undetermined

\* Every event is in the end delivered, or blocked until it is retried or
\* edited - unless the session keeps a commit of unknown outcome, which holds
\* up the transfers of this direction until the session ends.
Settles == <>[](outbox \subseteq blocked \/ Undetermined)
=============================================================================
