------------------------------ MODULE TaskLedger ------------------------------
(***************************************************************************)
(* What one end of a synchronization session remembers of the tasks its    *)
(* peer submitted (note-server/src/sync_client/tasks.rs): the high-water    *)
(* number, the statuses of the tasks it still holds, and the order in which *)
(* the finished ones are forgotten.  Operators from a ledger to the next.  *)
(*                                                                         *)
(* A task is its number, its operation and the event it carries, which     *)
(* stands for the payload and for its digest.                              *)
(***************************************************************************)
EXTENDS Naturals, Sequences

CONSTANTS MaxTasks,  \* bound: the tasks of one session
          Retained,  \* finished tasks a ledger keeps (64 in the code)
          Events,    \* what a transfer may carry
          None

ASSUME MaxTasksAssumption == MaxTasks \in Nat
ASSUME RetainedAssumption == Retained \in Nat \ {0}

Ids == 1 .. MaxTasks

Operations == {"transfer_begin", "blob_end", "transfer_commit", "transfer_abort"}

Task == [id : Ids, op : Operations, event : Events]

Codes == {"none", "busy", "operation_failed", "worker_failed", "outcome_unknown"}

Status ==
    [id : Ids, seq : Nat \ {0},
     state : {"queued", "running", "succeeded", "failed", "cancelled"},
     phase : {"own", "cancellation_pending", "outcome_unknown"},
     code : Codes]

Entry == [task : Task, status : Status]

ASSUME NoneAssumption == None \notin Entry

NewLedger == [highwater |-> 0, entries |-> [i \in Ids |-> None], finished |-> <<>>]

Terminal(status) == status.state \in {"succeeded", "failed", "cancelled"}

Slot(op) == IF op = "transfer_abort" THEN "housekeeping" ELSE "transfer"

Holds(ledger, id) == ledger.entries[id] # None

Live(ledger, slot) ==
    {i \in Ids : /\ Holds(ledger, i)
                 /\ Slot(ledger.entries[i].task.op) = slot
                 /\ ~Terminal(ledger.entries[i].status)}

ActiveTransfer(ledger) == Live(ledger, "transfer")

Put(ledger, status) == [ledger EXCEPT !.entries[status.id].status = status]

Update(ledger, id, phase) ==
    LET old == ledger.entries[id].status
    IN IF Terminal(old) THEN ledger
       ELSE Put(ledger, [old EXCEPT !.seq = @ + 1, !.state = "running", !.phase = phase])

\* Mutant: the mark is set on the announced status itself.
UnknownKeepsNumber(ledger, id) ==
    LET old == ledger.entries[id].status
    IN IF Terminal(old) THEN ledger
       ELSE Put(ledger, [old EXCEPT !.state = "running", !.phase = "outcome_unknown",
                                    !.code = "outcome_unknown"])

Unknown(ledger, id) ==
    LET old == ledger.entries[id].status
        new == Update(ledger, id, "outcome_unknown").entries[id].status
    IN IF Terminal(old) THEN ledger
       ELSE Put(ledger, [new EXCEPT !.code = "outcome_unknown"])

\* One more finished task; the oldest one beyond the limit is forgotten.
Retire(ledger, id) ==
    LET finished == Append(ledger.finished, id)
    IN IF Len(finished) <= Retained THEN [ledger EXCEPT !.finished = finished]
       ELSE [ledger EXCEPT !.finished = Tail(finished),
                           !.entries[Head(finished)] = None]

\* The state a result leaves: "cancelled" is a state of its own.
Outcome(old, result) ==
    [old EXCEPT !.seq = @ + 1,
                !.state = IF result \in {"succeeded", "cancelled"} THEN result ELSE "failed",
                !.code = IF result \in {"succeeded", "cancelled"} THEN "none" ELSE result]

\* result is "succeeded", "cancelled" or the code of a failure.
Finish(ledger, id, result) ==
    LET old == ledger.entries[id].status
    IN IF Terminal(old) THEN ledger
       ELSE Retire(Put(ledger, Outcome(old, result)), id)

Enter(ledger, task) ==
    [ledger EXCEPT !.highwater = task.id,
                   !.entries[task.id] =
                       [task |-> task,
                        status |-> [id |-> task.id, seq |-> 1, state |-> "queued",
                                    phase |-> "own", code |-> "none"]]]

\* A task refused for its slot is finished at once, under its first number.
EnterBusy(ledger, task) ==
    LET done == Finish(Enter(ledger, task), task.id, "busy")
    IN [done EXCEPT !.entries[task.id].status.seq = 1]

\* Mutant: a number the ledger no longer holds is taken for a new one.
VerdictForgetful(ledger, task) ==
    IF Holds(ledger, task.id)
    THEN IF ledger.entries[task.id].task = task THEN "replay" ELSE "task_id_conflict"
    ELSE IF Live(ledger, Slot(task.op)) # {} THEN "busy" ELSE "start"

Verdict(ledger, task) ==
    IF Holds(ledger, task.id)
    THEN IF ledger.entries[task.id].task = task THEN "replay" ELSE "task_id_conflict"
    ELSE IF task.id <= ledger.highwater THEN "retired"
    ELSE IF task.id # ledger.highwater + 1 THEN "invalid_task_id"
    ELSE IF Live(ledger, Slot(task.op)) # {} THEN "busy" ELSE "start"

Admitted(ledger, task) ==
    CASE Verdict(ledger, task) = "start" -> Enter(ledger, task)
      [] Verdict(ledger, task) = "busy"  -> EnterBusy(ledger, task)
      [] OTHER -> ledger

\* Status::accept_update of the status held by one status that arrives.
AcceptUpdate(held, next) ==
    IF next.seq < held.seq THEN "old"
    ELSE IF next.seq = held.seq THEN IF next = held THEN "old" ELSE "conflict"
    ELSE IF Terminal(held) \/ next.state = "queued" THEN "conflict" ELSE "new"
=============================================================================
