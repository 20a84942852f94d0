-------------------------- MODULE SyncDelivery_proofs --------------------------
(***************************************************************************)
(* What the two ends of a session may take from each other.  No event is    *)
(* lost: the sender drops an event only when the receiver has taken it in.  *)
(* A success travels from the transaction through the worker, the ledger    *)
(* and the queue of answers to the sender, and each of them must stay true  *)
(* to the task it is about while the others move on.  The statuses on the   *)
(* way never contradict one another.  And the answer that ends a transfer   *)
(* for the sender leaves only when nothing of it is left at the receiver.   *)
(* Last, the sender never waits for an answer that nobody will give: a      *)
(* message, a deferred task, a job or the store always still owes it one.   *)
(***************************************************************************)
EXTENDS SyncTasks_proofs

Got == stored \cup passed

(* A task this session has sent; the one in progress is the sender's.       *)
Sent(t) ==
    /\ t.id <= number
    /\ t.id = number /\ sender.stage # "idle" =>
           t.op = Op(sender.stage) /\ t.event = sender.event

Asked == {m \in Inward : m.kind = "submit" => Sent(m.task)}

(* A status the sender may act upon.                                        *)
Sound(s) ==
    /\ s.id <= number
    /\ s.id = number /\ sender.stage = "commit" /\ s.state = "succeeded" =>
           sender.event \in Got

Outward == [kind : {"status"}, status : Status]
           \cup [kind : {"error"}, id : Ids,
                 code : {"retired", "unknown_task", "task_id_conflict", "invalid_task_id"}]
           \cup {Broken}

Answers == {m \in Outward : m.kind = "status" => Sound(m.status)}

(* The ledger calls a commit a success only when its event was taken in.    *)
EntryTrue(e) ==
    /\ Sent(e.task)
    /\ e.task.op = "transfer_commit" /\ e.status.state = "succeeded" => e.task.event \in Got

LedgerTrue(l) == \A i \in Ids : Holds(l, i) => EntryTrue(l.entries[i])

JobsTrue ==
    \A i \in Ids : jobs[i] # None =>
        /\ jobs[i].payload = ledger.entries[i].task.event
        /\ Durable(jobs[i]) /\ jobs[i].step \in {"applied", "ok"} => jobs[i].payload \in Got

DeliveryOK ==
    /\ toReceiver \in Seq(Asked)
    /\ toSender \in Seq(Answers)
    /\ LedgerTrue(ledger)
    /\ JobsTrue
    /\ ReceiptIsEarned

-----------------------------------------------------------------------------
(***************************************************************************)
(* Queues.                                                                 *)
(***************************************************************************)

LEMMA SeqGrows ==
    ASSUME NEW S, NEW T, S \subseteq T, NEW q \in Seq(S)
    PROVE  q \in Seq(T)
  <1>1. q \in [1 .. Len(q) -> S] /\ Len(q) \in Nat
    OBVIOUS
  <1>2. q \in [1 .. Len(q) -> T]
    BY <1>1
  <1> QED BY <1>1, <1>2, SeqDef

LEMMA JoinKeeps ==
    ASSUME NEW S, NEW q \in Seq(S), NEW message \in S, NEW merge, Broken \in S
    PROVE  Join(q, message, merge) \in Seq(S)
  <1> DEFINE same == {i \in DOMAIN q : SameTask(q[i], message)}
             i == CHOOSE j \in same : TRUE
             verdict == IF message.kind = "status"
                        THEN AcceptUpdate(q[i].status, message.status) ELSE "new"
  <1>1. CASE ~merge \/ same = {}
    BY <1>1 DEF Join
  <1>2. CASE ~(~merge \/ same = {})
    <2>1. i \in 1 .. Len(q)
      BY <1>2
    <2>2. Join(q, message, merge) = CASE verdict = "new" -> [q EXCEPT ![i] = message]
                                      [] verdict = "old" -> q
                                      [] OTHER -> Append(q, Broken)
      BY <1>2 DEF Join
    <2> HIDE DEF i, verdict
    <2>3. [q EXCEPT ![i] = message] \in Seq(S)
      BY <2>1, ExceptSeq
    <2>4. Append(q, Broken) \in Seq(S)
      OBVIOUS
    <2> QED BY <2>2, <2>3, <2>4
  <1> QED BY <1>1, <1>2

(* A question is no status: it never breaks the queue.                      *)
LEMMA JoinGetKeeps ==
    ASSUME NEW S, NEW q \in Seq(S), NEW message \in S, NEW merge, message.kind = "get"
    PROVE  Join(q, message, merge) \in Seq(S)
  <1> DEFINE same == {i \in DOMAIN q : SameTask(q[i], message)}
             i == CHOOSE j \in same : TRUE
  <1>1. CASE ~merge \/ same = {}
    BY <1>1 DEF Join
  <1>2. CASE ~(~merge \/ same = {})
    <2>1. i \in 1 .. Len(q)
      BY <1>2
    <2>2. Join(q, message, merge) = [q EXCEPT ![i] = message]
      BY <1>2 DEF Join
    <2> HIDE DEF i
    <2>3. [q EXCEPT ![i] = message] \in Seq(S)
      BY <2>1, ExceptSeq
    <2> QED BY <2>2, <2>3
  <1> QED BY <1>1, <1>2

(* An answer has three messages at most.                                    *)
LEMMA JoinAllSteps ==
    ASSUME NEW q, NEW ms, Len(ms) \in 0 .. 3, NEW merge
    PROVE  LET n     == Len(ms)
               one   == Join(q, ms[1], merge)
               two   == Join(one, ms[2], merge)
               three == Join(two, ms[3], merge)
           IN JoinAll(q, ms, merge) = IF n = 0 THEN q ELSE IF n = 1 THEN one
                                      ELSE IF n = 2 THEN two ELSE three
  <1> DEFINE n == Len(ms)
             Unrolled(f) == [k \in 0 .. n |-> IF k = 0 THEN q ELSE Join(f[k - 1], ms[k], merge)]
             joined == CHOOSE f : f = Unrolled(f)
             one == Join(q, ms[1], merge)
             two == Join(one, ms[2], merge)
             three == Join(two, ms[3], merge)
             g == [k \in 0 .. n |-> IF k = 0 THEN q ELSE IF k = 1 THEN one
                                    ELSE IF k = 2 THEN two ELSE three]
  <1>1. n \in 0 .. 3
    OBVIOUS
  <1>2. g = Unrolled(g)
    <2> HIDE DEF n
    <2>1. ASSUME NEW k \in 0 .. n
          PROVE  g[k] = IF k = 0 THEN q ELSE Join(g[k - 1], ms[k], merge)
      <3>1. k \in {0, 1, 2, 3}
        BY <1>1
      <3>2. k # 0 => k - 1 \in 0 .. n
        BY <1>1
      <3> HIDE DEF one, two, three
      <3>3. CASE k = 0
        BY <3>3
      <3>4. CASE k = 1
        BY <3>4, <3>2 DEF one
      <3>5. CASE k = 2
        BY <3>5, <3>2 DEF two
      <3>6. CASE k = 3
        BY <3>6, <3>2 DEF three
      <3> QED BY <3>1, <3>3, <3>4, <3>5, <3>6
    <2> HIDE DEF one, two, three
    <2> QED BY <2>1
  <1>3. joined = Unrolled(joined)
    <2> HIDE DEF g
    <2> QED BY <1>2
  <1>4. JoinAll(q, ms, merge) = joined[n]
    BY DEF JoinAll
  <1> HIDE DEF joined, g, n
  <1>5. joined[0] = q /\ \A k \in 1 .. n : joined[k] = Join(joined[k - 1], ms[k], merge)
    BY <1>1, <1>3
  <1>6. n >= 1 => joined[1] = one
    BY <1>1, <1>5
  <1> HIDE DEF one
  <1>7. n >= 2 => joined[2] = two
    BY <1>1, <1>5, <1>6
  <1> HIDE DEF two
  <1>8. n = 3 => joined[3] = three
    BY <1>1, <1>5, <1>7
  <1> HIDE DEF three
  <1>9. joined[n] = IF n = 0 THEN q ELSE IF n = 1 THEN one ELSE IF n = 2 THEN two ELSE three
    BY <1>1, <1>5, <1>6, <1>7, <1>8
  <1> QED BY <1>4, <1>9 DEF n, one, two, three

(* Messages of S make no other message when they are merged.               *)
Closed(S, merge) == \A r \in Seq(S), m \in S : Join(r, m, merge) \in Seq(S)

LEMMA JoinAllKeeps ==
    ASSUME NEW S, NEW q \in Seq(S), NEW ms \in Seq(S), Len(ms) <= 3, NEW merge,
           Closed(S, merge)
    PROVE  JoinAll(q, ms, merge) \in Seq(S)
  <1> DEFINE n == Len(ms)
             one == Join(q, ms[1], merge)
             two == Join(one, ms[2], merge)
             three == Join(two, ms[3], merge)
  <1>1. n \in 0 .. 3
    <2>1. n \in Nat /\ n <= 3
      OBVIOUS
    <2> HIDE DEF n
    <2> QED BY <2>1
  <1>2. JoinAll(q, ms, merge) = IF n = 0 THEN q ELSE IF n = 1 THEN one
                                ELSE IF n = 2 THEN two ELSE three
    BY <1>1, JoinAllSteps
  <1>3. \A k \in 1 .. n : ms[k] \in S
    OBVIOUS
  <1> HIDE DEF n
  <1>4. n >= 1 => one \in Seq(S)
    BY <1>1, <1>3 DEF Closed
  <1> HIDE DEF one
  <1>5. n >= 2 => two \in Seq(S)
    BY <1>1, <1>3, <1>4 DEF Closed
  <1> HIDE DEF two
  <1>6. n = 3 => three \in Seq(S)
    BY <1>1, <1>3, <1>5 DEF Closed
  <1> HIDE DEF three
  <1> QED BY <1>1, <1>2, <1>4, <1>5, <1>6

LEMMA AnswerKeeps ==
    ASSUME NEW S, toSender \in Seq(S), NEW ms \in Seq(S), Len(ms) <= 3, Broken \in S, Answer(ms)
    PROVE  toSender' \in Seq(S)
  BY JoinKeeps, JoinAllKeeps DEF Answer, Closed
-----------------------------------------------------------------------------
(***************************************************************************)
(* What was true stays true while the sender goes on to its next task.     *)
(***************************************************************************)

Advance ==
    \/ /\ number' = number
       /\ \/ sender'.stage = "idle"
          \/ sender'.stage = sender.stage /\ sender'.event = sender.event
    \/ number' = number + 1

LEMMA Grows ==
    ASSUME SenderOK, Advance, stored \subseteq stored', passed \subseteq passed'
    PROVE  /\ Asked \subseteq Asked' /\ Answers \subseteq Answers'
           /\ \A e \in Entry : EntryTrue(e) => EntryTrue(e)'
           /\ Got \subseteq Got'
  <1>1. number \in Nat /\ Ids \subseteq Nat
    BY MaxTasksAssumption DEF SenderOK, Ids
  <1>2. Got \subseteq Got'
    BY DEF Got
  <1>3. \A t \in Task : Sent(t) => Sent(t)'
    <2> SUFFICES ASSUME NEW t \in Task, Sent(t) PROVE Sent(t)'
      OBVIOUS
    <2>1. t.id \in Nat /\ t.id <= number
      BY <1>1 DEF Task, Sent
    <2>2. CASE number' = number + 1
      BY <2>1, <2>2, <1>1 DEF Sent
    <2>3. CASE number' = number
      BY <2>1, <2>3, <1>1 DEF Sent, Advance
    <2> QED BY <2>2, <2>3 DEF Advance
  <1>4. \A s \in Status : Sound(s) => Sound(s)'
    <2> SUFFICES ASSUME NEW s \in Status, Sound(s) PROVE Sound(s)'
      OBVIOUS
    <2>1. s.id \in Nat /\ s.id <= number
      BY <1>1 DEF Status, Sound
    <2>2. CASE number' = number + 1
      BY <2>1, <2>2, <1>1 DEF Sound
    <2>3. CASE number' = number
      BY <2>1, <2>3, <1>1, <1>2 DEF Sound, Advance
    <2> QED BY <2>2, <2>3 DEF Advance
  <1>5. Asked \subseteq Asked'
    BY <1>3, InwardFacts DEF Asked
  <1>6. \A m \in Outward : m.kind = "status" => m.status \in Status
    BY DEF Outward, Broken
  <1>7. Answers \subseteq Answers'
    <2>1. Outward' = Outward
      OBVIOUS
    <2> QED BY <1>4, <1>6 DEF Answers
  <1>8. \A e \in Entry : EntryTrue(e) => EntryTrue(e)'
    BY <1>2, <1>3 DEF EntryTrue, Entry
  <1> QED BY <1>2, <1>5, <1>7, <1>8

LEMMA SenderStays ==
    ASSUME SenderOK, UNCHANGED outward
    PROVE  Advance
  BY DEF Advance, outward

LEMMA Moves ==
    ASSUME IInv, DeliveryOK, Advance, stored \subseteq stored', passed \subseteq passed',
           ledger' = ledger, toReceiver' \in Seq(Asked'), toSender' \in Seq(Answers),
           JobsTrue', ReceiptIsEarned'
    PROVE  DeliveryOK'
  <1>1. SenderOK /\ ledger \in Ledgers
    BY DEF IInv, ReceiverOK, LedgerOK
  <1>2. Answers \subseteq Answers' /\ \A e \in Entry : EntryTrue(e) => EntryTrue(e)'
    BY <1>1, Grows
  <1>3. toSender' \in Seq(Answers')
    BY <1>2, SeqGrows
  <1>4. \A i \in Ids : Holds(ledger, i) => EntryTrue(ledger.entries[i])'
    BY <1>1, <1>2, EntryFacts DEF DeliveryOK, LedgerTrue
  <1>5. LedgerTrue(ledger)'
    BY <1>4 DEF LedgerTrue, EntryTrue, Sent
  <1> QED BY <1>3, <1>5 DEF DeliveryOK

LEMMA SameJobs ==
    ASSUME DeliveryOK, stored \subseteq stored', passed \subseteq passed', UNCHANGED <<ledger, jobs>>
    PROVE  JobsTrue'
  BY DEF DeliveryOK, JobsTrue, Got

LEMMA ReportFacts ==
    ASSUME IInv, NEW l, LedgerOK(l), NEW id \in Ids, Holds(l, id), EntryTrue(l.entries[id])
    PROVE  Report(l.entries[id].status) \in Answers
  <1> DEFINE t == l.entries[id].task
             s == l.entries[id].status
  <1>1. /\ s \in Status /\ s.id = id /\ t.id = id
    BY EntryFacts DEF LedgerOK, Filed
  <1>2. Sent(t) /\ (t.op = "transfer_commit" /\ s.state = "succeeded" => t.event \in Got)
    BY DEF EntryTrue
  <1> HIDE DEF s, t
  <1>3. Sound(s)
    BY <1>1, <1>2 DEF Sent, Sound, Op
  <1>4. Report(s) \in Outward /\ Report(s).kind = "status" /\ Report(s).status = s
    BY <1>1 DEF Report, Outward
  <1>5. Report(s) \in Answers
    BY <1>3, <1>4 DEF Answers
  <1> QED BY <1>5 DEF s

LEMMA RefusalFacts ==
    ASSUME NEW id \in Ids,
           NEW code \in {"retired", "unknown_task", "task_id_conflict", "invalid_task_id"}
    PROVE  Refusal(id, code) \in Answers
  BY DEF Refusal, Answers, Outward

LEMMA BrokenFacts == Broken \in Answers
  BY DEF Broken, Answers, Outward
-----------------------------------------------------------------------------
(***************************************************************************)
(* The sender's steps.                                                     *)
(***************************************************************************)

LEMMA SendMoves ==
    ASSUME SenderOK, toReceiver \in Seq(Asked), UNCHANGED <<stored, passed>>,
           NEW stage \in {"begin", "upload", "commit", "abort"},
           NEW event \in Events, NEW early, Send(stage, event, early)
    PROVE  Advance /\ toReceiver' \in Seq(Asked')
  <1>1. number + 1 \in Ids /\ Op(stage) \in Operations /\ number' = number + 1
    BY DEF Send, Op, Operations
  <1>2. PICK task \in Task : task = [id |-> number + 1, op |-> Op(stage), event |-> event]
    BY <1>1 DEF Task
  <1>3. task.id = number' /\ task.op = Op(stage) /\ task.event = event
    BY <1>1, <1>2
  <1>4. toReceiver' = Append(toReceiver, Submit(task))
    BY <1>2 DEF Send
  <1>5. sender' = [stage |-> stage, event |-> event, view |-> None, early |-> early]
    BY DEF Send
  <1>6. sender'.stage = stage /\ sender'.event = event
    BY <1>5
  <1>7. Advance
    BY <1>1 DEF Advance
  <1>8. number' \in Nat
    BY <1>1, MaxTasksAssumption DEF Ids
  <1>9. Sent(task)'
    BY <1>3, <1>6, <1>8 DEF Sent
  <1>10. Submit(task) \in Inward /\ Submit(task).task = task
    BY DEF Submit, Inward
  <1>11. Submit(task) \in Asked'
    BY <1>9, <1>10 DEF Asked
  <1>12. toReceiver \in Seq(Asked')
    BY <1>7, Grows, SeqGrows
  <1> QED BY <1>4, <1>7, <1>11, <1>12

LEMMA WaitMoves ==
    ASSUME SenderOK, toReceiver \in Seq(Asked), UNCHANGED <<stored, passed, toReceiver>>, Advance
    PROVE  Advance /\ toReceiver' \in Seq(Asked')
  BY Grows, SeqGrows

LEMMA RestMoves ==
    ASSUME SenderOK, toReceiver \in Seq(Asked), UNCHANGED <<stored, passed, toReceiver, number>>,
           sender' = Rest
    PROVE  Advance /\ toReceiver' \in Seq(Asked')
  <1>1. Advance
    BY DEF Rest, Advance
  <1> QED BY <1>1, WaitMoves

LEMMA HearMoves ==
    ASSUME IInv, DeliveryOK, Hear
    PROVE  Advance /\ toReceiver' \in Seq(Asked') /\ ReceiptIsEarned'
  <1> DEFINE message == Head(toSender)
             Goal == Advance /\ toReceiver' \in Seq(Asked') /\ ReceiptIsEarned'
  <1>1. /\ SenderOK /\ toReceiver \in Seq(Asked) /\ UNCHANGED <<stored, passed>>
        /\ Events \ outbox \subseteq Got
    BY DEF IInv, DeliveryOK, ReceiptIsEarned, Hear, durable, Got
  <1>2. message \in Answers
    BY DEF Hear, DeliveryOK
  <1>3. ASSUME outbox' = outbox PROVE ReceiptIsEarned'
    BY <1>1, <1>3 DEF ReceiptIsEarned, Got
  <1>4. CASE UNCHANGED <<outward, toReceiver>>
    BY <1>1, <1>3, <1>4, SenderStays, WaitMoves DEF outward
  <1>5. CASE Resume
    BY <1>1, <1>3, <1>5, RestMoves DEF Resume
  <1>6. CASE sender.stage # "idle" /\ GiveUp
    BY <1>1, <1>3, <1>6, SendMoves DEF GiveUp, SenderOK
  <1>7. CASE HearError(message.id)
    BY <1>4, <1>5, <1>6, <1>7 DEF HearError, Awaits
  <1>8. CASE message.kind = "status" /\ HearStatus(message.status)
    <2> DEFINE status == message.status
               verdict == IF sender.view = None THEN "new" ELSE AcceptUpdate(sender.view, status)
    <2>1. Sound(status)
      BY <1>2, <1>8 DEF Answers
    <2>2. CASE ~Awaits(status.id)
      BY <2>2, <1>8, <1>4 DEF HearStatus
    <2>3. CASE Awaits(status.id)
      <3>1. sender.stage \in Stages \ {"idle"} /\ status.id = number /\ sender.event \in Events
        BY <2>3, <1>1 DEF Awaits, SenderOK
      <3>2. verdict \in {"old", "new", "conflict"}
        BY DEF AcceptUpdate
      <3>3. CASE verdict = "old"
        BY <3>3, <2>3, <1>8, <1>4 DEF HearStatus
      <3>4. CASE verdict = "new" /\ ~Terminal(status)
        <4>1. sender' = [sender EXCEPT !.view = status] /\ UNCHANGED <<outbox, number, toReceiver>>
          BY <3>4, <2>3, <1>8 DEF HearStatus
        <4>2. sender' = [stage |-> sender.stage, event |-> sender.event,
                         view |-> status, early |-> sender.early]
          BY <4>1, <1>1 DEF SenderOK
        <4>3. Advance
          BY <4>1, <4>2 DEF Advance
        <4> QED BY <4>1, <4>3, <1>1, <1>3, WaitMoves
      <3>5. CASE verdict = "new" /\ Terminal(status) /\ sender.stage = "abort"
        BY <3>5, <2>3, <1>8, <1>5 DEF HearStatus
      <3>6. CASE verdict = "new" /\ Terminal(status) /\ sender.stage # "abort"
        <4>1. IF status.state = "succeeded" THEN Proceed ELSE GiveUp
          BY <3>6, <2>3, <1>8 DEF HearStatus
        <4>2. CASE GiveUp
          BY <4>2, <3>1, <1>6
        <4>3. CASE status.state = "succeeded" /\ sender.stage = "begin" /\ Proceed
          <5>1. Send("upload", sender.event, FALSE) /\ outbox' = outbox
            BY <4>3 DEF Proceed
          <5> QED BY <5>1, <3>1, <1>1, <1>3, SendMoves
        <4>4. CASE status.state = "succeeded" /\ sender.stage = "upload" /\ Proceed
          <5>1. Send("commit", sender.event, FALSE) /\ outbox' = outbox
            BY <4>4 DEF Proceed
          <5> QED BY <5>1, <3>1, <1>1, <1>3, SendMoves
        <4>5. CASE status.state = "succeeded" /\ sender.stage = "commit" /\ Proceed
          <5>1. /\ outbox' = outbox \ {sender.event} /\ sender' = Rest
                /\ UNCHANGED <<number, toReceiver>>
            BY <4>5 DEF Proceed
          <5>2. sender.event \in Got
            BY <2>1, <3>1, <4>5 DEF Sound
          <5>3. ReceiptIsEarned'
            BY <5>1, <5>2, <1>1 DEF ReceiptIsEarned, Got
          <5> QED BY <5>1, <5>3, <1>1, RestMoves
        <4> QED BY <4>1, <4>2, <4>3, <4>4, <4>5, <3>1, <3>6 DEF Stages
      <3>7. CASE verdict = "conflict"
        <4>1. sender.view # None /\ AcceptUpdate(sender.view, status) = "conflict"
          BY <3>7
        <4> QED BY <4>1, <2>3, <1>8 DEF Hear, Conflicting
      <3> QED BY <3>2, <3>3, <3>4, <3>5, <3>6, <3>7
    <2> QED BY <2>2, <2>3
  <1> QED BY <1>7, <1>8 DEF Hear

LEMMA SenderDelivery ==
    ASSUME IInv, DeliveryOK,
           \/ \E e \in Events : Deliver(e) \/ PreparationFails(e)
           \/ \E id \in Ids : Repeat(id)
           \/ Hear \/ CancelTask \/ TurnEarly \/ Retry
    PROVE  DeliveryOK'
  <1>1. /\ SenderOK /\ LedgerOK(ledger) /\ toReceiver \in Seq(Asked) /\ toSender \in Seq(Answers)
        /\ ReceiptIsEarned
    BY DEF IInv, ReceiverOK, DeliveryOK
  <1>2. UNCHANGED <<stored, passed, ledger, jobs>>
    BY DEF Deliver, PreparationFails, Repeat, Hear, CancelTask, TurnEarly, Retry, inward, durable
  <1>3. ASSUME Advance, toReceiver' \in Seq(Asked'), toSender' \in Seq(Answers), ReceiptIsEarned'
        PROVE  DeliveryOK'
    BY <1>2, <1>3, Moves, SameJobs
  <1>4. ASSUME outbox' = outbox PROVE ReceiptIsEarned'
    BY <1>1, <1>2, <1>4 DEF ReceiptIsEarned
  <1>5. ASSUME NEW e \in Events, Deliver(e) PROVE DeliveryOK'
    BY <1>1, <1>2, <1>3, <1>4, <1>5, SendMoves DEF Deliver
  <1>6. ASSUME NEW e \in Events, PreparationFails(e) PROVE DeliveryOK'
    <2>1. Advance /\ UNCHANGED <<outbox, toReceiver, toSender>>
      BY <1>6 DEF PreparationFails, Advance
    <2> QED BY <2>1, <1>1, <1>2, <1>3, <1>4, WaitMoves
  <1>7. ASSUME NEW id \in Ids, Repeat(id) PROVE DeliveryOK'
    <2>1. Advance /\ UNCHANGED <<outbox, toSender>>
      BY <1>1, <1>7, SenderStays DEF Repeat, outward
    <2>2. Asked \subseteq Asked'
      BY <2>1, <1>1, <1>2, Grows
    <2>3. ASSUME toReceiver' \in Seq(Asked) PROVE DeliveryOK'
      BY <2>1, <2>2, <2>3, <1>1, <1>3, <1>4, SeqGrows
    <2>4. CASE \E merge \in Merges : toReceiver' = Join(toReceiver, Get(id), merge)
      <3>1. Get(id) \in Asked /\ Get(id).kind = "get"
        BY DEF Get, Asked, Inward
      <3>2. PICK merge \in Merges : toReceiver' = Join(toReceiver, Get(id), merge)
        BY <2>4
      <3>3. toReceiver' \in Seq(Asked)
        BY <3>1, <3>2, <1>1, JoinGetKeeps
      <3> QED BY <3>3, <2>3
    <2>5. CASE Holds(ledger, id) /\ toReceiver' = Append(toReceiver, Submit(ledger.entries[id].task))
      <3> DEFINE task == ledger.entries[id].task
      <3>1. task \in Task /\ Sent(task)
        BY <2>5, <1>1, EntryFacts DEF LedgerOK, DeliveryOK, LedgerTrue, EntryTrue
      <3> HIDE DEF task
      <3>2. Submit(task) \in Asked
        BY <3>1 DEF Submit, Asked, Inward
      <3>3. toReceiver' = Append(toReceiver, Submit(task))
        BY <2>5 DEF task
      <3> QED BY <3>2, <3>3, <2>3, <1>1
    <2> QED BY <2>4, <2>5, <1>7 DEF Repeat
  <1>8. CASE Hear
    <2>1. toSender' \in Seq(Answers)
      BY <1>1, <1>8 DEF Hear
    <2> QED BY <2>1, <1>3, <1>8, HearMoves
  <1>9. CASE CancelTask
    <2>1. Advance /\ UNCHANGED <<outbox, toSender>> /\ toReceiver' = Append(toReceiver, Cancel(number))
      BY <1>1, <1>9, SenderStays DEF CancelTask, outward
    <2>2. Cancel(number) \in Asked
      BY <1>1, <1>9 DEF CancelTask, SenderOK, Cancel, Asked, Inward
    <2>3. toReceiver' \in Seq(Asked) /\ Asked \subseteq Asked'
      BY <2>1, <2>2, <1>1, <1>2, Grows
    <2> QED BY <2>1, <2>3, <1>1, <1>3, <1>4, SeqGrows
  <1>10. CASE TurnEarly
    <2>1. sender.event \in Events /\ UNCHANGED <<outbox, toSender>>
      BY <1>1, <1>10 DEF TurnEarly, SenderOK
    <2>2. CASE Send("abort", sender.event, TRUE)
      BY <2>1, <2>2, <1>1, <1>2, <1>3, <1>4, SendMoves
    <2>3. CASE Send("commit", sender.event, FALSE)
      BY <2>1, <2>3, <1>1, <1>2, <1>3, <1>4, SendMoves
    <2> QED BY <2>2, <2>3, <1>10 DEF TurnEarly
  <1>11. CASE Retry
    <2>1. Advance /\ UNCHANGED <<outbox, toReceiver, toSender>>
      BY <1>11 DEF Retry, Advance
    <2> QED BY <2>1, <1>1, <1>2, <1>3, <1>4, WaitMoves
  <1> QED BY <1>5, <1>6, <1>7, <1>8, <1>9, <1>10, <1>11
-----------------------------------------------------------------------------
(***************************************************************************)
(* The receiver's workers.                                                 *)
(***************************************************************************)

LEMMA WorkerDelivery ==
    ASSUME IInv, DeliveryOK, NEW id \in Ids, Works(id),
           stored \subseteq stored', passed \subseteq passed',
           UNCHANGED <<outward, toReceiver, toSender>>,
           Durable(jobs[id]) /\ jobs'[id].step \in {"applied", "ok"} => jobs[id].payload \in Got'
    PROVE  DeliveryOK'
  <1>1. SenderOK /\ Advance /\ ledger' = ledger /\ Got \subseteq Got'
    BY SenderStays DEF IInv, Works, Got
  <1>2. JobsTrue'
    BY <1>1 DEF DeliveryOK, JobsTrue, Works, Durable
  <1>3. ReceiptIsEarned'
    BY <1>1 DEF DeliveryOK, ReceiptIsEarned, outward, Got
  <1>4. toReceiver' \in Seq(Asked') /\ toSender' \in Seq(Answers)
    BY <1>1, Grows, SeqGrows DEF DeliveryOK
  <1> QED BY <1>1, <1>2, <1>3, <1>4, Moves

LEMMA StagingDelivery ==
    ASSUME IInv, DeliveryOK, NEW id \in Ids,
           Begin(id) \/ Upload(id) \/ Abort(id) \/ UploadFails(id)
    PROVE  DeliveryOK'
  <1>1. Works(id) /\ ~Durable(jobs[id])
    BY StagingWorkers DEF IInv, Durable
  <1>2. UNCHANGED <<outward, toReceiver, toSender, stored, passed>>
    BY DEF Begin, Upload, Abort, UploadFails, WorkerLeaves, durable
  <1> QED BY <1>1, <1>2, WorkerDelivery

LEMMA CommitDelivery ==
    ASSUME IInv, DeliveryOK, NEW id \in Ids,
           \/ CommitRefused(id) \/ Apply(id) \/ Reject(id) \/ ApplyFails(id)
           \/ CommitUncertain(id) \/ Answered(id) \/ Dies(id) \/ Read(id) \/ ReadFails(id)
    PROVE  DeliveryOK'
  <1>1. /\ jobs[id] # None
        /\ UNCHANGED <<up, ledger, staging, deferred, ran, loose, outward, toReceiver, toSender>>
        /\ stored \subseteq stored' /\ passed \subseteq passed'
    BY DEF CommitRefused, Apply, Reject, ApplyFails, CommitUncertain, Answered, Dies, Read, ReadFails,
           Applying, Working, WorkerLeaves, durable
  <1>2. ASSUME NEW step \in Running \cup Ended, Ends(id, step),
               Durable(jobs[id]) /\ step \in {"applied", "ok"} => jobs[id].payload \in Got'
        PROVE  DeliveryOK'
    <2>1. Works(id) /\ jobs'[id].step = step
      BY <1>1, <1>2, EndsFacts DEF IInv
    <2> QED BY <2>1, <1>1, <1>2, WorkerDelivery
  <1>3. CASE \E step \in {"failed", "attempt", "uncertain", "dead", "unknown"} : Ends(id, step)
    BY <1>2, <1>3, Steps
  <1>4. CASE CommitRefused(id) \/ Reject(id) \/ ApplyFails(id) \/ CommitUncertain(id) \/ Dies(id)
             \/ ReadFails(id)
    BY <1>3, <1>4 DEF CommitRefused, Reject, ApplyFails, CommitUncertain, Dies, ReadFails
  <1>5. CASE Apply(id)
    <2>1. Ends(id, "applied") /\ jobs[id].payload \in Got'
      BY <1>5 DEF Apply, Applying, Got
    <2> QED BY <2>1, <1>2, Steps
  <1>6. CASE Answered(id)
    <2>1. Ends(id, "ok") /\ jobs[id].step = "applied" /\ UNCHANGED <<stored, passed>>
      BY <1>6 DEF Answered, durable
    <2>2. Durable(jobs[id]) => jobs[id].payload \in Got'
      BY <2>1, <1>1 DEF DeliveryOK, JobsTrue, Got
    <2> QED BY <2>1, <2>2, <1>2, Steps
  <1>7. CASE Read(id)
    <2>1. /\ Ends(id, Established(jobs[id], jobs[id].payload \in stored))
          /\ UNCHANGED <<stored, passed>>
      BY <1>7 DEF Read, durable
    <2>2. CASE jobs[id].payload \in stored
      <3>1. Ends(id, "ok") /\ jobs[id].payload \in Got'
        BY <2>1, <2>2 DEF Established, Got
      <3> QED BY <3>1, <1>2, Steps
    <2>3. CASE jobs[id].payload \notin stored
      BY <2>1, <2>3, <1>3 DEF Established
    <2> QED BY <2>2, <2>3
  <1> QED BY <1>4, <1>5, <1>6, <1>7
-----------------------------------------------------------------------------
(***************************************************************************)
(* The receiver's frames.                                                  *)
(***************************************************************************)

(* A step of the receiver that changes its ledger and answers.              *)
LEMMA LedgerDelivery ==
    ASSUME IInv, DeliveryOK, UNCHANGED <<outward, stored, passed>>,
           toReceiver' \in Seq(Asked), toSender' \in Seq(Answers),
           \A i \in Ids : Holds(ledger', i) => EntryTrue(ledger'.entries[i]),
           JobsTrue'
    PROVE  DeliveryOK'
  <1>1. SenderOK /\ Advance
    BY SenderStays DEF IInv
  <1>2. Asked \subseteq Asked' /\ Answers \subseteq Answers'
    BY <1>1, Grows
  <1>3. toReceiver' \in Seq(Asked') /\ toSender' \in Seq(Answers')
    BY <1>2, SeqGrows
  <1>4. LedgerTrue(ledger)'
    BY DEF LedgerTrue, EntryTrue, Sent, Got, outward
  <1>5. ReceiptIsEarned'
    BY DEF DeliveryOK, ReceiptIsEarned, outward
  <1> QED BY <1>3, <1>4, <1>5 DEF DeliveryOK

(* What an open task reports is no success.                                 *)
LEMMA OpenTrue ==
    ASSUME NEW l, NEW id, Open(l, id), Sent(l.entries[id].task)
    PROVE  EntryTrue(l.entries[id])
  BY DEF EntryTrue, Open, Terminal

LEMMA StartDelivery ==
    ASSUME IInv, DeliveryOK, NEW task \in Task, Sent(task), Verdict(ledger, task) = "start",
           StartTask(task), UNCHANGED <<outward, stored, passed>>, toReceiver' \in Seq(Asked)
    PROVE  DeliveryOK'
  <1> DEFINE id == task.id
             queued == Admitted(ledger, task)
             running == Update(queued, id, "own")
             pending == Update(running, id, "cancellation_pending")
             told(l) == Report(l.entries[id].status)
  <1>1. LedgerOK(ledger) /\ OneLive(ledger) /\ ledger \in Ledgers /\ staging \in Stagings
        /\ ReceiverOK
    BY DEF IInv, ReceiverOK, LedgerOK, JobsOK
  <1>2. /\ id \in Ids /\ id = ledger.highwater + 1 /\ id > ledger.highwater
        /\ Live(ledger, Slot(task.op)) = {}
    BY <1>1, VerdictFacts
  <1>3. queued = Enter(ledger, task)
    BY DEF Admitted
  <1>4. /\ ledger' \in {running, pending}
        /\ \/ Answer(<<told(queued), told(running), told(pending)>>) /\ jobs' = jobs
           \/ Answer(<<told(queued), told(running)>>) /\ jobs' = [jobs EXCEPT ![id] = Start(task)]
    BY DEF StartTask
  <1>5. /\ Open(ledger', id) /\ ledger'.entries[id].task = task
        /\ \A j \in Ids \ {id} :
              \/ ledger'.entries[j] = ledger.entries[j]
              \/ ledger'.entries[j] = None /\ (Holds(ledger, j) => Terminal(ledger.entries[j].status))
    BY <1>1, <1>2, <1>3, <1>4, QueuedFacts
  <1>6. LedgerOK(queued) /\ Open(queued, id) /\ queued.entries[id].task = task
    BY <1>1, <1>2, <1>3, EnterFacts
  <1> HIDE DEF queued
  <1>7. LedgerOK(running) /\ Open(running, id) /\ running.entries[id].task = task
    BY <1>2, <1>6, UpdateFacts
  <1> HIDE DEF running
  <1>8. LedgerOK(pending) /\ Open(pending, id) /\ pending.entries[id].task = task
    BY <1>2, <1>7, UpdateFacts
  <1> HIDE DEF pending, id
  <1>9. told(queued) \in Answers
    BY <1>2, <1>6, OpenTrue, ReportFacts DEF Open
  <1>10. told(running) \in Answers
    BY <1>2, <1>7, OpenTrue, ReportFacts DEF Open
  <1>11. told(pending) \in Answers
    BY <1>2, <1>8, OpenTrue, ReportFacts DEF Open
  <1> HIDE DEF told
  <1>12. /\ <<told(queued), told(running), told(pending)>> \in Seq(Answers)
         /\ Len(<<told(queued), told(running), told(pending)>>) <= 3
         /\ <<told(queued), told(running)>> \in Seq(Answers)
         /\ Len(<<told(queued), told(running)>>) <= 3
    BY <1>9, <1>10, <1>11
  <1>13. toSender \in Seq(Answers)
    BY DEF DeliveryOK
  <1>14. toSender' \in Seq(Answers)
    BY <1>4, <1>12, <1>13, AnswerKeeps, BrokenFacts
  <1>15. \A i \in Ids : Holds(ledger', i) => EntryTrue(ledger'.entries[i])
    <2> SUFFICES ASSUME NEW i \in Ids, Holds(ledger', i) PROVE EntryTrue(ledger'.entries[i])
      OBVIOUS
    <2>1. CASE i = id
      BY <2>1, <1>5 DEF EntryTrue, Open, Terminal
    <2>2. CASE i # id
      <3>1. ledger'.entries[i] = ledger.entries[i] /\ Holds(ledger, i)
        BY <2>2, <1>5 DEF Holds
      <3> QED BY <3>1 DEF DeliveryOK, LedgerTrue
    <2> QED BY <2>1, <2>2
  <1>16. JobsTrue'
    <2>1. Start(task).payload = task.event /\ Start(task).step = "running"
      BY <1>1, StartJob
    <2>2. jobs[id] = None /\ jobs \in [Ids -> Jobs \cup {None}]
      BY <1>1, <1>2, NewNumber DEF ReceiverOK, JobsOK
    <2>3. \A i \in Ids : jobs[i] # None => i # id /\ ledger'.entries[i] = ledger.entries[i]
      BY <1>1, <1>5, <2>2 DEF ReceiverOK, JobsOK, Open
    <2>4. \A i \in Ids : jobs'[i] = jobs[i] \/ (i = id /\ jobs'[i] = Start(task))
      BY <1>4, <2>2
    <2> QED BY <1>5, <2>1, <2>3, <2>4 DEF DeliveryOK, JobsTrue, Got
  <1> QED BY <1>14, <1>15, <1>16, LedgerDelivery

LEMMA OneAnswer ==
    ASSUME DeliveryOK, NEW m \in Answers, Answer(<<m>>)
    PROVE  toSender' \in Seq(Answers)
  <1>1. <<m>> \in Seq(Answers) /\ Len(<<m>>) <= 3
    OBVIOUS
  <1> QED BY <1>1, AnswerKeeps, BrokenFacts DEF DeliveryOK

LEMMA BusyDelivery ==
    ASSUME IInv, DeliveryOK, NEW task \in Task, Sent(task), Verdict(ledger, task) = "busy",
           ledger' = Admitted(ledger, task), UNCHANGED jobs,
           Answer(<<Report(ledger'.entries[task.id].status)>>),
           UNCHANGED <<outward, stored, passed>>, toReceiver' \in Seq(Asked)
    PROVE  DeliveryOK'
  <1> DEFINE id == task.id
             m == EnterBusy(ledger, task)
  <1>1. LedgerOK(ledger) /\ OneLive(ledger) /\ ledger \in Ledgers /\ ReceiverOK
    BY DEF IInv, ReceiverOK, LedgerOK
  <1>2. /\ id \in Ids /\ id = ledger.highwater + 1 /\ id > ledger.highwater
    BY <1>1, VerdictFacts
  <1>3. ledger' = m
    BY DEF Admitted
  <1>4. /\ LedgerOK(m) /\ Holds(m, id)
        /\ m.entries[id].task = task /\ m.entries[id].status.state # "succeeded"
        /\ \A j \in Ids \ {id} :
              \/ m.entries[j] = ledger.entries[j]
              \/ m.entries[j] = None /\ (Holds(ledger, j) => Terminal(ledger.entries[j].status))
    BY <1>1, <1>2, EnterBusyFacts
  <1>5. jobs[id] = None
    BY <1>1, <1>2, NewNumber
  <1> HIDE DEF m, id
  <1>6. \A i \in Ids : Holds(m, i) => EntryTrue(m.entries[i])
    <2> SUFFICES ASSUME NEW i \in Ids, Holds(m, i) PROVE EntryTrue(m.entries[i])
      OBVIOUS
    <2>1. CASE i = id
      BY <2>1, <1>4 DEF EntryTrue
    <2>2. CASE i # id
      <3>1. m.entries[i] = ledger.entries[i] /\ Holds(ledger, i)
        BY <2>2, <1>4 DEF Holds
      <3> QED BY <3>1 DEF DeliveryOK, LedgerTrue
    <2> QED BY <2>1, <2>2
  <1>7. Report(m.entries[id].status) \in Answers
    BY <1>2, <1>4, <1>6, ReportFacts
  <1>8. toSender' \in Seq(Answers)
    BY <1>3, <1>7, OneAnswer DEF id
  <1>9. JobsTrue'
    <2>1. \A i \in Ids : jobs[i] # None => ledger'.entries[i] = ledger.entries[i]
      BY <1>1, <1>3, <1>4, <1>5 DEF ReceiverOK, JobsOK, Open
    <2> QED BY <2>1 DEF DeliveryOK, JobsTrue, Got
  <1> QED BY <1>3, <1>6, <1>8, <1>9, LedgerDelivery

(* An answer that leaves the receiver as it is.                             *)
LEMMA QuietDelivery ==
    ASSUME IInv, DeliveryOK, UNCHANGED <<outward, stored, passed, ledger, jobs>>,
           toReceiver' \in Seq(Asked), toSender' \in Seq(Answers)
    PROVE  DeliveryOK'
  <1>1. JobsTrue'
    BY SameJobs
  <1> QED BY <1>1, LedgerDelivery DEF DeliveryOK, LedgerTrue

LEMMA GetDelivery ==
    ASSUME IInv, DeliveryOK, NEW id \in Ids, TakeGet(id),
           UNCHANGED <<outward, stored, passed>>, toReceiver' \in Seq(Asked)
    PROVE  DeliveryOK'
  <1> DEFINE m == IF Holds(ledger, id) THEN Report(ledger.entries[id].status)
                  ELSE IF id <= ledger.highwater THEN Refusal(id, "retired")
                  ELSE Refusal(id, "unknown_task")
  <1>1. m \in Answers
    <2>1. CASE Holds(ledger, id)
      BY <2>1, ReportFacts DEF IInv, ReceiverOK, DeliveryOK, LedgerTrue
    <2>2. CASE ~Holds(ledger, id)
      BY <2>2, RefusalFacts
    <2> QED BY <2>1, <2>2
  <1>2. Answer(<<m>>) /\ UNCHANGED <<ledger, jobs>>
    BY DEF TakeGet, inward
  <1> HIDE DEF m
  <1> QED BY <1>1, <1>2, OneAnswer, QuietDelivery

LEMMA CancelDelivery ==
    ASSUME IInv, DeliveryOK, NEW id \in Ids, TakeCancel(id),
           UNCHANGED <<outward, stored, passed>>, toReceiver' \in Seq(Asked)
    PROVE  DeliveryOK'
  <1>1. CASE jobs[id] = None
    BY <1>1, GetDelivery DEF TakeCancel
  <1>2. CASE jobs[id] # None
    <2> DEFINE job == jobs[id]
               step == IF Durable(job) \/ job.step \in Ended THEN job.step ELSE "dead"
               j == [job EXCEPT !.cancelled = TRUE, !.step = step]
               m == CancelNoted(ledger, id)
    <2>1. /\ job \in Jobs /\ Open(ledger, id) /\ LedgerOK(ledger)
          /\ jobs \in [Ids -> Jobs \cup {None}] /\ ReceiverOK
      BY <1>2, JobFacts DEF IInv, ReceiverOK, JobsOK
    <2>2. /\ ledger' = m /\ Answer(<<Report(ledger'.entries[id].status)>>)
          /\ jobs' = [jobs EXCEPT ![id].cancelled = TRUE, ![id].step = step]
      BY <1>2, <2>1 DEF TakeCancel, Jobs
    <2>3. jobs' = [jobs EXCEPT ![id] = j]
      <3> HIDE DEF step
      <3> QED BY <2>1, <2>2
    <2>4. j.op = job.op /\ j.payload = job.payload /\ j.step = step
      <3> HIDE DEF job, step
      <3> QED BY <2>1 DEF Jobs
    <2>5. /\ LedgerOK(m) /\ Follows(ledger, m, id) /\ Open(m, id)
          /\ m.entries[id].task = ledger.entries[id].task
      BY <2>1, UpdateFacts DEF CancelNoted
    <2> HIDE DEF m
    <2>6. \A i \in Ids : Holds(m, i) => EntryTrue(m.entries[i])
      <3> SUFFICES ASSUME NEW i \in Ids, Holds(m, i) PROVE EntryTrue(m.entries[i])
        OBVIOUS
      <3>1. CASE i = id
        <4>1. Sent(m.entries[id].task)
          BY <2>1, <2>5 DEF DeliveryOK, LedgerTrue, EntryTrue, Open
        <4> QED BY <4>1, <3>1, <2>5, OpenTrue
      <3>2. CASE i # id
        <4>1. m.entries[i] = ledger.entries[i] /\ Holds(ledger, i)
          BY <3>2, <2>5 DEF Follows, Holds
        <4> QED BY <4>1 DEF DeliveryOK, LedgerTrue
      <3> QED BY <3>1, <3>2
    <2>7. Report(m.entries[id].status) \in Answers
      BY <2>5, <2>6, ReportFacts DEF Open
    <2>8. toSender' \in Seq(Answers)
      BY <2>2, <2>7, OneAnswer
    <2>9. JobsTrue'
      <3>1. \A i \in Ids : jobs[i] # None => m.entries[i].task = ledger.entries[i].task
        BY <2>1, <2>5 DEF ReceiverOK, JobsOK, Follows, Open
      <3>2. Durable(j) => Durable(job) /\ step = job.step
        BY <2>4 DEF Durable
      <3> HIDE DEF j, step
      <3>3. /\ jobs'[id] = j /\ \A i \in Ids \ {id} : jobs'[i] = jobs[i]
        BY <2>1, <2>3
      <3>4. j.payload = job.payload /\ (Durable(j) => Durable(job) /\ j.step = job.step)
        BY <2>4, <3>2
      <3> QED BY <1>2, <2>2, <3>1, <3>3, <3>4 DEF DeliveryOK, JobsTrue, Got
    <2> QED BY <2>2, <2>6, <2>8, <2>9, LedgerDelivery
  <1> QED BY <1>1, <1>2

LEMMA TakeDelivery ==
    ASSUME IInv, DeliveryOK, Take
    PROVE  DeliveryOK'
  <1> DEFINE message == Head(toReceiver)
  <1>1. toReceiver \in Seq(Asked) /\ toReceiver # <<>>
    BY DEF DeliveryOK, Take
  <1>2. message \in Asked /\ toReceiver' \in Seq(Asked)
    BY <1>1 DEF Take
  <1>3. UNCHANGED <<outward, stored, passed>>
    BY DEF Take, durable
  <1> HIDE DEF message
  <1>4. /\ message \in Inward /\ (message.kind = "submit" => Sent(message.task))
    BY <1>2 DEF Asked
  <1>5. CASE message.kind = "submit"
    <2> DEFINE task == message.task
               verdict == Verdict(ledger, task)
    <2>1. task \in Task /\ Sent(task) /\ TakeSubmit(task)
      BY <1>4, <1>5, InwardFacts DEF Take, message
    <2> HIDE DEF task
    <2>2. CASE verdict = "start"
      BY <2>1, <2>2, <1>2, <1>3, StartDelivery DEF TakeSubmit
    <2>3. CASE verdict = "busy"
      BY <2>1, <2>3, <1>2, <1>3, BusyDelivery DEF TakeSubmit
    <2>4. CASE verdict = "replay"
      <3>1. /\ ledger' = ledger /\ UNCHANGED jobs
            /\ Answer(<<Report(ledger'.entries[task.id].status)>>)
        BY <2>1, <2>4 DEF TakeSubmit, Admitted
      <3>2. Holds(ledger, task.id) /\ task.id \in Ids
        BY <2>1, <2>4 DEF Verdict, Task
      <3>3. Report(ledger.entries[task.id].status) \in Answers
        BY <3>2, ReportFacts DEF IInv, ReceiverOK, DeliveryOK, LedgerTrue
      <3>4. toSender' \in Seq(Answers)
        BY <3>1, <3>3, OneAnswer
      <3> QED BY <3>1, <3>4, <1>2, <1>3, QuietDelivery
    <2>5. CASE verdict \notin {"start", "busy", "replay"}
      <3>1. Answer(<<Refusal(task.id, verdict)>>) /\ UNCHANGED <<ledger, jobs>>
        BY <2>1, <2>5 DEF TakeSubmit, inward
      <3>2. verdict \in {"retired", "unknown_task", "task_id_conflict", "invalid_task_id"}
        BY <2>5 DEF Verdict
      <3>3. task.id \in Ids
        BY <2>1 DEF Task
      <3> HIDE DEF verdict
      <3>4. toSender' \in Seq(Answers)
        BY <3>1, <3>2, <3>3, RefusalFacts, OneAnswer
      <3> QED BY <3>1, <3>4, <1>2, <1>3, QuietDelivery
    <2> QED BY <2>2, <2>3, <2>4, <2>5
  <1>6. CASE message.kind = "get"
    <2>1. message.id \in Ids /\ TakeGet(message.id)
      BY <1>4, <1>6, InwardFacts DEF Take, message
    <2> QED BY <2>1, <1>2, <1>3, GetDelivery
  <1>7. CASE message.kind = "cancel"
    <2>1. message.id \in Ids /\ TakeCancel(message.id)
      BY <1>4, <1>7, InwardFacts DEF Take, message
    <2> QED BY <2>1, <1>2, <1>3, CancelDelivery
  <1> QED BY <1>4, <1>5, <1>6, <1>7, InwardFacts
-----------------------------------------------------------------------------
(***************************************************************************)
(* poll_task_jobs.                                                         *)
(***************************************************************************)

LEMMA PollDelivery ==
    ASSUME IInv, DeliveryOK, NEW id \in Ids, Poll(id)
    PROVE  DeliveryOK'
  <1> DEFINE job == jobs[id]
             next == Noted(id)
             held == IF Left(job) THEN staging ELSE Returned(job)
             after == Deferred(next, held)
             moved == IF MustRead(job) THEN Reading(job) ELSE None
             first == Report(next.entries[id].status)
  <1>1. /\ job # None /\ job.step \in Ended
        /\ jobs' = [jobs EXCEPT ![id] = moved]
        /\ ledger' = after.ledger
        /\ Answer(<<first>> \o after.told)
        /\ UNCHANGED <<outward, stored, passed, toReceiver>>
    BY DEF Poll, durable, Noted, Left
  <1>2. /\ ReceiverOK /\ job \in Jobs /\ Open(ledger, id)
        /\ ledger.entries[id].task.op = job.op
        /\ jobs \in [Ids -> Jobs \cup {None}] /\ staging \in Stagings
    BY <1>1, JobFacts DEF IInv, ReceiverOK, JobsOK
  <1>3. held \in Stagings
    BY <1>2 DEF Returned, Jobs
  <1>4. moved # None => moved.payload = job.payload /\ moved.step = "reading" /\ Left(job)
    BY <1>2, ReadingFacts DEF Left
  <1>5. /\ LedgerOK(next) /\ Follows(ledger, next, id) /\ Holds(next, id)
        /\ next.entries[id].task = ledger.entries[id].task
        /\ Left(job) => Open(next, id)
        /\ ~Left(job) => (next.entries[id].status.state = "succeeded" <=> Result(job) = "succeeded")
    BY <1>1, <1>2, NotedFacts
  <1>6. Durable(job) /\ Result(job) = "succeeded" => job.payload \in Got
    <2>1. Durable(job) /\ Result(job) = "succeeded" => job.step = "ok"
      BY DEF Result
    <2> QED BY <2>1, <1>1 DEF DeliveryOK, JobsTrue
  <1> HIDE DEF moved, next, held
  <1>7. EntryTrue(next.entries[id])
    <2>1. Sent(next.entries[id].task)
      BY <1>2, <1>5 DEF DeliveryOK, LedgerTrue, EntryTrue, Open
    <2>2. CASE Left(job)
      BY <2>1, <2>2, <1>5, OpenTrue
    <2>3. CASE ~Left(job)
      <3>1. ledger.entries[id].task.event = job.payload
        BY <1>1 DEF DeliveryOK, JobsTrue
      <3> QED BY <2>1, <2>3, <3>1, <1>2, <1>5, <1>6 DEF EntryTrue, Durable
    <2> QED BY <2>2, <2>3
  <1>8. \A i \in Ids : Holds(next, i) => EntryTrue(next.entries[i])
    BY <1>5, <1>7 DEF Follows, Holds, DeliveryOK, LedgerTrue
  <1>9. deferred # None =>
            /\ deferred.abort \in Ids \ {id} /\ Open(next, deferred.abort)
            /\ next.entries[deferred.abort].task.op = "transfer_abort"
    BY <1>1, <1>2, <1>5 DEF ReceiverOK, DeferredOK, Follows, Open, Holds
  <1>10. /\ LedgerOK(after.ledger)
         /\ \A i \in Ids : Open(after.ledger, i) =>
               Open(next, i) /\ after.ledger.entries[i] = next.entries[i]
         /\ \A i \in Ids : Open(next, i) /\ ~(deferred # None /\ i = deferred.abort) =>
               after.ledger.entries[i] = next.entries[i]
         /\ \A i \in Ids : Holds(after.ledger, i) =>
               /\ Holds(next, i) /\ after.ledger.entries[i].task = next.entries[i].task
               /\ \/ after.ledger.entries[i] = next.entries[i]
                  \/ after.ledger.entries[i].task.op = "transfer_abort"
         /\ \/ after.told = <<>>
            \/ /\ deferred # None /\ Holds(after.ledger, deferred.abort)
               /\ after.told = <<Report(after.ledger.entries[deferred.abort].status)>>
    BY <1>3, <1>5, <1>9, DeferredFacts
  <1> HIDE DEF after
  <1>11. \A i \in Ids : Holds(after.ledger, i) => EntryTrue(after.ledger.entries[i])
    BY <1>8, <1>10 DEF EntryTrue
  <1>12. first \in Answers
    BY <1>5, <1>7, ReportFacts
  <1>13. after.told = <<>> \/ \E m \in Answers : after.told = <<m>>
    BY <1>9, <1>10, <1>11, ReportFacts
  <1> HIDE DEF first
  <1>14. <<first>> \o after.told \in Seq(Answers) /\ Len(<<first>> \o after.told) <= 3
    <2>1. CASE after.told = <<>>
      BY <2>1, <1>12
    <2>2. CASE \E m \in Answers : after.told = <<m>>
      BY <2>2, <1>12
    <2> QED BY <2>1, <2>2, <1>13
  <1>15. toSender' \in Seq(Answers)
    BY <1>1, <1>14, AnswerKeeps, BrokenFacts DEF DeliveryOK
  <1>16. JobsTrue'
    <2>1. jobs'[id] = moved /\ \A i \in Ids \ {id} : jobs'[i] = jobs[i]
      BY <1>1, <1>2
    <2>2. \A i \in Ids : jobs'[i] # None => ledger'.entries[i].task = ledger.entries[i].task
      <3> SUFFICES ASSUME NEW i \in Ids, jobs'[i] # None
                   PROVE  after.ledger.entries[i].task = ledger.entries[i].task
        BY <1>1
      <3>1. jobs[i] # None
        BY <2>1, <1>1
      <3>2. Open(ledger, i) /\ ~(deferred # None /\ i = deferred.abort)
        BY <3>1, <1>2 DEF ReceiverOK, JobsOK, DeferredOK
      <3>3. Open(next, i) /\ next.entries[i].task = ledger.entries[i].task
        <4>1. CASE i = id
          BY <4>1, <2>1, <1>4, <1>5
        <4>2. CASE i # id
          BY <4>2, <3>2, <1>5 DEF Follows, Open, Holds
        <4> QED BY <4>1, <4>2
      <3> QED BY <3>2, <3>3, <1>10
    <2> QED BY <2>1, <2>2, <1>1, <1>4 DEF DeliveryOK, JobsTrue, Got
  <1>17. toReceiver' \in Seq(Asked)
    BY <1>1 DEF DeliveryOK
  <1> QED BY <1>1, <1>11, <1>15, <1>16, <1>17, LedgerDelivery
-----------------------------------------------------------------------------
(***************************************************************************)
(* Sessions, and the theorem.                                              *)
(***************************************************************************)

LEMMA SessionDelivery ==
    ASSUME IInv, DeliveryOK, Cut \/ CrashReceiver \/ CrashSender
    PROVE  DeliveryOK'
  <1>1. /\ toReceiver' = <<>> /\ toSender' = <<>> /\ ledger' = NewLedger
        /\ jobs' = [i \in Ids |-> None] /\ UNCHANGED <<outbox, stored, passed>>
    BY DEF Cut, CrashReceiver, CrashSender, EndSession, Drop, LeaveWorkers
  <1>2. LedgerTrue(ledger)' /\ JobsTrue'
    BY <1>1, FreshLedger DEF LedgerTrue, JobsTrue
  <1>3. ReceiptIsEarned'
    BY <1>1 DEF DeliveryOK, ReceiptIsEarned
  <1> QED BY <1>1, <1>2, <1>3 DEF DeliveryOK

LEMMA BetweenDelivery ==
    ASSUME IInv, DeliveryOK, NEW x,
           Drain(x) \/ DrainUncertain(x) \/ Connect \/ Settle(x) \/ UNCHANGED vars
    PROVE  DeliveryOK'
  <1>1. /\ UNCHANGED <<outward, inward, toReceiver, toSender>>
        /\ stored \subseteq stored' /\ passed \subseteq passed'
    BY DEF Drain, DrainUncertain, Connect, Settle, vars, durable
  <1>2. SenderOK /\ Advance /\ UNCHANGED <<ledger, jobs>>
    BY <1>1, SenderStays DEF IInv, inward
  <1>3. ReceiptIsEarned'
    BY <1>1 DEF DeliveryOK, ReceiptIsEarned, outward
  <1>4. toReceiver' \in Seq(Asked') /\ toSender' \in Seq(Answers)
    BY <1>1, <1>2, Grows, SeqGrows DEF DeliveryOK
  <1>5. JobsTrue'
    BY <1>1, <1>2, SameJobs
  <1> QED BY <1>1, <1>2, <1>3, <1>4, <1>5, Moves

LEMMA DeliveryInit == Init => DeliveryOK
  <1> SUFFICES ASSUME Init PROVE DeliveryOK
    OBVIOUS
  <1>1. LedgerTrue(ledger)
    BY FreshLedger DEF Init, LedgerTrue
  <1>2. JobsTrue
    BY DEF Init, JobsTrue
  <1>3. ReceiptIsEarned
    BY DEF Init, ReceiptIsEarned
  <1>4. toReceiver = <<>> /\ toSender = <<>>
    BY DEF Init
  <1> QED BY <1>1, <1>2, <1>3, <1>4 DEF DeliveryOK

LEMMA DeliveryNext == IInv /\ DeliveryOK /\ [Next]_vars => DeliveryOK'
  <1> SUFFICES ASSUME IInv, DeliveryOK, [Next]_vars PROVE DeliveryOK'
    OBVIOUS
  <1>1. CASE UNCHANGED vars
    BY <1>1, BetweenDelivery
  <1>2. ASSUME NEW e \in Events, Deliver(e) \/ PreparationFails(e) PROVE DeliveryOK'
    BY <1>2, SenderDelivery
  <1>3. ASSUME NEW e \in Events, Drain(e) \/ DrainUncertain(e) PROVE DeliveryOK'
    BY <1>3, BetweenDelivery
  <1>4. ASSUME NEW id \in Ids, Worker(id) PROVE DeliveryOK'
    BY <1>4, StagingDelivery, CommitDelivery, PollDelivery DEF Worker
  <1>5. ASSUME NEW id \in Ids, Failure(id) PROVE DeliveryOK'
    BY <1>5, StagingDelivery, CommitDelivery DEF Failure
  <1>6. ASSUME NEW id \in Ids, Repeat(id) PROVE DeliveryOK'
    BY <1>6, SenderDelivery
  <1>7. CASE Hear \/ CancelTask \/ TurnEarly \/ Retry
    BY <1>7, SenderDelivery
  <1>8. CASE Take
    BY <1>8, TakeDelivery
  <1>9. ASSUME NEW l \in limbo, Settle(l) PROVE DeliveryOK'
    BY <1>9, BetweenDelivery
  <1>10. CASE Cut \/ CrashReceiver \/ CrashSender
    BY <1>10, SessionDelivery
  <1>11. CASE Connect
    BY <1>11, BetweenDelivery
  <1> QED BY <1>1, <1>2, <1>3, <1>4, <1>5, <1>6, <1>7, <1>8, <1>9, <1>10, <1>11 DEF Next

(* No event is lost: the sender drops an event from its outbox only when    *)
(* the receiver's transaction has taken it in, with a receipt or by         *)
(* ignoring it.                                                             *)
THEOREM NoEventIsLost == Spec => []ReceiptIsEarned
  <1>1. DeliveryOK => ReceiptIsEarned
    BY DEF DeliveryOK
  <1> QED BY <1>1, DeliveryInit, DeliveryNext, Invariant, PTL DEF Spec
-----------------------------------------------------------------------------
(***************************************************************************)
(* Statuses.  Those that the ledger takes on for a task follow one another; *)
(* the ones under way, however merged, are among them.                      *)
(***************************************************************************)

Precedes(s, t) == s = t \/ (s.seq < t.seq /\ ~Terminal(s) /\ t.state # "queued")

(* The statuses under way to the sender, and the one it holds.              *)
Told == {toSender[k].status : k \in {j \in DOMAIN toSender : toSender[j].kind = "status"}}
        \cup ({sender.view} \ {None})

Chain(S) == \A s, t \in S : s.id = t.id => Precedes(s, t) \/ Precedes(t, s)

(* A status that was true of the ledger l once.                             *)
WasTrue(s, l) ==
    /\ s.id <= l.highwater
    /\ Holds(l, s.id) => Precedes(s, l.entries[s.id].status)

AgreeOK ==
    /\ toSender \in Seq(Outward \ {Broken})
    /\ sender.view # None => sender.view \in Status /\ sender.view.id = number
    /\ Chain(Told)
    /\ \A s \in Told : WasTrue(s, ledger)

Telling(S) == {m \in Outward \ {Broken} : m.kind = "status" => m.status \in S}

LEMMA OutwardFacts ==
    ASSUME NEW m \in Outward \ {Broken}
    PROVE  /\ m.kind \in {"status", "error"}
           /\ m.kind = "status" => m.status \in Status
  BY DEF Outward

LEMMA JoinTells ==
    ASSUME NEW S \in SUBSET Status, Chain(S), NEW q \in Seq(Telling(S)),
           NEW message \in Telling(S), NEW merge
    PROVE  Join(q, message, merge) \in Seq(Telling(S))
  <1> DEFINE same == {i \in DOMAIN q : SameTask(q[i], message)}
             i == CHOOSE j \in same : TRUE
             verdict == IF message.kind = "status"
                        THEN AcceptUpdate(q[i].status, message.status) ELSE "new"
             T == Telling(S)
  <1>1. CASE ~merge \/ same = {}
    BY <1>1 DEF Join
  <1>2. CASE ~(~merge \/ same = {})
    <2>1. i \in 1 .. Len(q) /\ SameTask(q[i], message)
      BY <1>2
    <2>2. Join(q, message, merge) = CASE verdict = "new" -> [q EXCEPT ![i] = message]
                                      [] verdict = "old" -> q
                                      [] OTHER -> Append(q, Broken)
      BY <1>2 DEF Join
    <2> HIDE DEF i
    <2>3. verdict \in {"new", "old"}
      <3>1. CASE message.kind = "status"
        <4> HIDE DEF T
        <4>0. q[i] \in T
          BY <2>1 DEF T
        <4>1. q[i] \in T /\ q[i].kind = "status" /\ q[i].status.id = message.status.id
          BY <2>1, <3>1, <4>0 DEF SameTask
        <4>2. q[i].status \in S /\ message.status \in S
          BY <4>1, <3>1 DEF T, Telling
        <4>3. Precedes(q[i].status, message.status) \/ Precedes(message.status, q[i].status)
          BY <4>1, <4>2 DEF Chain
        <4>4. q[i].status.seq \in Nat /\ message.status.seq \in Nat
          BY <4>2 DEF Status
        <4>5. AcceptUpdate(q[i].status, message.status) \in {"new", "old"}
          BY <4>3, <4>4 DEF Precedes, AcceptUpdate
        <4> QED BY <4>5, <3>1
      <3>2. CASE message.kind # "status"
        BY <3>2
      <3> QED BY <3>1, <3>2
    <2> HIDE DEF verdict, T
    <2>4. [q EXCEPT ![i] = message] \in Seq(T)
      BY <2>1, ExceptSeq DEF T
    <2> QED BY <2>2, <2>3, <2>4 DEF T
  <1> QED BY <1>1, <1>2

LEMMA AnswerTells ==
    ASSUME AgreeOK, UNCHANGED <<sender, number>>, NEW N \in SUBSET Status,
           Chain(Told \cup N), \A s \in Told \cup N : WasTrue(s, ledger'),
           NEW ms \in Seq(Telling(N)), Len(ms) <= 3, Answer(ms)
    PROVE  AgreeOK'
  <1> DEFINE S == Told \cup N
             T == Telling(S)
  <1>1. Told \in SUBSET Status
    <2>1. \A k \in DOMAIN toSender : toSender[k].kind = "status" => toSender[k].status \in Status
      BY OutwardFacts DEF AgreeOK
    <2> QED BY <2>1 DEF Told, AgreeOK
  <1>2. S \in SUBSET Status
    BY <1>1
  <1>3. toSender \in Seq(T)
    <2>1. \A k \in DOMAIN toSender : toSender[k] \in T
      BY DEF AgreeOK, Told, Telling
    <2> HIDE DEF T
    <2> QED BY <2>1, SeqDef DEF AgreeOK
  <1>4. ms \in Seq(T)
    <2>1. Telling(N) \subseteq T
      BY DEF Telling
    <2> HIDE DEF T
    <2> QED BY <2>1, SeqGrows
  <1> HIDE DEF S
  <1>5. \A merge \in Merges : Closed(T, merge)
    BY <1>2, JoinTells DEF S, Closed
  <1> HIDE DEF T
  <1>6. toSender' \in Seq(T)
    BY <1>3, <1>4, <1>5, JoinAllKeeps DEF Answer
  <1>7. toSender' \in Seq(Outward \ {Broken})
    BY <1>6, SeqGrows DEF T, Telling
  <1>8. Told' \subseteq S
    <2>1. \A k \in DOMAIN toSender' : toSender'[k].kind = "status" => toSender'[k].status \in S
      BY <1>6 DEF T, Telling
    <2>2. {sender'.view} \ {None} \subseteq S
      BY DEF S, Told
    <2> QED BY <2>1, <2>2 DEF Told
  <1>9. Chain(Told)'
    BY <1>8 DEF S, Chain, Precedes, Terminal
  <1>10. (\A s \in Told : WasTrue(s, ledger))'
    BY <1>8 DEF S, WasTrue, Holds, Precedes, Terminal
  <1> QED BY <1>7, <1>9, <1>10 DEF AgreeOK
-----------------------------------------------------------------------------

LEMMA PrecedesTrans ==
    ASSUME NEW s \in Status, NEW t \in Status, NEW u \in Status, Precedes(s, t), Precedes(t, u)
    PROVE  Precedes(s, u)
  <1>1. s.seq \in Nat /\ t.seq \in Nat /\ u.seq \in Nat
    BY DEF Status
  <1> QED BY <1>1 DEF Precedes

LEMMA UpdateLater ==
    ASSUME NEW l, LedgerOK(l), NEW id \in Ids, Open(l, id),
           NEW phase \in {"own", "cancellation_pending", "outcome_unknown"}
    PROVE  Precedes(l.entries[id].status, Update(l, id, phase).entries[id].status)
  <1> DEFINE t == l.entries[id].status
             s == [t EXCEPT !.seq = @ + 1, !.state = "running", !.phase = phase]
  <1>1. t \in Status /\ t.id = id /\ ~Terminal(t)
    BY EntryFacts DEF LedgerOK, Open, Filed
  <1>2. s \in Status /\ s.id = id
    BY <1>1, RunningStatus
  <1>3. t.seq \in Nat /\ s.seq = t.seq + 1 /\ s.state = "running"
    BY <1>1 DEF Status
  <1>4. Update(l, id, phase) = Put(l, s)
    BY DEF Update, Open
  <1> HIDE DEF s, t
  <1>5. Put(l, s).entries[id].status = s
    BY <1>2, PutFacts
  <1>6. Precedes(t, s)
    BY <1>1, <1>3 DEF Precedes
  <1> QED BY <1>4, <1>5, <1>6 DEF t

LEMMA UnknownLater ==
    ASSUME NEW l, LedgerOK(l), NEW id \in Ids, Open(l, id)
    PROVE  Precedes(l.entries[id].status, Unknown(l, id).entries[id].status)
  <1> DEFINE t == l.entries[id].status
             u == Update(l, id, "outcome_unknown")
             v == u.entries[id].status
             s == [v EXCEPT !.code = "outcome_unknown"]
  <1>1. LedgerOK(u) /\ Open(u, id)
    BY UpdateFacts
  <1>2. Precedes(t, v)
    BY UpdateLater
  <1>3. Unknown(l, id) = Put(l, s)
    BY DEF Unknown, Open
  <1>4. t \in Status /\ ~Terminal(t)
    BY EntryFacts DEF LedgerOK, Open
  <1> HIDE DEF u
  <1>5. v \in Status /\ v.id = id /\ ~Terminal(v)
    BY <1>1, EntryFacts DEF LedgerOK, Open, Filed
  <1> HIDE DEF v
  <1>6. s \in Status /\ s.id = id /\ s.seq = v.seq /\ s.state = v.state
    BY <1>5 DEF Status, Codes
  <1>7. t.seq < s.seq /\ s.state # "queued"
    <2>1. v.state = "running" /\ v.seq = t.seq + 1
      <3> DEFINE w == [t EXCEPT !.seq = @ + 1, !.state = "running", !.phase = "outcome_unknown"]
      <3>1. u = Put(l, w)
        BY DEF u, Update, Open
      <3>2. w \in Status /\ w.id = id /\ w.seq = t.seq + 1 /\ w.state = "running"
        <4>1. t.id = id
          BY DEF LedgerOK, Filed, Open
        <4> HIDE DEF t
        <4>2. w \in Status /\ w.id = t.id
          BY <1>4, RunningStatus
        <4> QED BY <1>4, <4>1, <4>2 DEF Status
      <3> HIDE DEF w
      <3>3. Put(l, w).entries[id].status = w
        BY <3>2, PutFacts
      <3> QED BY <3>1, <3>2, <3>3 DEF v
    <2>2. t.seq \in Nat
      BY <1>4 DEF Status
    <2> QED BY <2>1, <2>2, <1>6
  <1> HIDE DEF s, t
  <1>8. Put(l, s).entries[id].status = s
    BY <1>6, PutFacts
  <1>9. Precedes(t, s)
    BY <1>4, <1>7 DEF Precedes
  <1> QED BY <1>3, <1>8, <1>9 DEF t

LEMMA FinishLater ==
    ASSUME NEW l, LedgerOK(l), NEW id \in Ids, Open(l, id),
           NEW result \in {"succeeded", "cancelled"} \cup Codes
    PROVE  Precedes(l.entries[id].status, Finish(l, id, result).entries[id].status)
  <1> DEFINE t == l.entries[id].status
             s == Outcome(t, result)
             p == Put(l, s)
             m == Retire(p, id)
  <1>1. t \in Status /\ t.id = id /\ ~Terminal(t)
    BY EntryFacts DEF LedgerOK, Open, Filed
  <1>2. s \in Status /\ s.id = id /\ Terminal(s)
    BY <1>1, OutcomeStatus
  <1>3. s.seq = t.seq + 1 /\ t.seq \in Nat
    BY <1>1 DEF Status, Outcome
  <1>4. Finish(l, id, result) = m
    BY DEF Finish, Open
  <1>5. Holds(m, id)
    BY <1>4, FinishFacts
  <1> HIDE DEF s, t
  <1>6. LedgerOK(p) /\ Holds(p, id) /\ p.entries[id].status = s
    BY <1>2, PutFacts
  <1> HIDE DEF p
  <1>7. \/ m.entries[id] = p.entries[id]
        \/ m.entries[id] = None
    BY <1>2, <1>6, RetireFacts
  <1> HIDE DEF m
  <1>8. m.entries[id].status = s
    BY <1>5, <1>6, <1>7 DEF Holds
  <1>9. Precedes(t, s)
    BY <1>1, <1>2, <1>3 DEF Precedes, Terminal
  <1> QED BY <1>4, <1>8, <1>9 DEF t

(* Whatever the ledger l still holds in m, its status came later.           *)
Continues(l, m) ==
    /\ l.highwater <= m.highwater
    /\ \A i \in Ids : i <= l.highwater /\ Holds(m, i) =>
          Holds(l, i) /\ Precedes(l.entries[i].status, m.entries[i].status)

LEMMA StillTrue ==
    ASSUME NEW l, LedgerOK(l), NEW m, LedgerOK(m), Continues(l, m), NEW s \in Status, WasTrue(s, l)
    PROVE  WasTrue(s, m)
  <1>1. s.id \in Ids /\ s.id \in Nat /\ l.highwater \in Nat /\ m.highwater \in Nat
    BY MaxTasksAssumption DEF Status, Ids, LedgerOK, Ledgers
  <1>2. s.id <= l.highwater /\ s.id <= m.highwater
    BY <1>1 DEF WasTrue, Continues
  <1>3. ASSUME Holds(m, s.id) PROVE Precedes(s, m.entries[s.id].status)
    <2>1. Holds(l, s.id) /\ Precedes(l.entries[s.id].status, m.entries[s.id].status)
      BY <1>1, <1>2, <1>3 DEF Continues
    <2>2. l.entries[s.id].status \in Status /\ m.entries[s.id].status \in Status
      BY <1>1, <1>3, <2>1, EntryFacts DEF LedgerOK
    <2> QED BY <2>1, <2>2, PrecedesTrans DEF WasTrue
  <1> QED BY <1>2, <1>3 DEF WasTrue

LEMMA FollowsContinues ==
    ASSUME NEW l, LedgerOK(l), NEW m, NEW id \in Ids, Follows(l, m, id), Holds(l, id),
           Precedes(l.entries[id].status, m.entries[id].status)
    PROVE  Continues(l, m)
  <1>1. l.highwater \in Nat
    BY MaxTasksAssumption DEF LedgerOK, Ledgers
  <1> QED BY <1>1 DEF Follows, Continues, Holds, Precedes

LEMMA ContinuesTrans ==
    ASSUME NEW l, LedgerOK(l), NEW m, LedgerOK(m), NEW n, LedgerOK(n),
           Continues(l, m), Continues(m, n)
    PROVE  Continues(l, n)
  <1>1. l.highwater \in Nat /\ m.highwater \in Nat /\ n.highwater \in Nat /\ Ids \subseteq Nat
    BY MaxTasksAssumption DEF Ids, LedgerOK, Ledgers
  <1>2. ASSUME NEW i \in Ids, i <= l.highwater, Holds(n, i)
        PROVE  Holds(l, i) /\ Precedes(l.entries[i].status, n.entries[i].status)
    <2>1. i <= m.highwater
      BY <1>1, <1>2 DEF Continues
    <2>2. Holds(m, i) /\ Precedes(m.entries[i].status, n.entries[i].status)
      BY <1>2, <2>1 DEF Continues
    <2>3. Holds(l, i) /\ Precedes(l.entries[i].status, m.entries[i].status)
      BY <1>2, <2>2 DEF Continues
    <2>4. /\ l.entries[i].status \in Status /\ m.entries[i].status \in Status
          /\ n.entries[i].status \in Status
      BY <1>2, <2>2, <2>3, EntryFacts DEF LedgerOK
    <2> QED BY <2>2, <2>3, <2>4, PrecedesTrans
  <1> QED BY <1>1, <1>2 DEF Continues

(* What an answer tells of tasks the ledger holds, or has just taken in.    *)
News(N) ==
    /\ N \in SUBSET Status
    /\ Chain(N)
    /\ \A t \in N :
          /\ WasTrue(t, ledger')
          /\ \/ t.id > ledger.highwater
             \/ Holds(ledger, t.id) /\ Precedes(ledger.entries[t.id].status, t)

LEMMA ToldFacts ==
    ASSUME AgreeOK
    PROVE  Told \in SUBSET Status
  <1>1. \A k \in DOMAIN toSender : toSender[k].kind = "status" => toSender[k].status \in Status
    BY OutwardFacts DEF AgreeOK
  <1> QED BY <1>1 DEF Told, AgreeOK

(* It fits with what is on its way.                                         *)
LEMMA NewsChain ==
    ASSUME LedgerOK(ledger), AgreeOK, NEW N, News(N)
    PROVE  Chain(Told \cup N)
  <1>1. Told \in SUBSET Status /\ N \in SUBSET Status
    BY ToldFacts DEF News
  <1>2. ASSUME NEW s \in Told, NEW t \in N, s.id = t.id PROVE Precedes(s, t)
    <2>1. WasTrue(s, ledger) /\ s.id \in Ids /\ ledger.highwater \in Nat /\ Ids \subseteq Nat
      BY <1>1, MaxTasksAssumption DEF AgreeOK, Status, LedgerOK, Ledgers, Ids
    <2>2. ~(t.id > ledger.highwater)
      <3>1. s.id <= ledger.highwater /\ s.id \in Nat
        BY <2>1 DEF WasTrue
      <3> QED BY <1>2, <2>1, <3>1
    <2>3. Holds(ledger, s.id) /\ Precedes(ledger.entries[s.id].status, t)
      BY <2>2, <1>2 DEF News
    <2>4. Precedes(s, ledger.entries[s.id].status)
      BY <2>1, <2>3 DEF WasTrue
    <2>5. ledger.entries[s.id].status \in Status
      BY <2>1, <2>3, EntryFacts DEF LedgerOK
    <2> QED BY <1>1, <2>3, <2>4, <2>5, PrecedesTrans
  <1> SUFFICES ASSUME NEW s \in Told \cup N, NEW t \in Told \cup N, s.id = t.id
               PROVE  Precedes(s, t) \/ Precedes(t, s)
    BY DEF Chain
  <1>3. CASE s \in Told /\ t \in Told
    BY <1>3 DEF AgreeOK, Chain
  <1>4. CASE s \in N /\ t \in N
    BY <1>4 DEF News, Chain
  <1> QED BY <1>2, <1>3, <1>4

LEMMA NewsAgree ==
    ASSUME LedgerOK(ledger), LedgerOK(ledger'), AgreeOK, UNCHANGED <<sender, number>>,
           Continues(ledger, ledger'), NEW N, News(N),
           NEW ms \in Seq(Telling(N)), Len(ms) <= 3, Answer(ms)
    PROVE  AgreeOK'
  <1>1. Told \in SUBSET Status /\ N \in SUBSET Status
    BY ToldFacts DEF News
  <1>2. \A s \in Told : WasTrue(s, ledger')
    BY <1>1, StillTrue DEF AgreeOK
  <1>3. \A s \in Told \cup N : WasTrue(s, ledger')
    BY <1>2 DEF News
  <1> QED BY <1>1, <1>3, NewsChain, AnswerTells

(* A ledger that stays as it is tells what it holds.                        *)
LEMMA SameLedger ==
    ASSUME LedgerOK(ledger)
    PROVE  Continues(ledger, ledger)
  <1>1. ledger.highwater \in Nat
    BY MaxTasksAssumption DEF LedgerOK, Ledgers
  <1> QED BY <1>1 DEF Continues, Precedes

LEMMA ReportTells ==
    ASSUME NEW s \in Status, NEW N, s \in N
    PROVE  Report(s) \in Telling(N)
  <1>1. Report(s) \in Outward /\ Report(s) # Broken /\ Report(s).kind = "status"
        /\ Report(s).status = s
    BY DEF Report, Outward, Broken
  <1> QED BY <1>1 DEF Telling

LEMMA RefusalTells ==
    ASSUME NEW id \in Ids, NEW N,
           NEW code \in {"retired", "unknown_task", "task_id_conflict", "invalid_task_id"}
    PROVE  Refusal(id, code) \in Telling(N)
  <1>1. Refusal(id, code) \in Outward /\ Refusal(id, code) # Broken
        /\ Refusal(id, code).kind = "error"
    BY DEF Refusal, Outward, Broken
  <1> QED BY <1>1 DEF Telling

(* One status, of a task the ledger holds.                                  *)
LEMMA OneIsNews ==
    ASSUME LedgerOK(ledger), LedgerOK(ledger'), Continues(ledger, ledger'),
           NEW id \in Ids, Holds(ledger', id)
    PROVE  LET s == ledger'.entries[id].status
           IN News({s}) /\ <<Report(s)>> \in Seq(Telling({s}))
  <1> DEFINE s == ledger'.entries[id].status
             N == {s}
  <1>1. s \in Status /\ s.id = id
    BY EntryFacts DEF LedgerOK, Filed
  <1>2. /\ id <= ledger'.highwater
        /\ id \in Nat /\ ledger.highwater \in Nat
    BY MaxTasksAssumption DEF LedgerOK, Filed, Ledgers, Ids
  <1>3. WasTrue(s, ledger')
    BY <1>1, <1>2 DEF WasTrue, Precedes
  <1>4. \/ id > ledger.highwater
        \/ Holds(ledger, id) /\ Precedes(ledger.entries[id].status, s)
    BY <1>2 DEF Continues
  <1> HIDE DEF s
  <1>5. News(N)
    BY <1>1, <1>3, <1>4 DEF News, Chain, Precedes
  <1>6. <<Report(s)>> \in Seq(Telling(N))
    BY <1>1, ReportTells
  <1> QED BY <1>5, <1>6 DEF s

LEMMA OneNews ==
    ASSUME LedgerOK(ledger), LedgerOK(ledger'), AgreeOK, UNCHANGED <<sender, number>>,
           Continues(ledger, ledger'), NEW id \in Ids, Holds(ledger', id),
           Answer(<<Report(ledger'.entries[id].status)>>)
    PROVE  AgreeOK'
  <1> DEFINE s == ledger'.entries[id].status
             N == {s}
             ms == <<Report(s)>>
  <1>1. News(N) /\ ms \in Seq(Telling(N)) /\ Len(ms) <= 3 /\ Answer(ms)
    BY OneIsNews
  <1> HIDE DEF N, ms
  <1> QED BY <1>1, NewsAgree

(* No news.                                                                 *)
LEMMA NoNews ==
    ASSUME LedgerOK(ledger), AgreeOK, UNCHANGED <<sender, number, ledger>>,
           NEW id \in Ids,
           NEW code \in {"retired", "unknown_task", "task_id_conflict", "invalid_task_id"},
           Answer(<<Refusal(id, code)>>)
    PROVE  AgreeOK'
  <1>1. News({})
    BY DEF News, Chain
  <1>2. <<Refusal(id, code)>> \in Seq(Telling({})) /\ Len(<<Refusal(id, code)>>) <= 3
    BY RefusalTells
  <1> QED BY <1>1, <1>2, SameLedger, NewsAgree

LEMMA GetAgrees ==
    ASSUME LedgerOK(ledger), AgreeOK, UNCHANGED <<sender, number>>, NEW id \in Ids, TakeGet(id)
    PROVE  AgreeOK'
  <1>1. ledger' = ledger
    BY DEF TakeGet, inward
  <1>2. CASE Holds(ledger, id)
    <2>1. Answer(<<Report(ledger'.entries[id].status)>>)
      BY <1>1, <1>2 DEF TakeGet
    <2> QED BY <1>1, <1>2, <2>1, SameLedger, OneNews
  <1>3. CASE ~Holds(ledger, id) /\ id <= ledger.highwater
    <2>1. Answer(<<Refusal(id, "retired")>>)
      BY <1>3 DEF TakeGet
    <2> QED BY <1>1, <2>1, NoNews
  <1>4. CASE ~Holds(ledger, id) /\ ~(id <= ledger.highwater)
    <2>1. Answer(<<Refusal(id, "unknown_task")>>)
      BY <1>4 DEF TakeGet
    <2> QED BY <1>1, <2>1, NoNews
  <1> QED BY <1>2, <1>3, <1>4

LEMMA CancelAgrees ==
    ASSUME ReceiverOK, AgreeOK, UNCHANGED <<sender, number>>, NEW id \in Ids, TakeCancel(id)
    PROVE  AgreeOK'
  <1>1. LedgerOK(ledger)
    BY DEF ReceiverOK
  <1>2. CASE jobs[id] = None
    BY <1>1, <1>2, GetAgrees DEF TakeCancel
  <1>3. CASE jobs[id] # None
    <2> DEFINE m == CancelNoted(ledger, id)
    <2>1. Open(ledger, id)
      BY <1>3, JobFacts
    <2>2. ledger' = m /\ Answer(<<Report(ledger'.entries[id].status)>>)
      BY <1>3 DEF TakeCancel
    <2>3. /\ LedgerOK(m) /\ Follows(ledger, m, id) /\ Open(m, id)
          /\ Precedes(ledger.entries[id].status, m.entries[id].status)
      BY <1>1, <2>1, UpdateFacts, UpdateLater DEF CancelNoted
    <2> HIDE DEF m
    <2>4. Continues(ledger, m)
      BY <1>1, <2>1, <2>3, FollowsContinues DEF Open
    <2> QED BY <1>1, <2>2, <2>3, <2>4, OneNews DEF Open
  <1> QED BY <1>2, <1>3

LEMMA StartAgrees ==
    ASSUME ReceiverOK, AgreeOK, UNCHANGED <<sender, number>>, NEW task \in Task,
           Verdict(ledger, task) = "start", StartTask(task)
    PROVE  AgreeOK'
  <1> DEFINE id == task.id
             queued == Admitted(ledger, task)
             running == Update(queued, id, "own")
             pending == Update(running, id, "cancellation_pending")
             told(l) == Report(l.entries[id].status)
  <1>1. LedgerOK(ledger) /\ ledger \in Ledgers
    BY DEF ReceiverOK, LedgerOK
  <1>2. /\ id \in Ids /\ id = ledger.highwater + 1 /\ id > ledger.highwater
        /\ id \in Nat /\ ledger.highwater \in Nat
    BY <1>1, VerdictFacts, MaxTasksAssumption DEF Ledgers
  <1>3. queued = Enter(ledger, task)
    BY DEF Admitted
  <1>4. \/ ledger' = pending /\ Answer(<<told(queued), told(running), told(pending)>>)
        \/ ledger' = running /\ Answer(<<told(queued), told(running)>>)
    BY DEF StartTask
  <1>5. /\ LedgerOK(queued) /\ Open(queued, id) /\ queued.highwater = id
        /\ \A j \in Ids \ {id} : queued.entries[j] = ledger.entries[j]
    BY <1>1, <1>2, <1>3, EnterFacts
  <1> HIDE DEF queued
  <1>6. /\ LedgerOK(running) /\ Open(running, id) /\ Follows(queued, running, id)
        /\ Precedes(queued.entries[id].status, running.entries[id].status)
    BY <1>2, <1>5, UpdateFacts, UpdateLater
  <1> HIDE DEF running
  <1>7. /\ LedgerOK(pending) /\ Open(pending, id) /\ Follows(running, pending, id)
        /\ Precedes(running.entries[id].status, pending.entries[id].status)
    BY <1>2, <1>6, UpdateFacts, UpdateLater
  <1> HIDE DEF pending
  <1> DEFINE q == queued.entries[id].status
             r == running.entries[id].status
             p == pending.entries[id].status
  <1>8. /\ q \in Status /\ q.id = id
        /\ r \in Status /\ r.id = id
        /\ p \in Status /\ p.id = id
    BY <1>2, <1>5, <1>6, <1>7, EntryFacts DEF LedgerOK, Open, Filed
  <1>9. Precedes(q, p)
    BY <1>6, <1>7, <1>8, PrecedesTrans
  <1>10. Continues(ledger, queued)
    <2>1. ledger.highwater <= queued.highwater
      BY <1>2, <1>5
    <2>2. \A i \in Ids : i <= ledger.highwater => i # id
      BY <1>2
    <2> QED BY <2>1, <2>2, <1>5 DEF Continues, Holds, Precedes
  <1>11. Continues(ledger, running)
    <2>1. Continues(queued, running)
      BY <1>2, <1>5, <1>6, FollowsContinues DEF Open
    <2> QED BY <2>1, <1>1, <1>5, <1>6, <1>10, ContinuesTrans
  <1>12. Continues(ledger, pending)
    <2>1. Continues(running, pending)
      BY <1>2, <1>6, <1>7, FollowsContinues DEF Open
    <2> QED BY <2>1, <1>1, <1>6, <1>7, <1>11, ContinuesTrans
  <1>13. running.highwater = id /\ pending.highwater = id
    BY <1>5, <1>6, <1>7 DEF Follows
  <1>14. /\ told(queued) = Report(q) /\ told(running) = Report(r) /\ told(pending) = Report(p)
         /\ Precedes(q, r) /\ Precedes(r, p)
         /\ r = running.entries[id].status /\ p = pending.entries[id].status
    BY <1>6, <1>7
  <1> HIDE DEF q, r, p, told, id
  <1>15. CASE ledger' = pending /\ Answer(<<told(queued), told(running), told(pending)>>)
    <2> DEFINE N == {q, r, p}
               ms == <<Report(q), Report(r), Report(p)>>
    <2>1. \A t \in N : WasTrue(t, pending)
      <3>1. \A t \in N : t.id = id /\ Precedes(t, p)
        BY <1>8, <1>9, <1>14 DEF Precedes
      <3>2. id <= pending.highwater
        BY <1>2, <1>13
      <3> HIDE DEF N
      <3> QED BY <3>1, <3>2, <1>14 DEF WasTrue
    <2>2. Chain(N)
      BY <1>9, <1>14 DEF Chain, Precedes
    <2>3. News(N)
      BY <2>1, <2>2, <1>2, <1>8, <1>15 DEF News
    <2>4. ms \in Seq(Telling(N)) /\ Len(ms) <= 3
      <3>1. Report(q) \in Telling(N) /\ Report(r) \in Telling(N) /\ Report(p) \in Telling(N)
        BY <1>8, ReportTells
      <3> HIDE DEF N
      <3> QED BY <3>1
    <2>5. Answer(ms)
      BY <1>14, <1>15
    <2> HIDE DEF N, ms
    <2> QED BY <1>1, <1>7, <1>12, <1>15, <2>3, <2>4, <2>5, NewsAgree
  <1>16. CASE ledger' = running /\ Answer(<<told(queued), told(running)>>)
    <2> DEFINE N == {q, r}
               ms == <<Report(q), Report(r)>>
    <2>1. \A t \in N : WasTrue(t, running)
      BY <1>2, <1>8, <1>13, <1>14 DEF WasTrue, Precedes
    <2>2. Chain(N)
      BY <1>14 DEF Chain, Precedes
    <2>3. News(N)
      BY <2>1, <2>2, <1>2, <1>8, <1>16 DEF News
    <2>4. ms \in Seq(Telling(N)) /\ Len(ms) <= 3
      <3>1. Report(q) \in Telling(N) /\ Report(r) \in Telling(N)
        BY <1>8, ReportTells
      <3> HIDE DEF N
      <3> QED BY <3>1
    <2>5. Answer(ms)
      BY <1>14, <1>16
    <2> HIDE DEF N, ms
    <2> QED BY <1>1, <1>6, <1>11, <1>16, <2>3, <2>4, <2>5, NewsAgree
  <1> QED BY <1>4, <1>15, <1>16

LEMMA TakeAgrees ==
    ASSUME SenderOK, ReceiverOK, AgreeOK, Take
    PROVE  AgreeOK'
  <1> DEFINE message == Head(toReceiver)
  <1>1. LedgerOK(ledger) /\ ledger \in Ledgers /\ OneLive(ledger)
    BY DEF ReceiverOK, LedgerOK
  <1>2. message \in Inward /\ UNCHANGED <<sender, number>>
    BY DEF SenderOK, Take, outward
  <1> HIDE DEF message
  <1>3. CASE message.kind = "submit"
    <2> DEFINE task == message.task
               verdict == Verdict(ledger, task)
    <2>1. task \in Task /\ TakeSubmit(task) /\ task.id \in Ids
      BY <1>2, <1>3, InwardFacts DEF Take, message, Task
    <2> HIDE DEF task
    <2>2. CASE verdict = "start"
      BY <2>1, <2>2, <1>2, StartAgrees DEF TakeSubmit
    <2>3. CASE verdict = "busy"
      <3> DEFINE m == EnterBusy(ledger, task)
      <3>1. task.id = ledger.highwater + 1 /\ ledger.highwater \in Nat /\ Ids \subseteq Nat
        BY <1>1, <2>1, <2>3, VerdictFacts, MaxTasksAssumption DEF Ledgers, Ids
      <3>2. ledger' = m /\ Answer(<<Report(ledger'.entries[task.id].status)>>)
        BY <2>1, <2>3 DEF TakeSubmit, Admitted
      <3>3. /\ LedgerOK(m) /\ m.highwater = task.id /\ Holds(m, task.id)
            /\ \A j \in Ids \ {task.id} :
                  \/ m.entries[j] = ledger.entries[j]
                  \/ m.entries[j] = None
        BY <1>1, <2>1, <3>1, EnterBusyFacts
      <3> HIDE DEF m
      <3>4. Continues(ledger, m)
        <4>1. \A i \in Ids : i <= ledger.highwater => i # task.id
          BY <2>1, <3>1
        <4>2. \A i \in Ids : i <= ledger.highwater /\ Holds(m, i) => m.entries[i] = ledger.entries[i]
          BY <4>1, <3>3 DEF Holds
        <4>3. ledger.highwater <= m.highwater
          BY <3>1, <3>3
        <4> QED BY <4>2, <4>3 DEF Continues, Holds, Precedes
      <3> QED BY <1>1, <1>2, <2>1, <3>2, <3>3, <3>4, OneNews
    <2>4. CASE verdict = "replay"
      <3>1. ledger' = ledger /\ Answer(<<Report(ledger'.entries[task.id].status)>>)
        BY <2>1, <2>4 DEF TakeSubmit, Admitted
      <3>2. Holds(ledger, task.id)
        BY <2>4 DEF Verdict
      <3> QED BY <1>1, <1>2, <2>1, <3>1, <3>2, SameLedger, OneNews
    <2>5. CASE verdict \notin {"start", "busy", "replay"}
      <3>1. Answer(<<Refusal(task.id, verdict)>>) /\ UNCHANGED ledger
        BY <2>1, <2>5 DEF TakeSubmit, inward
      <3>2. verdict \in {"retired", "unknown_task", "task_id_conflict", "invalid_task_id"}
        BY <2>5 DEF Verdict
      <3> HIDE DEF verdict
      <3> QED BY <1>1, <1>2, <2>1, <3>1, <3>2, NoNews
    <2> QED BY <2>2, <2>3, <2>4, <2>5
  <1>4. CASE message.kind = "get"
    <2>1. message.id \in Ids /\ TakeGet(message.id)
      BY <1>2, <1>4, InwardFacts DEF Take, message
    <2> QED BY <2>1, <1>1, <1>2, GetAgrees
  <1>5. CASE message.kind = "cancel"
    <2>1. message.id \in Ids /\ TakeCancel(message.id)
      BY <1>2, <1>5, InwardFacts DEF Take, message
    <2> QED BY <2>1, <1>2, CancelAgrees
  <1> QED BY <1>2, <1>3, <1>4, <1>5, InwardFacts

LEMMA NotedLater ==
    ASSUME ReceiverOK, NEW id \in Ids, jobs[id] # None
    PROVE  Precedes(ledger.entries[id].status, Noted(id).entries[id].status)
  <1> DEFINE result == Result(jobs[id])
  <1>1. Open(ledger, id) /\ LedgerOK(ledger)
    BY JobFacts DEF ReceiverOK
  <1>2. result \in {"succeeded", "cancelled"} \cup Codes
    BY DEF Result, Codes
  <1> HIDE DEF result
  <1>3. CASE Left(jobs[id])
    BY <1>1, <1>3, UnknownLater DEF Noted
  <1>4. CASE ~Left(jobs[id])
    <2>1. Noted(id) = Finish(ledger, id, result)
      BY <1>4 DEF Noted, result
    <2> QED BY <1>1, <1>2, <2>1, FinishLater
  <1> QED BY <1>3, <1>4

LEMMA DeferredLater ==
    ASSUME NEW l, LedgerOK(l), NEW held,
           deferred # None => deferred.abort \in Ids /\ Open(l, deferred.abort)
    PROVE  LET d == Deferred(l, held)
           IN /\ Continues(l, d.ledger)
              /\ \/ d.told = <<>>
                 \/ /\ deferred # None /\ Holds(d.ledger, deferred.abort)
                    /\ d.told = <<Report(d.ledger.entries[deferred.abort].status)>>
                    /\ Precedes(l.entries[deferred.abort].status,
                                d.ledger.entries[deferred.abort].status)
  <1> DEFINE d == Deferred(l, held)
             waits == deferred = None \/ ~(Holds(l, deferred.task) /\ Terminal(l.entries[deferred.task].status))
             other == held # None /\ held.event # deferred.event
             result == IF other THEN "operation_failed" ELSE "succeeded"
             f == Finish(l, deferred.abort, result)
  <1>1. CASE waits
    <2>1. d.ledger = l /\ d.told = <<>>
      BY <1>1 DEF Deferred
    <2>2. l.highwater \in Nat
      BY MaxTasksAssumption DEF LedgerOK, Ledgers
    <2> HIDE DEF d
    <2>3. Continues(l, d.ledger)
      BY <2>1, <2>2 DEF Continues, Precedes
    <2> QED BY <2>1, <2>3 DEF d
  <1>2. CASE ~waits
    <2>1. d.ledger = f /\ d.told = <<Report(f.entries[deferred.abort].status)>>
      BY <1>2 DEF Deferred
    <2>2. result \in {"succeeded", "cancelled"} \cup Codes
      BY DEF Codes
    <2>3. deferred # None
      BY <1>2
    <2> HIDE DEF result, d
    <2>4. /\ LedgerOK(f) /\ Follows(l, f, deferred.abort) /\ Holds(f, deferred.abort)
          /\ Precedes(l.entries[deferred.abort].status, f.entries[deferred.abort].status)
      BY <2>2, <2>3, FinishFacts, FinishLater
    <2> HIDE DEF f
    <2>5. Continues(l, f)
      BY <2>3, <2>4, FollowsContinues DEF Open
    <2> QED BY <2>1, <2>3, <2>4, <2>5 DEF d
  <1> QED BY <1>1, <1>2

(* What a poll tells.                                                       *)
PollTold(id) ==
    <<Report(Noted(id).entries[id].status)>>
    \o Deferred(Noted(id), IF Left(jobs[id]) THEN staging ELSE Returned(jobs[id])).told

LEMMA PollNews ==
    ASSUME SenderOK, ReceiverOK, AgreeOK, NEW id \in Ids, Poll(id)
    PROVE  /\ LedgerOK(ledger') /\ Continues(ledger, ledger') /\ UNCHANGED <<sender, number>>
           /\ Answer(PollTold(id)) /\ Len(PollTold(id)) <= 3
           /\ \E N : News(N) /\ PollTold(id) \in Seq(Telling(N))
  <1> DEFINE job == jobs[id]
             next == Noted(id)
             held == IF Left(job) THEN staging ELSE Returned(job)
             after == Deferred(next, held)
             first == next.entries[id].status
             abort == deferred.abort
             second == after.ledger.entries[abort].status
             ms == <<Report(first)>> \o after.told
  <1>0. ms = PollTold(id)
    BY DEF PollTold
  <1>1. /\ job # None /\ ledger' = after.ledger
        /\ Answer(<<Report(first)>> \o after.told)
        /\ UNCHANGED <<sender, number>>
    BY DEF Poll, outward, Noted, Left
  <1>2. /\ job \in Jobs /\ Open(ledger, id) /\ staging \in Stagings /\ LedgerOK(ledger)
    BY <1>1, JobFacts DEF ReceiverOK, JobsOK
  <1>3. held \in Stagings
    BY <1>2 DEF Returned, Jobs
  <1>4. /\ LedgerOK(next) /\ Follows(ledger, next, id) /\ Holds(next, id)
        /\ Precedes(ledger.entries[id].status, first)
        /\ next.entries[id].task = ledger.entries[id].task
    BY <1>1, NotedFacts, NotedLater
  <1>5. deferred # None =>
            /\ abort \in Ids \ {id} /\ Open(next, abort) /\ Open(ledger, abort)
            /\ next.entries[abort] = ledger.entries[abort]
            /\ next.entries[abort].task.op = "transfer_abort"
    <2> HIDE DEF next
    <2> QED BY <1>1, <1>4 DEF ReceiverOK, DeferredOK, Follows, Open, Holds
  <1> HIDE DEF next, held, job
  <1>6. LedgerOK(after.ledger) /\ after.ledger.highwater = next.highwater
    BY <1>3, <1>4, <1>5, DeferredFacts
  <1>7. /\ Continues(next, after.ledger)
        /\ \/ after.told = <<>>
           \/ /\ deferred # None /\ Holds(after.ledger, abort)
              /\ after.told = <<Report(second)>>
              /\ Precedes(next.entries[abort].status, second)
    BY <1>4, <1>5, DeferredLater
  <1> HIDE DEF after
  <1>8. Continues(ledger, after.ledger)
    <2>1. Continues(ledger, next)
      BY <1>2, <1>4, FollowsContinues DEF Open
    <2> QED BY <2>1, <1>2, <1>4, <1>6, <1>7, ContinuesTrans
  <1>9. first \in Status /\ first.id = id /\ id <= next.highwater
    BY <1>4, EntryFacts DEF LedgerOK, Filed
  <1>10. id <= after.ledger.highwater /\ id \in Nat /\ next.highwater \in Nat
    BY <1>4, <1>6, <1>9, MaxTasksAssumption DEF LedgerOK, Ledgers, Ids
  <1>11. WasTrue(first, after.ledger)
    BY <1>7, <1>9, <1>10 DEF WasTrue, Continues
  <1>12. Holds(ledger, id) /\ Precedes(ledger.entries[first.id].status, first)
    BY <1>2, <1>4, <1>9 DEF Open
  <1> HIDE DEF first
  <1>13. Report(first).kind = "status"
    BY DEF Report
  <1>14. LedgerOK(ledger') /\ Continues(ledger, ledger') /\ Answer(ms)
    BY <1>1, <1>6, <1>8
  <1>15. SUFFICES Len(ms) <= 3 /\ \E N : News(N) /\ ms \in Seq(Telling(N))
    <2> HIDE DEF ms
    <2> QED BY <1>0, <1>1, <1>14
  <1>16. CASE after.told = <<>>
    <2> DEFINE N == {first}
    <2>1. News(N)
      BY <1>1, <1>9, <1>11, <1>12 DEF News, Chain, Precedes
    <2>2. Report(first) \in Telling(N)
      BY <1>9, ReportTells
    <2> HIDE DEF N
    <2>3. ms \in Seq(Telling(N)) /\ Len(ms) <= 3
      BY <1>16, <2>2
    <2> QED BY <2>1, <2>3
  <1>17. CASE /\ deferred # None /\ Holds(after.ledger, abort)
              /\ after.told = <<Report(second)>>
              /\ Precedes(next.entries[abort].status, second)
    <2> DEFINE N == {first, second}
    <2>1. second \in Status /\ second.id = abort /\ abort <= after.ledger.highwater
      BY <1>5, <1>6, <1>17, EntryFacts DEF LedgerOK, Filed
    <2>2. WasTrue(second, after.ledger)
      BY <2>1 DEF WasTrue, Precedes
    <2>3. Holds(ledger, abort) /\ Precedes(ledger.entries[second.id].status, second)
      BY <1>5, <1>17, <2>1 DEF Open
    <2> HIDE DEF second
    <2>4. Chain(N)
      BY <1>5, <1>9, <1>17, <2>1 DEF Chain, Precedes
    <2>5. News(N)
      BY <1>1, <1>9, <1>11, <1>12, <2>1, <2>2, <2>3, <2>4 DEF News
    <2>6. Report(first) \in Telling(N) /\ Report(second) \in Telling(N)
      BY <1>9, <2>1, ReportTells
    <2> HIDE DEF N
    <2>7. ms \in Seq(Telling(N)) /\ Len(ms) <= 3
      <3>1. after.told = <<Report(second)>>
        BY <1>17 DEF second
      <3> QED BY <2>6, <3>1
    <2> QED BY <2>5, <2>7
  <1> QED BY <1>7, <1>16, <1>17

LEMMA PollAgrees ==
    ASSUME SenderOK, ReceiverOK, AgreeOK, NEW id \in Ids, Poll(id)
    PROVE  AgreeOK'
  <1>1. LedgerOK(ledger)
    BY DEF ReceiverOK
  <1> QED BY <1>1, PollNews, NewsAgree
-----------------------------------------------------------------------------

(* The sender hears a status, forgets it, or goes on to its next task.      *)
LEMMA ToldLess ==
    ASSUME AgreeOK, UNCHANGED ledger, Told' \subseteq Told,
           toSender' \in Seq(Outward \ {Broken}),
           sender'.view # None => sender'.view \in Status /\ sender'.view.id = number'
    PROVE  AgreeOK'
  <1>1. Chain(Told)'
    BY DEF AgreeOK, Chain, Precedes, Terminal
  <1>2. (\A s \in Told : WasTrue(s, ledger))'
    BY DEF AgreeOK, WasTrue, Holds, Precedes, Terminal
  <1> QED BY <1>1, <1>2 DEF AgreeOK

LEMMA ViewStays ==
    ASSUME AgreeOK, UNCHANGED <<ledger, toSender>>,
           UNCHANGED <<sender, number>> \/ sender'.view = None
    PROVE  AgreeOK'
  BY ToldLess DEF AgreeOK, Told

LEMMA HearAgrees ==
    ASSUME SenderOK, AgreeOK, Hear
    PROVE  AgreeOK'
  <1> DEFINE message == Head(toSender)
  <1>1. /\ toSender \in Seq(Outward \ {Broken}) /\ toSender # <<>> /\ toSender' = Tail(toSender)
        /\ UNCHANGED ledger
    BY DEF AgreeOK, Hear, inward
  <1>2. /\ toSender' \in Seq(Outward \ {Broken})
        /\ \A k \in DOMAIN toSender' : k + 1 \in DOMAIN toSender /\ toSender'[k] = toSender[k + 1]
        /\ 1 \in DOMAIN toSender /\ message = toSender[1]
        /\ message \in Outward \ {Broken}
    BY <1>1
  <1> HIDE DEF message
  <1>3. ASSUME UNCHANGED <<sender, number>> \/ sender'.view = None PROVE AgreeOK'
    <2>1. Told' \subseteq Told
      BY <1>2, <1>3 DEF Told
    <2> QED BY <1>1, <1>2, <1>3, <2>1, ToldLess DEF AgreeOK
  <1>4. CASE \E status \in Status : /\ message.kind = "status" /\ message.status = status
                                    /\ status.id = number /\ number' = number
                                    /\ sender' = [sender EXCEPT !.view = status]
    <2>1. PICK status \in Status : /\ message.kind = "status" /\ message.status = status
                                   /\ status.id = number /\ number' = number
                                   /\ sender' = [sender EXCEPT !.view = status]
      BY <1>4
    <2>2. sender'.view = status
      BY <2>1 DEF SenderOK
    <2>3. status \in Told
      BY <1>2, <2>1 DEF Told
    <2>4. Told' \subseteq Told
      BY <1>2, <2>2, <2>3 DEF Told
    <2> QED BY <1>1, <1>2, <2>1, <2>2, <2>4, ToldLess
  <1>5. ASSUME NEW stage, NEW event, NEW early, Send(stage, event, early) PROVE sender'.view = None
    BY <1>5 DEF Send
  <1>6. Rest.view = None
    BY DEF Rest
  <1>7. CASE message.kind = "error" /\ HearError(message.id)
    BY <1>3, <1>5, <1>6, <1>7 DEF HearError, Resume, GiveUp, outward
  <1>8. CASE message.kind = "status" /\ HearStatus(message.status)
    <2> DEFINE status == message.status
               verdict == IF sender.view = None THEN "new" ELSE AcceptUpdate(sender.view, status)
    <2>1. status \in Status
      BY <1>2, <1>8, OutwardFacts
    <2>2. CASE ~Awaits(status.id)
      BY <2>2, <1>3, <1>8 DEF HearStatus, outward
    <2>3. CASE Awaits(status.id)
      <3>1. status.id = number
        BY <2>3 DEF Awaits
      <3>2. verdict \in {"old", "new", "conflict"}
        BY DEF AcceptUpdate
      <3>3. CASE verdict = "old"
        BY <3>3, <2>3, <1>3, <1>8 DEF HearStatus, outward
      <3>4. CASE verdict = "new" /\ ~Terminal(status)
        <4>1. sender' = [sender EXCEPT !.view = status] /\ number' = number
          BY <3>4, <2>3, <1>8 DEF HearStatus
        <4> QED BY <4>1, <3>1, <2>1, <1>4, <1>8
      <3>5. CASE verdict = "new" /\ Terminal(status) /\ sender.stage = "abort"
        <4>1. sender' = Rest
          BY <3>5, <2>3, <1>8 DEF HearStatus, Resume
        <4> QED BY <4>1, <1>3, <1>6
      <3>6. CASE verdict = "new" /\ Terminal(status) /\ sender.stage # "abort"
        <4>1. IF status.state = "succeeded" THEN Proceed ELSE GiveUp
          BY <3>6, <2>3, <1>8 DEF HearStatus
        <4>2. sender.stage \in {"begin", "upload", "commit"}
          BY <2>3, <3>6 DEF SenderOK, Awaits, Stages
        <4>3. Proceed => sender'.view = None
          BY <4>2, <1>5, <1>6 DEF Proceed
        <4>4. GiveUp => sender'.view = None
          BY <1>5 DEF GiveUp
        <4> QED BY <4>1, <4>3, <4>4, <1>3
      <3>7. CASE verdict = "conflict"
        <4>1. sender.view # None /\ AcceptUpdate(sender.view, status) = "conflict"
          BY <3>7
        <4> QED BY <4>1, <2>3, <1>8 DEF Hear, Conflicting, message
      <3> QED BY <3>2, <3>3, <3>4, <3>5, <3>6, <3>7
    <2> QED BY <2>2, <2>3
  <1> QED BY <1>7, <1>8 DEF Hear, message

LEMMA AgreeInit == Init => AgreeOK
  <1> SUFFICES ASSUME Init PROVE AgreeOK
    OBVIOUS
  <1>1. toSender = <<>> /\ sender.view = None
    BY DEF Init, Rest
  <1>2. Told = {}
    BY <1>1 DEF Told
  <1> QED BY <1>1, <1>2 DEF AgreeOK, Chain

LEMMA AgreeNext == IInv /\ AgreeOK /\ [Next]_vars => AgreeOK'
  <1> SUFFICES ASSUME IInv, AgreeOK, [Next]_vars PROVE AgreeOK'
    OBVIOUS
  <1>1. SenderOK /\ ReceiverOK
    BY DEF IInv
  <1>2. CASE UNCHANGED vars
    BY <1>2, ViewStays DEF vars, outward, inward
  <1>3. ASSUME NEW e \in Events, Deliver(e) \/ PreparationFails(e) PROVE AgreeOK'
    BY <1>3, ViewStays DEF Deliver, PreparationFails, Send, inward
  <1>4. ASSUME NEW e \in Events, Drain(e) \/ DrainUncertain(e) PROVE AgreeOK'
    BY <1>4, ViewStays DEF Drain, DrainUncertain, inward, outward
  <1>5. ASSUME NEW id \in Ids, Worker(id) PROVE AgreeOK'
    <2>1. CASE Poll(id)
      BY <2>1, <1>1, PollAgrees
    <2>2. CASE ~Poll(id)
      BY <2>2, <1>5, ViewStays
      DEF Worker, Begin, Upload, Abort, CommitRefused, Apply, Answered, Read, WorkerLeaves, outward
    <2> QED BY <2>1, <2>2
  <1>6. ASSUME NEW id \in Ids, Failure(id) PROVE AgreeOK'
    BY <1>6, ViewStays
    DEF Failure, UploadFails, Reject, ApplyFails, CommitUncertain, Dies, ReadFails, WorkerLeaves, outward
  <1>7. ASSUME NEW id \in Ids, Repeat(id) PROVE AgreeOK'
    BY <1>7, ViewStays DEF Repeat, inward, outward
  <1>8. CASE Hear
    BY <1>1, <1>8, HearAgrees
  <1>9. CASE CancelTask \/ TurnEarly \/ Retry
    BY <1>9, ViewStays DEF CancelTask, TurnEarly, Retry, Send, inward, outward
  <1>10. CASE Take
    BY <1>1, <1>10, TakeAgrees
  <1>11. ASSUME NEW l \in limbo, Settle(l) PROVE AgreeOK'
    BY <1>11, ViewStays DEF Settle, inward, outward
  <1>12. CASE Cut \/ CrashReceiver \/ CrashSender
    <2>1. toSender' = <<>> /\ sender'.view = None
      BY <1>12 DEF Cut, CrashReceiver, CrashSender, EndSession, Drop, Rest
    <2>2. Told' = {}
      BY <2>1 DEF Told
    <2> QED BY <2>1, <2>2 DEF AgreeOK, Chain
  <1>13. CASE Connect
    BY <1>13, ViewStays DEF Connect, inward, outward
  <1> QED BY <1>2, <1>3, <1>4, <1>5, <1>6, <1>7, <1>8, <1>9, <1>10, <1>11, <1>12, <1>13 DEF Next

(* Statuses that repeat, overtake or merge with others never contradict one *)
(* another: no queue of answers breaks, and the sender is never told a      *)
(* status that the one it holds rules out.                                  *)
THEOREM StatusesNeverDisagree == Spec => []StatusesAgree
  <1>1. AgreeOK => StatusesAgree
    <2> SUFFICES ASSUME AgreeOK PROVE StatusesAgree
      OBVIOUS
    <2>1. \A i \in DOMAIN toSender : toSender[i] \in Outward \ {Broken}
      BY DEF AgreeOK
    <2>2. ASSUME toSender # <<>> PROVE ~Conflicting(Head(toSender))
      <3> DEFINE message == Head(toSender)
      <3>1. 1 \in DOMAIN toSender /\ message = toSender[1] /\ message \in Outward \ {Broken}
        BY <2>2 DEF AgreeOK
      <3>2. message.kind # "broken"
        BY <3>1, OutwardFacts
      <3>3. ASSUME message.kind = "status", Awaits(message.status.id), sender.view # None
            PROVE  AcceptUpdate(sender.view, message.status) # "conflict"
        <4> DEFINE s == sender.view
                   t == message.status
        <4>1. s \in Told /\ t \in Told /\ s.id = t.id
          BY <3>1, <3>3 DEF Told, AgreeOK, Awaits
        <4>2. s \in Status /\ t \in Status
          BY <4>1, ToldFacts
        <4>3. s.seq \in Nat /\ t.seq \in Nat
          BY <4>2 DEF Status
        <4>4. Precedes(s, t) \/ Precedes(t, s)
          BY <4>1 DEF AgreeOK, Chain
        <4> HIDE DEF s, t
        <4>5. AcceptUpdate(s, t) # "conflict"
          BY <4>3, <4>4 DEF Precedes, AcceptUpdate
        <4> QED BY <4>5 DEF s, t
      <3> QED BY <3>2, <3>3 DEF Conflicting
    <2> QED BY <2>1, <2>2 DEF StatusesAgree
  <1> QED BY <1>1, AgreeInit, AgreeNext, Invariant, PTL DEF Spec
-----------------------------------------------------------------------------
(***************************************************************************)
(* The end of a transfer.                                                  *)
(***************************************************************************)

Clean == staging = None /\ deferred = None /\ \A i \in Ids : jobs[i] = None

Subject(m) == IF m.kind = "submit" THEN m.task.id ELSE m.id

(* A task the receiver has not seen yet.                                    *)
Fresh(m) == m.kind = "submit" /\ m.task.id > ledger.highwater

(* The tasks that were not seen yet are all there, in their order, before   *)
(* whatever else is about them; they are of the transfer in progress.       *)
QueueOK ==
    /\ ledger.highwater <= number
    /\ \A j \in ledger.highwater + 1 .. number :
          \E k \in DOMAIN toReceiver : toReceiver[k].kind = "submit" /\ toReceiver[k].task.id = j
    /\ \A k \in DOMAIN toReceiver :
          LET m == toReceiver[k]
          IN /\ Subject(m) <= number
             /\ m.kind = "submit" /\ Holds(ledger, m.task.id) =>
                   ledger.entries[m.task.id].task = m.task
             /\ Fresh(m) => /\ \A l \in 1 .. k - 1 : Subject(toReceiver[l]) < m.task.id
                            /\ m.task.event = sender.event
                            /\ m.task.op = "transfer_abort"
                                  <=> m.task.id = number /\ sender.stage = "abort"

Belongs(held) == held # None => held.event = sender.event

(* An abort has the transfer for itself.                                    *)
Alone(i) ==
    /\ i = number /\ sender.stage = "abort" /\ deferred = None
    /\ \A j \in Ids \ {i} : jobs[j] = None
    /\ jobs[i].step \notin {"applied", "reading"}
    /\ jobs[i].step = "ok" => jobs[i].held = None

(* What the receiver is at is about the transfer in progress.               *)
WorkOK ==
    /\ sender.stage = "idle" => number = ledger.highwater /\ Clean
    /\ Belongs(staging)
    /\ \A i \in Ids : jobs[i] # None =>
          /\ jobs[i].payload = sender.event /\ Belongs(jobs[i].held)
          /\ jobs[i].op = "transfer_abort" => Alone(i)
    /\ deferred # None =>
          /\ deferred.abort = number /\ sender.stage = "abort" /\ deferred.event = sender.event
          /\ deferred.task \in ActiveTransfer(ledger)
    /\ \A i \in Ids : Open(ledger, i) =>
          /\ staging = None
          /\ ledger.entries[i].task.op = "transfer_abort" =>
                jobs[i] # None \/ (deferred # None /\ deferred.abort = i)

(* Where the ledger has its end, nothing is left.                           *)
EndOK ==
    /\ sender.stage = "abort" /\ number <= ledger.highwater /\ ~Open(ledger, number) => Clean
    /\ sender.stage = "commit" /\ Holds(ledger, number)
       /\ ledger.entries[number].status.state = "succeeded" => Clean

(* An answer on which the sender goes on to its next event.                 *)
Over(m) ==
    \/ m.kind = "error" /\ m.id = number /\ sender.stage = "abort"
    \/ /\ m.kind = "status" /\ m.status.id = number
       /\ \/ sender.stage = "abort" /\ Terminal(m.status)
          \/ sender.stage = "commit" /\ m.status.state = "succeeded"

Timely ==
    {m \in Outward :
        /\ m.kind = "status" => m.status.id <= ledger.highwater
        /\ m.kind = "error" => m.id <= ledger.highwater
        /\ Over(m) => Clean}

TurnOK == QueueOK /\ WorkOK /\ EndOK /\ toSender \in Seq(Timely)
-----------------------------------------------------------------------------

LEMMA Numbers ==
    ASSUME IInv
    PROVE  /\ number \in Nat /\ ledger.highwater \in Nat /\ Ids \subseteq Nat
           /\ ledger \in Ledgers /\ LedgerOK(ledger)
           /\ toReceiver \in Seq(Inward)
           /\ \A i \in Ids : Holds(ledger, i) => i <= ledger.highwater
  BY MaxTasksAssumption DEF IInv, SenderOK, ReceiverOK, LedgerOK, Ledgers, Filed, Ids

LEMMA SubjectFacts ==
    ASSUME NEW m \in Inward
    PROVE  Subject(m) \in Ids /\ (m.kind = "submit" => Subject(m) = m.task.id)
  BY DEF Inward, Subject, Task

LEMMA OutwardKinds ==
    ASSUME NEW m \in Outward
    PROVE  /\ m.kind \in {"status", "error", "broken"}
           /\ m.kind = "status" => m.status \in Status /\ m.status.id \in Ids
           /\ m.kind = "error" => m.id \in Ids
  BY DEF Outward, Status, Broken

(* The sender's next task is of the same transfer, or of a new one.         *)
LEMMA SendTurn ==
    ASSUME IInv, TurnOK, NEW stage \in {"begin", "upload", "commit", "abort"},
           NEW event \in Events, NEW early, Send(stage, event, early),
           UNCHANGED inward, toSender' \in Seq(Timely),
           sender.stage = "idle" \/ (sender.stage # "abort" /\ event = sender.event)
    PROVE  TurnOK'
  <1> DEFINE q == toReceiver
             h == ledger.highwater
             task == [id |-> number + 1, op |-> Op(stage), event |-> event]
  <1>1. /\ number \in Nat /\ h \in Nat /\ Ids \subseteq Nat /\ q \in Seq(Inward)
        /\ \A i \in Ids : Holds(ledger, i) => i <= h
    BY Numbers
  <1>2. /\ number + 1 \in Ids /\ number' = number + 1
        /\ sender' = [stage |-> stage, event |-> event, view |-> None, early |-> early]
        /\ toReceiver' = Append(q, Submit(task))
    BY DEF Send
  <1>3. sender'.stage = stage /\ sender'.event = event
    BY <1>2
  <1>4. /\ task.id = number + 1 /\ task.event = event
        /\ task.op = "transfer_abort" <=> stage = "abort"
    BY DEF Op
  <1>5. task \in Task
    BY <1>2 DEF Task, Op, Operations
  <1> HIDE DEF task
  <1>6. Submit(task) \in Inward /\ Submit(task).kind = "submit" /\ Submit(task).task = task
    BY <1>5 DEF Submit, Inward
  <1>7. /\ toReceiver' \in Seq(Inward) /\ Len(toReceiver') = Len(q) + 1 /\ Len(q) \in Nat
        /\ DOMAIN toReceiver' = 1 .. Len(q) + 1 /\ DOMAIN q = 1 .. Len(q)
        /\ \A k \in 1 .. Len(q) : toReceiver'[k] = q[k] /\ q[k] \in Inward
        /\ toReceiver'[Len(q) + 1] = Submit(task)
    <2> DEFINE s == Submit(task)
    <2>1. s \in Inward /\ toReceiver' = Append(q, s)
      BY <1>2, <1>6
    <2> HIDE DEF s
    <2>2. toReceiver' \in Seq(Inward)
      BY <1>1, <2>1
    <2>3. /\ Len(toReceiver') = Len(q) + 1 /\ Len(q) \in Nat
          /\ toReceiver'[Len(q) + 1] = s
          /\ \A k \in 1 .. Len(q) : toReceiver'[k] = q[k] /\ q[k] \in Inward
      BY <1>1, <2>1
    <2>4. DOMAIN toReceiver' = 1 .. Len(q) + 1 /\ DOMAIN q = 1 .. Len(q)
      BY <1>1, <2>2, <2>3
    <2> QED BY <2>2, <2>3, <2>4 DEF s
  <1>8. /\ h <= number /\ UNCHANGED <<ledger, staging, jobs, deferred>>
        /\ \A k \in 1 .. Len(q) : Subject(q[k]) <= number
    BY <1>7 DEF TurnOK, QueueOK, inward
  <1>9. QueueOK'
    <2>1. h <= number + 1
      BY <1>1, <1>8
    <2>2. ASSUME NEW j \in h + 1 .. number + 1
          PROVE  \E k \in DOMAIN toReceiver' :
                    toReceiver'[k].kind = "submit" /\ toReceiver'[k].task.id = j
      <3>1. CASE j = number + 1
        BY <3>1, <1>4, <1>6, <1>7
      <3>2. CASE j # number + 1
        <4>1. j \in h + 1 .. number
          BY <3>2, <1>1
        <4>2. PICK k \in DOMAIN q : q[k].kind = "submit" /\ q[k].task.id = j
          BY <4>1 DEF TurnOK, QueueOK
        <4>3. k \in DOMAIN toReceiver' /\ toReceiver'[k] = q[k]
          BY <1>7
        <4> QED BY <4>2, <4>3
      <3> QED BY <3>1, <3>2
    <2>3. ASSUME NEW k \in 1 .. Len(q)
          PROVE  LET m == q[k]
                 IN /\ Subject(m) <= number + 1
                    /\ m.kind = "submit" /\ Holds(ledger, m.task.id) =>
                          ledger.entries[m.task.id].task = m.task
                    /\ Fresh(m) => /\ \A l \in 1 .. k - 1 : Subject(q[l]) < m.task.id
                                   /\ m.task.event = event
                                   /\ m.task.op = "transfer_abort"
                                         <=> m.task.id = number + 1 /\ stage = "abort"
      <3> DEFINE m == q[k]
      <3>1. m \in Inward /\ k \in DOMAIN q
        BY <1>7
      <3> HIDE DEF m
      <3>2. /\ Subject(m) <= number /\ Subject(m) \in Nat
            /\ m.kind = "submit" => Subject(m) = m.task.id
        BY <3>1, <1>1, <1>8, SubjectFacts DEF m
      <3>3. m.kind = "submit" /\ Holds(ledger, m.task.id) => ledger.entries[m.task.id].task = m.task
        BY <3>1 DEF TurnOK, QueueOK, m
      <3>4. ASSUME Fresh(m)
            PROVE  /\ \A l \in 1 .. k - 1 : Subject(q[l]) < m.task.id
                   /\ m.task.event = sender.event
                   /\ m.task.op = "transfer_abort" <=> m.task.id = number /\ sender.stage = "abort"
                   /\ sender.stage # "idle"
        <4>1. sender.stage # "idle"
          BY <1>1, <3>2, <3>4 DEF TurnOK, WorkOK, Fresh
        <4> QED BY <3>1, <3>4, <4>1 DEF TurnOK, QueueOK, m
      <3>5. m.kind = "submit" => m.task.id # number + 1
        BY <3>2, <1>1
      <3>6. Fresh(m) => m.kind = "submit"
        BY DEF Fresh
      <3>7. Subject(m) <= number + 1
        BY <3>2, <1>1
      <3> QED BY <3>3, <3>4, <3>5, <3>6, <3>7 DEF m
    <2>4. /\ Subject(Submit(task)) = number + 1
          /\ ~Holds(ledger, task.id)
      BY <1>1, <1>2, <1>4, <1>6, <1>8 DEF Subject
    <2>5. \A l \in 1 .. Len(q) : Subject(q[l]) < task.id
      <3>1. \A l \in 1 .. Len(q) : Subject(q[l]) \in Nat
        BY <1>1, <1>7, SubjectFacts
      <3> QED BY <3>1, <1>1, <1>4, <1>8
    <2>6. ASSUME NEW k \in 1 .. Len(q) + 1
          PROVE  LET m == toReceiver'[k]
                 IN /\ Subject(m) <= number + 1
                    /\ m.kind = "submit" /\ Holds(ledger, m.task.id) =>
                          ledger.entries[m.task.id].task = m.task
                    /\ Fresh(m) => /\ \A l \in 1 .. k - 1 : Subject(toReceiver'[l]) < m.task.id
                                   /\ m.task.event = event
                                   /\ m.task.op = "transfer_abort"
                                         <=> m.task.id = number + 1 /\ stage = "abort"
      <3>1. CASE k \in 1 .. Len(q)
        <4>1. \A l \in 1 .. k - 1 : toReceiver'[l] = q[l]
          BY <1>7, <3>1
        <4> QED BY <4>1, <3>1, <2>3, <1>7
      <3>2. CASE k = Len(q) + 1
        <4>1. \A l \in 1 .. k - 1 : toReceiver'[l] = q[l] /\ l \in 1 .. Len(q)
          BY <1>7, <3>2
        <4>2. toReceiver'[k] = Submit(task)
          BY <1>7, <3>2
        <4>3. number + 1 <= number + 1
          BY <1>1
        <4> QED BY <4>1, <4>2, <4>3, <2>4, <2>5, <1>4, <1>6
      <3> QED BY <3>1, <3>2, <1>7
    <2>7. /\ ledger'.highwater <= number'
          /\ \A j \in ledger'.highwater + 1 .. number' :
                \E k \in DOMAIN toReceiver' :
                   toReceiver'[k].kind = "submit" /\ toReceiver'[k].task.id = j
      BY <1>2, <1>8, <2>1, <2>2
    <2>8. ASSUME NEW k \in DOMAIN toReceiver'
          PROVE  LET m == toReceiver'[k]
                 IN /\ Subject(m) <= number'
                    /\ m.kind = "submit" /\ Holds(ledger', m.task.id) =>
                          ledger'.entries[m.task.id].task = m.task
                    /\ m.kind = "submit" /\ m.task.id > ledger'.highwater =>
                          /\ \A l \in 1 .. k - 1 : Subject(toReceiver'[l]) < m.task.id
                          /\ m.task.event = sender'.event
                          /\ m.task.op = "transfer_abort"
                                <=> m.task.id = number' /\ sender'.stage = "abort"
      BY <1>2, <1>3, <1>7, <1>8, <2>6 DEF Fresh, Holds
    <2> QED BY <2>7, <2>8 DEF QueueOK, Fresh, Subject, Holds
  <1>10. WorkOK'
    <2>1. CASE sender.stage = "idle"
      <3>1. Clean
        BY <2>1 DEF TurnOK, WorkOK
      <3>2. \A i \in Ids : Open(ledger, i) => ledger.entries[i].task.op # "transfer_abort"
        BY <3>1 DEF TurnOK, WorkOK, Clean
      <3> QED BY <1>3, <1>8, <3>1, <3>2 DEF WorkOK, Clean, Belongs, Open, Holds, Terminal
    <2>2. CASE sender.stage # "abort" /\ event = sender.event
      <3>1. deferred = None /\ \A i \in Ids : jobs[i] # None => jobs[i].op # "transfer_abort"
        BY <2>2 DEF TurnOK, WorkOK, Alone
      <3> QED BY <1>3, <1>8, <2>2, <3>1
          DEF TurnOK, WorkOK, Belongs, Open, Holds, Terminal
    <2> QED BY <2>1, <2>2
  <1>11. EndOK'
    <2>1. ~(number' <= h) /\ ~Holds(ledger, number')
      BY <1>1, <1>2, <1>8
    <2> QED BY <2>1, <1>8 DEF EndOK, Holds
  <1>12. Timely \subseteq Timely'
    <2> SUFFICES ASSUME NEW m \in Timely PROVE m \in Timely'
      OBVIOUS
    <2>1. m \in Outward /\ (m.kind = "status" => m.status.id <= h) /\ (m.kind = "error" => m.id <= h)
      BY DEF Timely
    <2>2. ~Over(m)'
      BY <1>1, <1>2, <1>8, <2>1, OutwardKinds DEF Over
    <2> QED BY <1>8, <2>1, <2>2 DEF Timely, Outward
  <1>13. toSender' \in Seq(Timely')
    BY <1>12, SeqGrows
  <1> QED BY <1>9, <1>10, <1>11, <1>13 DEF TurnOK

(* The transfer is over: nothing of it is left on either side.              *)
LEMMA RestTurn ==
    ASSUME IInv, TurnOK, sender' = Rest, UNCHANGED <<number, toReceiver, inward>>,
           toSender' \in Seq(Timely), number <= ledger.highwater, Clean
    PROVE  TurnOK'
  <1> DEFINE q == toReceiver
             h == ledger.highwater
  <1>1. /\ number \in Nat /\ h \in Nat /\ Ids \subseteq Nat /\ q \in Seq(Inward)
    BY Numbers
  <1>2. sender'.stage = "idle" /\ UNCHANGED <<ledger, staging, jobs, deferred>>
    BY DEF Rest, inward
  <1>3. number = h
    BY <1>1 DEF TurnOK, QueueOK
  <1>4. QueueOK'
    <2>1. \A k \in DOMAIN q : ~Fresh(q[k])
      <3> SUFFICES ASSUME NEW k \in DOMAIN q, Fresh(q[k]) PROVE FALSE
        OBVIOUS
      <3>1. q[k] \in Inward
        BY <1>1
      <3>2. Subject(q[k]) = q[k].task.id /\ Subject(q[k]) \in Nat /\ Subject(q[k]) <= number
        BY <1>1, <3>1, SubjectFacts DEF Fresh, TurnOK, QueueOK
      <3> QED BY <1>1, <1>3, <3>2 DEF Fresh
    <2> QED BY <1>2, <2>1 DEF TurnOK, QueueOK, Fresh, Subject, Holds
  <1>5. \A i \in Ids : Open(ledger, i) => ledger.entries[i].task.op # "transfer_abort"
    BY DEF TurnOK, WorkOK, Clean
  <1>6. WorkOK'
    BY <1>2, <1>3, <1>5 DEF WorkOK, Clean, Belongs, Open, Holds, Terminal
  <1>7. EndOK'
    BY <1>2 DEF EndOK
  <1>8. Timely \subseteq Timely'
    <2> SUFFICES ASSUME NEW m \in Timely PROVE m \in Timely'
      OBVIOUS
    <2>1. ~Over(m)'
      BY <1>2 DEF Over
    <2> QED BY <1>2, <2>1 DEF Timely, Outward
  <1>9. toSender' \in Seq(Timely')
    BY <1>8, SeqGrows
  <1> QED BY <1>4, <1>6, <1>7, <1>9 DEF TurnOK

(* The sender stays where it is, and the receiver too.                      *)
LEMMA StayTurn ==
    ASSUME TurnOK, sender'.stage = sender.stage, sender'.event = sender.event,
           UNCHANGED <<number, toReceiver, ledger, staging, jobs, deferred>>,
           toSender' \in Seq(Timely)
    PROVE  TurnOK'
  <1>1. QueueOK'
    BY DEF TurnOK, QueueOK, Fresh, Subject, Holds
  <1>2. WorkOK'
    BY DEF TurnOK, WorkOK, Clean, Belongs, Alone, Open, Holds, Terminal, ActiveTransfer, Live
  <1>3. EndOK'
    BY DEF TurnOK, EndOK, Clean, Open, Holds, Terminal
  <1>4. Timely' = Timely
    BY DEF Timely, Over, Clean, Terminal, Outward
  <1> QED BY <1>1, <1>2, <1>3, <1>4 DEF TurnOK

LEMMA HearTurn ==
    ASSUME IInv, TurnOK, Hear
    PROVE  TurnOK'
  <1> DEFINE message == Head(toSender)
  <1>1. SenderOK /\ number \in Nat /\ ledger.highwater \in Nat /\ Ids \subseteq Nat
    BY Numbers DEF IInv
  <1>2. /\ message \in Timely /\ toSender' \in Seq(Timely) /\ UNCHANGED inward
        /\ UNCHANGED <<ledger, staging, jobs, deferred>>
    BY DEF TurnOK, Hear, inward
  <1>3. CASE UNCHANGED <<outward, toReceiver>>
    BY <1>2, <1>3, StayTurn DEF outward
  <1>4. CASE Over(message) /\ sender' = Rest /\ UNCHANGED <<number, toReceiver>>
    <2>1. Clean /\ number <= ledger.highwater
      BY <1>2, <1>4 DEF Timely, Over
    <2> QED BY <1>2, <1>4, <2>1, RestTurn
  <1>5. CASE sender.stage \notin {"idle", "abort"} /\ GiveUp
    BY <1>1, <1>2, <1>5, SendTurn DEF GiveUp, SenderOK
  <1> HIDE DEF message
  <1>6. CASE message.kind = "error" /\ HearError(message.id)
    <2>1. CASE ~Awaits(message.id)
      BY <2>1, <1>3, <1>6 DEF HearError
    <2>2. CASE Awaits(message.id) /\ sender.stage = "abort"
      BY <2>2, <1>4, <1>6 DEF HearError, Resume, Over, Awaits
    <2>3. CASE Awaits(message.id) /\ sender.stage # "abort"
      BY <2>3, <1>5, <1>6 DEF HearError, Awaits
    <2> QED BY <2>1, <2>2, <2>3
  <1>7. CASE message.kind = "status" /\ HearStatus(message.status)
    <2> DEFINE status == message.status
               verdict == IF sender.view = None THEN "new" ELSE AcceptUpdate(sender.view, status)
    <2>1. CASE ~Awaits(status.id)
      BY <2>1, <1>3, <1>7 DEF HearStatus
    <2>2. CASE Awaits(status.id)
      <3>1. /\ sender.stage \in Stages \ {"idle"} /\ status.id = number /\ sender.event \in Events
        BY <2>2, <1>1 DEF Awaits, SenderOK
      <3>2. verdict \in {"old", "new", "conflict"}
        BY DEF AcceptUpdate
      <3>3. CASE verdict = "old"
        BY <3>3, <2>2, <1>3, <1>7 DEF HearStatus
      <3>4. CASE verdict = "new" /\ ~Terminal(status)
        <4>1. sender' = [sender EXCEPT !.view = status] /\ UNCHANGED <<number, toReceiver>>
          BY <3>4, <2>2, <1>7 DEF HearStatus
        <4>2. sender' = [stage |-> sender.stage, event |-> sender.event,
                         view |-> status, early |-> sender.early]
          BY <4>1, <1>1 DEF SenderOK
        <4>3. sender'.stage = sender.stage /\ sender'.event = sender.event
          BY <4>2
        <4> QED BY <4>1, <4>3, <1>2, StayTurn
      <3>5. CASE verdict = "new" /\ Terminal(status) /\ sender.stage = "abort"
        <4>1. Resume
          BY <3>5, <2>2, <1>7 DEF HearStatus
        <4> QED BY <4>1, <3>1, <3>5, <1>4, <1>7 DEF Resume, Over
      <3>6. CASE verdict = "new" /\ Terminal(status) /\ sender.stage # "abort"
        <4>1. IF status.state = "succeeded" THEN Proceed ELSE GiveUp
          BY <3>6, <2>2, <1>7 DEF HearStatus
        <4>2. CASE GiveUp
          BY <4>2, <3>1, <3>6, <1>5
        <4>3. CASE status.state = "succeeded" /\ sender.stage = "begin" /\ Proceed
          <5>1. Send("upload", sender.event, FALSE)
            BY <4>3 DEF Proceed
          <5> QED BY <5>1, <4>3, <3>1, <1>2, SendTurn
        <4>4. CASE status.state = "succeeded" /\ sender.stage = "upload" /\ Proceed
          <5>1. Send("commit", sender.event, FALSE)
            BY <4>4 DEF Proceed
          <5> QED BY <5>1, <4>4, <3>1, <1>2, SendTurn
        <4>5. CASE status.state = "succeeded" /\ sender.stage = "commit" /\ Proceed
          <5>1. sender' = Rest /\ UNCHANGED <<number, toReceiver>>
            BY <4>5 DEF Proceed
          <5>2. Over(message)
            BY <3>1, <4>5, <1>7 DEF Over
          <5> QED BY <5>1, <5>2, <1>4
        <4> QED BY <4>1, <4>2, <4>3, <4>4, <4>5, <3>1, <3>6 DEF Stages
      <3>7. CASE verdict = "conflict"
        <4>1. sender.view # None /\ AcceptUpdate(sender.view, status) = "conflict"
          BY <3>7
        <4> QED BY <4>1, <2>2, <1>7 DEF Hear, Conflicting, message
      <3> QED BY <3>2, <3>3, <3>4, <3>5, <3>6, <3>7
    <2> QED BY <2>1, <2>2
  <1> QED BY <1>6, <1>7 DEF Hear, message
-----------------------------------------------------------------------------

(* A message about tasks the queue is in step with.                         *)
LEMMA QueueTurn ==
    ASSUME IInv, TurnOK, UNCHANGED <<sender, number, inward, toSender>>,
           NEW m \in Inward, toReceiver' = Append(toReceiver, m),
           Subject(m) <= number, ~Fresh(m),
           m.kind = "submit" /\ Holds(ledger, m.task.id) => ledger.entries[m.task.id].task = m.task
    PROVE  TurnOK'
  <1> DEFINE q == toReceiver
  <1>1. q \in Seq(Inward) /\ UNCHANGED <<ledger, staging, jobs, deferred>>
    BY Numbers DEF inward
  <1>2. /\ DOMAIN toReceiver' = 1 .. Len(q) + 1 /\ DOMAIN q = 1 .. Len(q) /\ Len(q) \in Nat
        /\ \A k \in 1 .. Len(q) : toReceiver'[k] = q[k]
        /\ toReceiver'[Len(q) + 1] = m
    <2>1. Len(toReceiver') = Len(q) + 1 /\ toReceiver' \in Seq(Inward)
      BY <1>1
    <2> QED BY <2>1, <1>1
  <1>3. ASSUME NEW j \in ledger.highwater + 1 .. number
        PROVE  \E k \in DOMAIN toReceiver' :
                  toReceiver'[k].kind = "submit" /\ toReceiver'[k].task.id = j
    <2>1. PICK k \in DOMAIN q : q[k].kind = "submit" /\ q[k].task.id = j
      BY <1>3 DEF TurnOK, QueueOK
    <2> QED BY <2>1, <1>2
  <1>4. ASSUME NEW k \in 1 .. Len(q) + 1
        PROVE  LET n == toReceiver'[k]
               IN /\ Subject(n) <= number
                  /\ n.kind = "submit" /\ Holds(ledger, n.task.id) =>
                        ledger.entries[n.task.id].task = n.task
                  /\ Fresh(n) => /\ \A l \in 1 .. k - 1 : Subject(toReceiver'[l]) < n.task.id
                                 /\ n.task.event = sender.event
                                 /\ n.task.op = "transfer_abort"
                                       <=> n.task.id = number /\ sender.stage = "abort"
    <2>1. CASE k \in 1 .. Len(q)
      <3>1. \A l \in 1 .. k - 1 : toReceiver'[l] = q[l]
        BY <1>2, <2>1
      <3>2. toReceiver'[k] = q[k] /\ k \in DOMAIN q
        BY <1>2, <2>1
      <3> QED BY <3>1, <3>2 DEF TurnOK, QueueOK
    <2>2. CASE k = Len(q) + 1
      <3>1. toReceiver'[k] = m
        BY <1>2, <2>2
      <3> QED BY <3>1
    <2> QED BY <2>1, <2>2, <1>2
  <1>5. QueueOK'
    <2>1. ledger.highwater <= number
      BY DEF TurnOK, QueueOK
    <2>2. \A j \in ledger'.highwater + 1 .. number' :
              \E k \in DOMAIN toReceiver' :
                 toReceiver'[k].kind = "submit" /\ toReceiver'[k].task.id = j
      BY <1>1, <1>3
    <2>3. ASSUME NEW k \in DOMAIN toReceiver'
          PROVE  LET n == toReceiver'[k]
                 IN /\ Subject(n) <= number'
                    /\ n.kind = "submit" /\ Holds(ledger', n.task.id) =>
                          ledger'.entries[n.task.id].task = n.task
                    /\ n.kind = "submit" /\ n.task.id > ledger'.highwater =>
                          /\ \A l \in 1 .. k - 1 : Subject(toReceiver'[l]) < n.task.id
                          /\ n.task.event = sender'.event
                          /\ n.task.op = "transfer_abort"
                                <=> n.task.id = number' /\ sender'.stage = "abort"
      BY <1>1, <1>2, <1>4 DEF Fresh, Holds
    <2> QED BY <1>1, <2>1, <2>2, <2>3 DEF QueueOK, Fresh, Subject, Holds
  <1>6. WorkOK'
    BY <1>1 DEF TurnOK, WorkOK, Clean, Belongs, Alone, Open, Holds, Terminal, ActiveTransfer, Live
  <1>7. EndOK'
    BY <1>1 DEF TurnOK, EndOK, Clean, Open, Holds, Terminal
  <1>8. Timely' = Timely
    BY <1>1 DEF Timely, Over, Clean, Terminal, Outward
  <1> QED BY <1>5, <1>6, <1>7, <1>8 DEF TurnOK

(* A question that waits already takes its own place.                       *)
LEMMA JoinGetSame ==
    ASSUME NEW q \in Seq(Inward), NEW id \in Ids, NEW merge
    PROVE  Join(q, Get(id), merge) \in {q, Append(q, Get(id))}
  <1> DEFINE message == Get(id)
             same == {i \in DOMAIN q : SameTask(q[i], message)}
             i == CHOOSE j \in same : TRUE
  <1>1. message \in Inward /\ message.kind = "get" /\ message.id = id
    BY DEF Get, Inward
  <1>2. CASE ~merge \/ same = {}
    BY <1>2 DEF Join
  <1>3. CASE ~(~merge \/ same = {})
    <2>1. i \in 1 .. Len(q) /\ SameTask(q[i], message)
      BY <1>3
    <2>2. Join(q, message, merge) = [q EXCEPT ![i] = message]
      BY <1>1, <1>3 DEF Join
    <2> HIDE DEF i
    <2>3. q[i] = message
      <3>1. q[i] \in Inward
        BY <2>1
      <3>2. q[i].kind = "get" /\ q[i].id = id
        BY <1>1, <2>1 DEF SameTask
      <3>3. q[i] \in [kind : {"get", "cancel"}, id : Ids]
        BY <3>1, <3>2 DEF Inward
      <3> QED BY <3>2, <3>3 DEF Get
    <2> HIDE DEF message
    <2>4. [q EXCEPT ![i] = message] = q
      BY <2>1, <2>3
    <2> QED BY <2>2, <2>4 DEF message
  <1> QED BY <1>2, <1>3

LEMMA SenderTurn ==
    ASSUME IInv, TurnOK,
           \/ \E e \in Events : Deliver(e) \/ PreparationFails(e)
           \/ \E id \in Ids : Repeat(id)
           \/ Hear \/ CancelTask \/ TurnEarly \/ Retry
    PROVE  TurnOK'
  <1>1. /\ SenderOK /\ number \in Nat /\ ledger.highwater \in Nat /\ Ids \subseteq Nat
        /\ LedgerOK(ledger) /\ ledger.highwater <= number
    BY Numbers DEF IInv, TurnOK, QueueOK
  <1>2. toSender \in Seq(Timely)
    BY DEF TurnOK
  <1>3. ASSUME NEW e \in Events, Deliver(e) PROVE TurnOK'
    BY <1>2, <1>3, SendTurn DEF Deliver
  <1>4. ASSUME NEW e \in Events, PreparationFails(e) PROVE TurnOK'
    BY <1>2, <1>4, StayTurn DEF PreparationFails, inward
  <1>5. ASSUME NEW id \in Ids, Repeat(id) PROVE TurnOK'
    <2>1. /\ id <= number
          /\ UNCHANGED <<sender, number, inward, toSender, ledger, staging, jobs, deferred>>
      BY <1>1, <1>5 DEF Repeat, outward, inward
    <2>2. CASE \E merge \in Merges : toReceiver' = Join(toReceiver, Get(id), merge)
      <3>1. toReceiver' \in {toReceiver, Append(toReceiver, Get(id))}
        BY <2>2, <1>1, JoinGetSame DEF SenderOK
      <3>2. CASE toReceiver' = toReceiver
        BY <3>2, <2>1, <1>2, StayTurn
      <3>3. CASE toReceiver' = Append(toReceiver, Get(id))
        <4>1. /\ Get(id) \in Inward /\ Subject(Get(id)) = id /\ Get(id).kind = "get"
          BY DEF Get, Inward, Subject
        <4> QED BY <4>1, <3>3, <2>1, QueueTurn DEF Fresh
      <3> QED BY <3>1, <3>2, <3>3
    <2>3. CASE Holds(ledger, id) /\ toReceiver' = Append(toReceiver, Submit(ledger.entries[id].task))
      <3> DEFINE task == ledger.entries[id].task
      <3>1. task \in Task /\ task.id = id /\ id <= ledger.highwater
        BY <2>3, <1>1, EntryFacts DEF LedgerOK, Filed
      <3>2. Submit(task) \in Inward /\ Submit(task).kind = "submit" /\ Submit(task).task = task
        BY <3>1 DEF Submit, Inward
      <3>3. Subject(Submit(task)) = id /\ ~Fresh(Submit(task))
        BY <3>1, <3>2, <1>1 DEF Subject, Fresh
      <3> QED BY <2>1, <2>3, <3>1, <3>2, <3>3, QueueTurn
    <2> QED BY <2>2, <2>3, <1>5 DEF Repeat
  <1>6. CASE Hear
    BY <1>6, HearTurn
  <1>7. CASE CancelTask
    <2>1. /\ Cancel(number) \in Inward /\ Subject(Cancel(number)) = number
          /\ Cancel(number).kind = "cancel"
      BY <1>1, <1>7 DEF CancelTask, SenderOK, Cancel, Inward, Subject
    <2>2. /\ toReceiver' = Append(toReceiver, Cancel(number))
          /\ UNCHANGED <<sender, number, inward, toSender>>
      BY <1>7 DEF CancelTask, outward
    <2> QED BY <2>1, <2>2, <1>1, QueueTurn DEF Fresh
  <1>8. CASE TurnEarly
    <2>1. /\ sender.event \in Events /\ sender.stage # "abort"
          /\ UNCHANGED <<inward, toSender>>
      BY <1>1, <1>8 DEF TurnEarly, SenderOK
    <2>2. CASE Send("abort", sender.event, TRUE)
      BY <2>1, <2>2, <1>2, SendTurn
    <2>3. CASE Send("commit", sender.event, FALSE)
      BY <2>1, <2>3, <1>2, SendTurn
    <2> QED BY <2>2, <2>3, <1>8 DEF TurnEarly
  <1>9. CASE Retry
    BY <1>2, <1>9, StayTurn DEF Retry, inward
  <1> QED BY <1>3, <1>4, <1>5, <1>6, <1>7, <1>8, <1>9
-----------------------------------------------------------------------------

(* A worker goes on with what it has, for the transfer it works for.        *)
LEMMA WorkTurn ==
    ASSUME IInv, TurnOK, NEW id \in Ids, Works(id), UNCHANGED <<outward, toReceiver, toSender>>,
           Belongs(jobs'[id].held),
           jobs[id].op = "transfer_abort" =>
               /\ jobs'[id].step \notin {"applied", "reading"}
               /\ jobs'[id].step = "ok" => jobs'[id].held = None
    PROVE  TurnOK'
  <1>1. /\ UNCHANGED <<sender, number, toReceiver, toSender, ledger, staging, deferred>>
        /\ jobs[id] # None /\ jobs'[id] # None
        /\ jobs'[id].op = jobs[id].op /\ jobs'[id].payload = jobs[id].payload
        /\ \A i \in Ids \ {id} : jobs'[i] = jobs[i]
    BY AbsenceAssumption DEF Works, outward
  <1>2. ~Clean /\ ~Clean'
    BY <1>1 DEF Clean
  <1>3. QueueOK'
    BY <1>1 DEF TurnOK, QueueOK, Fresh, Subject, Holds
  <1>4. WorkOK'
    <2>1. sender.stage # "idle" /\ Belongs(staging)
      BY <1>2 DEF TurnOK, WorkOK
    <2>2. ASSUME NEW i \in Ids, jobs'[i] # None
          PROVE  /\ jobs'[i].payload = sender.event /\ Belongs(jobs'[i].held)
                 /\ jobs'[i].op = "transfer_abort" =>
                        /\ i = number /\ sender.stage = "abort" /\ deferred = None
                        /\ \A j \in Ids \ {i} : jobs'[j] = None
                        /\ jobs'[i].step \notin {"applied", "reading"}
                        /\ jobs'[i].step = "ok" => jobs'[i].held = None
      <3>1. CASE i = id
        BY <3>1, <1>1 DEF TurnOK, WorkOK, Alone
      <3>2. CASE i # id
        <4>1. jobs'[i] = jobs[i] /\ jobs[i] # None
          BY <3>2, <2>2, <1>1
        <4>2. jobs[i].op # "transfer_abort"
          BY <3>2, <4>1, <1>1 DEF TurnOK, WorkOK, Alone
        <4> QED BY <4>1, <4>2 DEF TurnOK, WorkOK
      <3> QED BY <3>1, <3>2
    <2>3. \A i \in Ids : jobs[i] # None => jobs'[i] # None
      BY <1>1
    <2> QED BY <1>1, <1>2, <2>1, <2>2, <2>3
        DEF TurnOK, WorkOK, Belongs, Alone, Open, Holds, Terminal, ActiveTransfer, Live
  <1>5. EndOK'
    BY <1>1, <1>2 DEF TurnOK, EndOK, Open, Holds, Terminal
  <1>6. Timely' = Timely
    BY <1>1, <1>2 DEF Timely, Over, Terminal, Outward
  <1> QED BY <1>1, <1>3, <1>4, <1>5, <1>6 DEF TurnOK

LEMMA EndsTurn ==
    ASSUME IInv, TurnOK, NEW id \in Ids, jobs[id] # None, NEW step \in Running \cup Ended,
           Ends(id, step),
           UNCHANGED <<up, ledger, staging, deferred, ran, loose, outward, toReceiver, toSender>>,
           jobs[id].op = "transfer_abort" => step \in {"failed", "dead", "unknown"}
    PROVE  TurnOK'
  <1>1. ReceiverOK /\ jobs[id] \in Jobs /\ jobs \in [Ids -> Jobs \cup {None}]
    BY JobFacts DEF IInv, ReceiverOK, JobsOK
  <1>2. Works(id) /\ jobs'[id].step = step
    BY <1>1, EndsFacts
  <1>3. jobs'[id].held = jobs[id].held
    BY <1>1 DEF Ends, Jobs
  <1>4. Belongs(jobs'[id].held)
    BY <1>3 DEF TurnOK, WorkOK
  <1> QED BY <1>2, <1>4, WorkTurn DEF outward

LEMMA HeldTurn ==
    ASSUME IInv, TurnOK, NEW id \in Ids, jobs[id] # None, NEW held \in Stagings,
           jobs' = [jobs EXCEPT ![id] = [jobs[id] EXCEPT !.step = "ok", !.held = held]],
           UNCHANGED <<up, ledger, staging, deferred, ran, loose, outward, toReceiver, toSender>>,
           Belongs(held), jobs[id].op = "transfer_abort" => held = None
    PROVE  TurnOK'
  <1>1. ReceiverOK /\ jobs[id] \in Jobs /\ jobs \in [Ids -> Jobs \cup {None}]
    BY JobFacts DEF IInv, ReceiverOK, JobsOK
  <1>2. Works(id) /\ jobs'[id].step = "ok"
    BY <1>1, HeldWorks, Steps
  <1>3. jobs'[id].held = held
    BY <1>1 DEF Jobs
  <1> QED BY <1>2, <1>3, WorkTurn

LEMMA StagingTurn ==
    ASSUME IInv, TurnOK, NEW id \in Ids, Begin(id) \/ Upload(id) \/ Abort(id) \/ UploadFails(id)
    PROVE  TurnOK'
  <1> DEFINE job == jobs[id]
  <1>1. /\ job # None
        /\ UNCHANGED <<up, ledger, staging, deferred, ran, loose, outward, toReceiver, toSender>>
    BY DEF Begin, Upload, Abort, UploadFails, Working, WorkerLeaves, durable
  <1>2. /\ job \in Jobs /\ jobs \in [Ids -> Jobs \cup {None}] /\ job.held \in Stagings
        /\ job.payload = sender.event /\ Belongs(job.held)
    BY <1>1, JobFacts DEF IInv, ReceiverOK, JobsOK, Jobs, TurnOK, WorkOK
  <1>3. CASE Ends(id, "failed")
    BY <1>1, <1>3, Steps, EndsTurn
  <1>4. ASSUME NEW held \in Stagings, Belongs(held), job.op = "transfer_abort" => held = None,
               jobs' = [jobs EXCEPT ![id] = [jobs[id] EXCEPT !.step = "ok", !.held = held]]
        PROVE  TurnOK'
    BY <1>1, <1>4, HeldTurn
  <1>5. CASE Begin(id)
    <2> DEFINE held == [event |-> job.payload, complete |-> FALSE]
    <2>1. held \in Stagings /\ Belongs(held) /\ job.op # "transfer_abort"
      BY <1>2, <1>5 DEF Jobs, Stagings, Belongs, Begin, Working
    <2>2. CASE job.held # None
      BY <2>2, <1>5, <1>3 DEF Begin, Ends
    <2>3. CASE job.held = None
      <3>1. jobs' = [jobs EXCEPT ![id].step = "ok", ![id].held = held]
        BY <2>3, <1>5 DEF Begin
      <3> HIDE DEF held
      <3>2. jobs' = [jobs EXCEPT ![id] = [jobs[id] EXCEPT !.step = "ok", !.held = held]]
        BY <3>1, <1>2
      <3> QED BY <2>1, <3>2, <1>4
    <2> QED BY <2>2, <2>3
  <1>6. CASE Upload(id)
    <2> DEFINE held == [job.held EXCEPT !.complete = TRUE]
               fails == job.held = None \/ job.held.event # job.payload
    <2>1. CASE fails
      BY <2>1, <1>6, <1>3 DEF Upload, Ends
    <2>2. CASE ~fails
      <3>1. held \in Stagings /\ held.event = job.held.event /\ job.op # "transfer_abort"
        BY <2>2, <1>2, <1>6 DEF Stagings, Upload, Working
      <3>2. jobs' = [jobs EXCEPT ![id].step = "ok", ![id].held.complete = TRUE]
        BY <2>2, <1>6 DEF Upload
      <3>3. jobs' = [jobs EXCEPT ![id] = [jobs[id] EXCEPT !.step = "ok", !.held = held]]
        BY <3>2, <1>2 DEF Jobs
      <3> HIDE DEF held
      <3>4. Belongs(held)
        BY <2>2, <3>1, <1>2 DEF Belongs
      <3> QED BY <3>1, <3>3, <3>4, <1>4
    <2> QED BY <2>1, <2>2
  <1>7. CASE Abort(id)
    <2> DEFINE fails == job.held # None /\ job.held.event # job.payload
    <2>1. CASE fails
      BY <2>1, <1>7, <1>3 DEF Abort, Ends
    <2>2. CASE ~fails
      <3>1. jobs' = [jobs EXCEPT ![id].step = "ok", ![id].held = None]
        BY <2>2, <1>7 DEF Abort
      <3>2. jobs' = [jobs EXCEPT ![id] = [jobs[id] EXCEPT !.step = "ok", !.held = None]]
        BY <3>1, <1>2
      <3>3. None \in Stagings /\ Belongs(None)
        BY DEF Stagings, Belongs
      <3> QED BY <3>2, <3>3, <1>4
    <2> QED BY <2>1, <2>2
  <1>8. CASE UploadFails(id)
    BY <1>8, <1>3 DEF UploadFails
  <1> QED BY <1>5, <1>6, <1>7, <1>8

LEMMA CommitTurn ==
    ASSUME IInv, TurnOK, NEW id \in Ids,
           \/ CommitRefused(id) \/ Apply(id) \/ Answered(id) \/ Read(id)
           \/ Reject(id) \/ ApplyFails(id) \/ CommitUncertain(id) \/ Dies(id) \/ ReadFails(id)
    PROVE  TurnOK'
  <1>1. /\ jobs[id] # None
        /\ UNCHANGED <<up, ledger, staging, deferred, ran, loose, outward, toReceiver, toSender>>
    BY DEF CommitRefused, Apply, Reject, ApplyFails, CommitUncertain, Answered, Dies, Read, ReadFails,
           Applying, Working, WorkerLeaves, durable
  <1>2. jobs[id].op = "transfer_abort" => jobs[id].step \notin {"applied", "reading"}
    BY <1>1 DEF TurnOK, WorkOK, Alone
  <1>3. ASSUME NEW step \in Running \cup Ended, Ends(id, step),
               jobs[id].op = "transfer_abort" => step \in {"failed", "dead", "unknown"}
        PROVE  TurnOK'
    BY <1>1, <1>3, EndsTurn
  <1>4. CASE CommitRefused(id) \/ Reject(id)
    BY <1>3, <1>4, Steps DEF CommitRefused, Reject
  <1>5. CASE Apply(id) \/ ApplyFails(id) \/ CommitUncertain(id)
    <2>1. jobs[id].op # "transfer_abort"
      BY <1>5 DEF Apply, ApplyFails, CommitUncertain, Applying, Working
    <2> QED BY <1>3, <1>5, <2>1, Steps DEF Apply, ApplyFails, CommitUncertain
  <1>6. CASE Answered(id)
    BY <1>2, <1>3, <1>6, Steps DEF Answered
  <1>7. CASE Dies(id)
    BY <1>3, <1>7, Steps DEF Dies
  <1>8. CASE Read(id)
    <2> DEFINE step == Established(jobs[id], jobs[id].payload \in stored)
    <2>1. Ends(id, step) /\ jobs[id].op # "transfer_abort"
      BY <1>2, <1>8 DEF Read
    <2>2. step \in Running \cup Ended
      BY Steps DEF Established
    <2> HIDE DEF step
    <2> QED BY <2>1, <2>2, <1>3
  <1>9. CASE ReadFails(id)
    BY <1>3, <1>9, Steps DEF ReadFails
  <1> QED BY <1>4, <1>5, <1>6, <1>7, <1>8, <1>9
-----------------------------------------------------------------------------

(* Everything that waits is about a task that has been given a number.      *)
LEMMA QueueFacts ==
    ASSUME IInv, TurnOK
    PROVE  \A k \in DOMAIN toReceiver :
              LET m == toReceiver[k]
              IN /\ m \in Inward /\ Subject(m) \in Nat /\ Subject(m) <= number
                 /\ m.kind = "submit" => Subject(m) = m.task.id
  <1> SUFFICES ASSUME NEW k \in DOMAIN toReceiver, NEW m, m = toReceiver[k]
               PROVE  /\ m \in Inward /\ Subject(m) \in Nat /\ Subject(m) <= number
                      /\ m.kind = "submit" => Subject(m) = m.task.id
    OBVIOUS
  <1>1. m \in Inward /\ Ids \subseteq Nat
    BY Numbers
  <1>2. Subject(m) \in Nat /\ (m.kind = "submit" => Subject(m) = m.task.id)
    BY <1>1, SubjectFacts
  <1>3. Subject(m) <= number
    BY DEF TurnOK, QueueOK
  <1> QED BY <1>1, <1>2, <1>3

(* What arrives is about a task the receiver has seen, or is the next one.  *)
LEMMA HeadFacts ==
    ASSUME IInv, TurnOK, toReceiver # <<>>
    PROVE  LET m == Head(toReceiver)
           IN /\ m \in Inward /\ Subject(m) <= number
              /\ Subject(m) > ledger.highwater => Fresh(m)
              /\ Fresh(m) => /\ m.task.id = ledger.highwater + 1
                             /\ m.task.event = sender.event
                             /\ m.task.op = "transfer_abort"
                                   <=> m.task.id = number /\ sender.stage = "abort"
              /\ m.kind = "submit" /\ Holds(ledger, m.task.id) => ledger.entries[m.task.id].task = m.task
  <1> DEFINE q == toReceiver
             m == Head(q)
             h == ledger.highwater
  <1>1. number \in Nat /\ h \in Nat /\ Ids \subseteq Nat /\ q \in Seq(Inward)
    BY Numbers
  <1>2. m = q[1] /\ 1 \in DOMAIN q /\ m \in Inward /\ DOMAIN q = 1 .. Len(q)
    BY <1>1
  <1>3. \A k \in DOMAIN q : q[k] \in Inward /\ Subject(q[k]) \in Nat /\ Subject(q[k]) <= number
                            /\ (q[k].kind = "submit" => Subject(q[k]) = q[k].task.id)
    BY QueueFacts
  <1> HIDE DEF m
  <1>4. \A j \in h + 1 .. number : Subject(m) >= j => m.kind = "submit" /\ m.task.id = j
    <2> SUFFICES ASSUME NEW j \in h + 1 .. number, Subject(m) >= j
                 PROVE  m.kind = "submit" /\ m.task.id = j
      OBVIOUS
    <2>1. PICK k \in DOMAIN q : q[k].kind = "submit" /\ q[k].task.id = j
      BY DEF TurnOK, QueueOK
    <2>2. Fresh(q[k])
      BY <1>1, <2>1 DEF Fresh
    <2>3. \A l \in 1 .. k - 1 : Subject(q[l]) < j
      BY <2>1, <2>2 DEF TurnOK, QueueOK
    <2>4. ~(1 \in 1 .. k - 1)
      <3>1. Subject(q[1]) \in Nat /\ j \in Nat
        BY <1>1, <1>2, <1>3
      <3> QED BY <1>2, <2>3, <3>1
    <2>5. k = 1
      BY <1>2, <2>4
    <2> QED BY <1>2, <2>1, <2>5
  <1>5. Subject(m) <= number /\ Subject(m) \in Nat
    BY <1>2, <1>3
  <1>6. ASSUME Subject(m) > h PROVE Fresh(m) /\ m.task.id = h + 1
    <2>1. Subject(m) \in h + 1 .. number /\ h + 1 \in h + 1 .. number
      BY <1>1, <1>5, <1>6
    <2>2. Subject(m) >= Subject(m) /\ Subject(m) >= h + 1
      BY <1>1, <1>5, <1>6
    <2>3. m.kind = "submit" /\ m.task.id = h + 1
      BY <1>4, <2>1, <2>2
    <2> QED BY <1>1, <2>3 DEF Fresh
  <1>7. Fresh(m) => Subject(m) > h
    BY <1>2, <1>3 DEF Fresh
  <1>8. Fresh(m) => /\ m.task.event = sender.event
                    /\ m.task.op = "transfer_abort"
                          <=> m.task.id = number /\ sender.stage = "abort"
    BY <1>2 DEF TurnOK, QueueOK
  <1>9. m.kind = "submit" /\ Holds(ledger, m.task.id) => ledger.entries[m.task.id].task = m.task
    BY <1>2 DEF TurnOK, QueueOK
  <1> QED BY <1>2, <1>5, <1>6, <1>7, <1>8, <1>9 DEF m

(* The rest of the queue is in step with what the head has led to.          *)
LEMMA TailQueue ==
    ASSUME IInv, TurnOK, toReceiver # <<>>, toReceiver' = Tail(toReceiver),
           UNCHANGED <<sender, number>>,
           NEW m, m = Head(toReceiver),
           ledger'.highwater = IF Fresh(m) THEN m.task.id ELSE ledger.highwater,
           \A i \in Ids : Holds(ledger', i) =>
               \/ Holds(ledger, i) /\ ledger'.entries[i].task = ledger.entries[i].task
               \/ Fresh(m) /\ i = m.task.id
    PROVE  QueueOK'
  <1> DEFINE q == toReceiver
             t == toReceiver'
             h == ledger.highwater
             g == ledger'.highwater
  <1>1. number \in Nat /\ h \in Nat /\ Ids \subseteq Nat /\ q \in Seq(Inward)
    BY Numbers
  <1>2. /\ m = q[1] /\ DOMAIN q = 1 .. Len(q) /\ Len(q) \in Nat /\ Len(q) >= 1 /\ 1 \in DOMAIN q
        /\ DOMAIN t = 1 .. Len(q) - 1
        /\ \A k \in 1 .. Len(q) - 1 : t[k] = q[k + 1]
    <2>1. Len(t) = Len(q) - 1 /\ t \in Seq(Inward)
      BY <1>1
    <2> QED BY <2>1, <1>1
  <1>3. \A k \in DOMAIN q : q[k] \in Inward /\ Subject(q[k]) \in Nat /\ Subject(q[k]) <= number
                            /\ (q[k].kind = "submit" => Subject(q[k]) = q[k].task.id)
    BY QueueFacts
  <1>4. Fresh(m) => m.task.id = h + 1 /\ Subject(m) = h + 1 /\ h + 1 <= number
    BY <1>2, <1>3, HeadFacts DEF Fresh
  <1>5. g \in {h, h + 1} /\ g <= number /\ (g = h + 1 => Fresh(m)) /\ (g = h => ~Fresh(m))
    <2>1. h <= number
      BY DEF TurnOK, QueueOK
    <2> QED BY <1>1, <1>4, <2>1
  <1>6. ASSUME NEW j \in g + 1 .. number
        PROVE  \E k \in DOMAIN t : t[k].kind = "submit" /\ t[k].task.id = j
    <2>1. j \in h + 1 .. number
      BY <1>1, <1>5
    <2>2. PICK k \in DOMAIN q : q[k].kind = "submit" /\ q[k].task.id = j
      BY <2>1 DEF TurnOK, QueueOK
    <2>3. k # 1
      <3>1. Fresh(q[k])
        BY <1>1, <2>1, <2>2 DEF Fresh
      <3>2. q[k].task.id = j
        BY <2>2
      <3> HIDE DEF h, g
      <3> QED BY <1>1, <1>2, <1>4, <1>5, <3>1, <3>2
    <2>4. k - 1 \in 1 .. Len(q) - 1 /\ k - 1 + 1 = k
      BY <1>2, <2>3
    <2>5. t[k - 1] = q[k] /\ k - 1 \in DOMAIN t
      BY <1>2, <2>4
    <2> QED BY <2>2, <2>5
  <1>7. ASSUME NEW k \in 1 .. Len(q) - 1
        PROVE  LET n == t[k]
               IN /\ Subject(n) <= number
                  /\ n.kind = "submit" /\ Holds(ledger', n.task.id) =>
                        ledger'.entries[n.task.id].task = n.task
                  /\ n.kind = "submit" /\ n.task.id > g =>
                        /\ \A l \in 1 .. k - 1 : Subject(t[l]) < n.task.id
                        /\ n.task.event = sender.event
                        /\ n.task.op = "transfer_abort"
                              <=> n.task.id = number /\ sender.stage = "abort"
    <2> DEFINE n == q[k + 1]
    <2>1. t[k] = n /\ k + 1 \in DOMAIN q /\ 1 \in 1 .. (k + 1) - 1
      BY <1>2
    <2>2. /\ n \in Inward /\ Subject(n) \in Nat /\ Subject(n) <= number
          /\ n.kind = "submit" => Subject(n) = n.task.id /\ n.task.id \in Ids
      BY <2>1, <1>3, SubjectFacts
    <2>3. Fresh(n) => Subject(m) < n.task.id
      BY <1>2, <2>1 DEF TurnOK, QueueOK
    <2>4. ASSUME n.kind = "submit", Holds(ledger', n.task.id)
          PROVE  ledger'.entries[n.task.id].task = n.task
      <3>1. ~(Fresh(m) /\ n.task.id = m.task.id)
        <4> SUFFICES ASSUME Fresh(m), n.task.id = m.task.id PROVE FALSE
          OBVIOUS
        <4>1. Fresh(n) /\ Subject(m) = n.task.id
          BY <2>4, <1>4 DEF Fresh
        <4> QED BY <4>1, <2>2, <2>3, <2>4
      <3>2. /\ Holds(ledger, n.task.id)
            /\ ledger'.entries[n.task.id].task = ledger.entries[n.task.id].task
        BY <2>2, <2>4, <3>1
      <3> QED BY <2>1, <2>4, <3>2 DEF TurnOK, QueueOK
    <2>5. ASSUME n.kind = "submit", n.task.id > g
          PROVE  /\ \A l \in 1 .. k - 1 : Subject(t[l]) < n.task.id
                 /\ n.task.event = sender.event
                 /\ n.task.op = "transfer_abort"
                       <=> n.task.id = number /\ sender.stage = "abort"
      <3>1. Fresh(n)
        <4>1. n.task.id > h
          BY <1>1, <1>5, <2>2, <2>5
        <4> QED BY <4>1, <2>5 DEF Fresh
      <3>2. \A l \in 1 .. (k + 1) - 1 : Subject(q[l]) < n.task.id
        BY <2>1, <3>1 DEF TurnOK, QueueOK
      <3>3. \A l \in 1 .. k - 1 : t[l] = q[l + 1] /\ l + 1 \in 1 .. (k + 1) - 1
        BY <1>2
      <3>4. /\ n.task.event = sender.event
            /\ n.task.op = "transfer_abort"
                  <=> n.task.id = number /\ sender.stage = "abort"
        BY <2>1, <3>1 DEF TurnOK, QueueOK
      <3> QED BY <3>2, <3>3, <3>4
    <2> QED BY <2>1, <2>2, <2>4, <2>5
  <1>8. g <= number' /\ \A j \in g + 1 .. number' :
            \E k \in DOMAIN t : t[k].kind = "submit" /\ t[k].task.id = j
    BY <1>5, <1>6
  <1>9. ASSUME NEW k \in DOMAIN t
        PROVE  LET n == t[k]
               IN /\ Subject(n) <= number'
                  /\ n.kind = "submit" /\ Holds(ledger', n.task.id) =>
                        ledger'.entries[n.task.id].task = n.task
                  /\ n.kind = "submit" /\ n.task.id > g =>
                        /\ \A l \in 1 .. k - 1 : Subject(t[l]) < n.task.id
                        /\ n.task.event = sender'.event
                        /\ n.task.op = "transfer_abort"
                              <=> n.task.id = number' /\ sender'.stage = "abort"
    BY <1>2, <1>7
  <1> QED BY <1>8, <1>9 DEF QueueOK, Fresh, Subject, Holds

LEMMA AnswerTimely ==
    ASSUME IInv, TurnOK, UNCHANGED <<sender, number>>, LedgerOK(ledger'),
           ledger.highwater <= ledger'.highwater,
           (Clean => Clean') \/ number > ledger.highwater,
           NEW ms \in Seq(Timely'), Len(ms) <= 3, Answer(ms)
    PROVE  toSender' \in Seq(Timely')
  <1>1. /\ number \in Nat /\ ledger.highwater \in Nat /\ Ids \subseteq Nat
        /\ ledger'.highwater \in Nat
    BY Numbers, MaxTasksAssumption DEF LedgerOK, Ledgers
  <1>2. Timely \subseteq Timely'
    <2> SUFFICES ASSUME NEW m \in Timely PROVE m \in Timely'
      OBVIOUS
    <2>1. /\ m \in Outward /\ (Over(m) => Clean)
          /\ m.kind = "status" => m.status.id \in Nat /\ m.status.id <= ledger.highwater
          /\ m.kind = "error" => m.id \in Nat /\ m.id <= ledger.highwater
      BY <1>1, OutwardKinds DEF Timely
    <2>2. /\ m.kind = "status" => m.status.id <= ledger'.highwater
          /\ m.kind = "error" => m.id <= ledger'.highwater
      BY <1>1, <2>1
    <2>3. Over(m)' => Over(m) /\ ~(number > ledger.highwater)
      BY <1>1, <2>1 DEF Over, Terminal
    <2>4. Over(m)' => Clean'
      BY <2>1, <2>3
    <2> QED BY <2>1, <2>2, <2>4 DEF Timely, Outward
  <1>3. Broken \in Timely'
    BY DEF Timely, Broken, Outward, Over
  <1>4. toSender \in Seq(Timely')
    BY <1>2, SeqGrows DEF TurnOK
  <1> QED BY <1>3, <1>4, AnswerKeeps

LEMMA QuietTurn ==
    ASSUME IInv, TurnOK, toReceiver # <<>>, toReceiver' = Tail(toReceiver),
           UNCHANGED <<sender, number, ledger, staging, jobs, deferred>>,
           ~Fresh(Head(toReceiver)), NEW m \in Timely, Answer(<<m>>)
    PROVE  TurnOK'
  <1>1. LedgerOK(ledger') /\ ledger.highwater <= ledger'.highwater
    BY Numbers
  <1>2. QueueOK'
    BY TailQueue DEF Holds
  <1>3. WorkOK'
    BY DEF TurnOK, WorkOK, Clean, Belongs, Alone, Open, Holds, Terminal, ActiveTransfer, Live
  <1>4. EndOK'
    BY DEF TurnOK, EndOK, Clean, Open, Holds, Terminal
  <1>5. Timely' = Timely /\ (Clean => Clean')
    BY DEF Timely, Over, Clean, Terminal, Outward
  <1>6. <<m>> \in Seq(Timely') /\ Len(<<m>>) <= 3
    BY <1>5
  <1>7. toSender' \in Seq(Timely')
    BY <1>1, <1>5, <1>6, AnswerTimely
  <1> QED BY <1>2, <1>3, <1>4, <1>7 DEF TurnOK

LEMMA ReportTimely ==
    ASSUME NEW s \in Status, s.id <= ledger.highwater, Over(Report(s)) => Clean
    PROVE  Report(s) \in Timely
  BY DEF Report, Timely, Outward

(* What the ledger holds of the awaited task tells the end only when it is  *)
(* the end.                                                                 *)
LEMMA HeldTimely ==
    ASSUME IInv, TurnOK, NEW id \in Ids, Holds(ledger, id)
    PROVE  Report(ledger.entries[id].status) \in Timely
  <1> DEFINE s == ledger.entries[id].status
  <1>1. s \in Status /\ s.id = id /\ id <= ledger.highwater
    BY Numbers, EntryFacts DEF LedgerOK, Filed
  <1>2. Over(Report(s)) => Clean
    BY <1>1 DEF TurnOK, EndOK, Over, Report, Open
  <1> QED BY <1>1, <1>2, ReportTimely

LEMMA RefusalTimely ==
    ASSUME IInv, TurnOK, NEW id \in Ids, ~Holds(ledger, id), id <= ledger.highwater
    PROVE  Refusal(id, "retired") \in Timely
  <1>1. Over(Refusal(id, "retired")) => Clean
    BY DEF TurnOK, EndOK, Over, Refusal, Open
  <1> QED BY <1>1 DEF Timely, Refusal, Outward

LEMMA GetTurn ==
    ASSUME IInv, TurnOK, toReceiver # <<>>, toReceiver' = Tail(toReceiver), UNCHANGED outward,
           ~Fresh(Head(toReceiver)), NEW id \in Ids, id <= ledger.highwater, TakeGet(id)
    PROVE  TurnOK'
  <1>1. UNCHANGED <<sender, number, ledger, staging, jobs, deferred>>
    BY DEF TakeGet, inward, outward
  <1>2. CASE Holds(ledger, id)
    BY <1>1, <1>2, HeldTimely, QuietTurn DEF TakeGet
  <1>3. CASE ~Holds(ledger, id)
    BY <1>1, <1>3, RefusalTimely, QuietTurn DEF TakeGet
  <1> QED BY <1>2, <1>3

(* A status of a task that goes on ends nothing.                            *)
LEMMA OpenTimely ==
    ASSUME LedgerOK(ledger'), NEW id \in Ids, Holds(ledger', id), NEW s \in Status, s.id = id,
           ~Terminal(s)
    PROVE  Report(s) \in Timely'
  <1>1. id <= ledger'.highwater
    BY DEF LedgerOK, Filed
  <1>2. ~Over(Report(s))'
    BY DEF Over, Report, Terminal
  <1>3. Report(s).kind = "status" /\ Report(s).status = s /\ Report(s) \in Outward
    BY DEF Report, Outward
  <1> QED BY <1>1, <1>2, <1>3 DEF Timely, Outward

(* The job that is told to stop goes on until it is polled.                 *)
LEMMA CancelTurn ==
    ASSUME IInv, TurnOK, toReceiver # <<>>, toReceiver' = Tail(toReceiver), UNCHANGED outward,
           ~Fresh(Head(toReceiver)), NEW id \in Ids, jobs[id] # None, TakeCancel(id)
    PROVE  TurnOK'
  <1> DEFINE job == jobs[id]
             step == IF Durable(job) \/ job.step \in Ended THEN job.step ELSE "dead"
             m == CancelNoted(ledger, id)
  <1>1. /\ job \in Jobs /\ Open(ledger, id) /\ LedgerOK(ledger) /\ id <= ledger.highwater
        /\ jobs \in [Ids -> Jobs \cup {None}]
    BY JobFacts DEF IInv, ReceiverOK, JobsOK
  <1>2. /\ jobs' = [jobs EXCEPT ![id].cancelled = TRUE, ![id].step = step]
        /\ ledger' = m /\ Answer(<<Report(m.entries[id].status)>>)
        /\ UNCHANGED <<staging, deferred, sender, number>>
    BY DEF TakeCancel, outward
  <1>3. /\ LedgerOK(m) /\ Follows(ledger, m, id) /\ Open(m, id)
        /\ m.entries[id].task = ledger.entries[id].task
    BY <1>1, UpdateFacts DEF CancelNoted
  <1>4. step \in Running \cup Ended
    BY <1>1, Steps DEF Jobs
  <1>5. job.op = "transfer_abort" => step \in Ended /\ (step = "ok" => job.step = "ok")
    BY DEF Durable, Ended
  <1> HIDE DEF m, step
  <1>6. /\ jobs'[id] = [job EXCEPT !.cancelled = TRUE, !.step = step]
        /\ \A i \in Ids \ {id} : jobs'[i] = jobs[i]
    BY <1>1, <1>2
  <1>7. /\ jobs'[id] # None /\ jobs'[id].op = job.op /\ jobs'[id].payload = job.payload
        /\ jobs'[id].held = job.held /\ jobs'[id].step = step
    <2> DEFINE j == [job EXCEPT !.cancelled = TRUE, !.step = step]
    <2>1. j \in Jobs /\ j.op = job.op /\ j.payload = job.payload /\ j.held = job.held
          /\ j.step = step
      <3> HIDE DEF job
      <3> QED BY <1>1, <1>4 DEF Jobs
    <2>2. jobs'[id] = j
      BY <1>6
    <2> HIDE DEF j
    <2>3. jobs'[id] # None
      BY <2>1, <2>2, AbsenceAssumption
    <2> QED BY <2>1, <2>2, <2>3
  <1>8. ~Clean /\ ~Clean'
    BY <1>7 DEF Clean
  <1>9. \A i \in Ids : /\ Open(m, i) <=> Open(ledger, i)
                       /\ Open(m, i) => m.entries[i].task = ledger.entries[i].task
    BY <1>1, <1>3 DEF Follows, Open, Holds
  <1>10. \A i \in Ids : Holds(m, i) =>
            Holds(ledger, i) /\ m.entries[i].task = ledger.entries[i].task
    BY <1>1, <1>3 DEF Follows, Open, Holds
  <1>11. QueueOK'
    <2>1. ledger'.highwater = ledger.highwater
      BY <1>2, <1>3 DEF Follows
    <2> QED BY <1>2, <1>10, <2>1, TailQueue
  <1>12. ActiveTransfer(m) = ActiveTransfer(ledger)
    BY <1>9 DEF ActiveTransfer, Live, Open
  <1>13. WorkOK'
    <2>1. sender.stage # "idle" /\ Belongs(staging)
      BY <1>8 DEF TurnOK, WorkOK
    <2>2. ASSUME NEW i \in Ids, jobs'[i] # None
          PROVE  /\ jobs'[i].payload = sender.event /\ Belongs(jobs'[i].held)
                 /\ jobs'[i].op = "transfer_abort" =>
                        /\ i = number /\ sender.stage = "abort" /\ deferred = None
                        /\ \A j \in Ids \ {i} : jobs'[j] = None
                        /\ jobs'[i].step \notin {"applied", "reading"}
                        /\ jobs'[i].step = "ok" => jobs'[i].held = None
      <3>1. CASE i = id
        <4>1. step \in Ended => step \notin {"applied", "reading"}
          BY DEF Ended
        <4> QED BY <3>1, <4>1, <1>5, <1>6, <1>7 DEF TurnOK, WorkOK, Alone
      <3>2. CASE i # id
        <4>1. jobs'[i] = jobs[i] /\ jobs[i] # None
          BY <3>2, <2>2, <1>6
        <4>2. jobs[i].op # "transfer_abort"
          BY <3>2, <4>1 DEF TurnOK, WorkOK, Alone
        <4> QED BY <4>1, <4>2 DEF TurnOK, WorkOK
      <3> QED BY <3>1, <3>2
    <2>3. \A i \in Ids : jobs[i] # None => jobs'[i] # None
      BY <1>6, <1>7
    <2>4. ASSUME NEW i \in Ids, Open(m, i)
          PROVE  /\ staging = None
                 /\ m.entries[i].task.op = "transfer_abort" =>
                       jobs'[i] # None \/ (deferred # None /\ deferred.abort = i)
      BY <2>3, <2>4, <1>9 DEF TurnOK, WorkOK
    <2>5. deferred # None =>
            /\ deferred.abort = number /\ sender.stage = "abort" /\ deferred.event = sender.event
            /\ deferred.task \in ActiveTransfer(m)
      BY <1>12 DEF TurnOK, WorkOK
    <2> QED BY <1>2, <2>1, <2>2, <2>4, <2>5 DEF WorkOK, Belongs, Alone
  <1>14. EndOK'
    <2>1. number \in Ids \/ ~(number <= ledger.highwater) \/ number = 0
      BY Numbers DEF IInv, SenderOK, Ids
    <2>2. ~(sender.stage = "abort" /\ number <= m.highwater /\ ~Open(m, number))
      <3>1. sender.stage = "abort" => number \in Ids
        BY DEF IInv, SenderOK
      <3>2. m.highwater = ledger.highwater
        BY <1>3 DEF Follows
      <3> QED BY <3>1, <3>2, <1>8, <1>9 DEF TurnOK, EndOK
    <2>3. ~(sender.stage = "commit" /\ Holds(m, number)
            /\ m.entries[number].status.state = "succeeded")
      <3> SUFFICES ASSUME sender.stage = "commit", Holds(m, number),
                          m.entries[number].status.state = "succeeded"
                   PROVE  FALSE
        OBVIOUS
      <3>1. number \in Ids
        BY DEF IInv, SenderOK
      <3>2. number # id
        BY <1>3 DEF Open, Terminal
      <3>3. m.entries[number] = ledger.entries[number]
        BY <1>3, <3>1, <3>2 DEF Follows, Holds
      <3> QED BY <3>3, <1>8 DEF TurnOK, EndOK, Holds
    <2> QED BY <1>2, <2>2, <2>3 DEF EndOK
  <1>15. Report(m.entries[id].status) \in Timely'
    <2>1. m.entries[id].status \in Status /\ m.entries[id].status.id = id
      BY <1>3, EntryFacts DEF LedgerOK, Filed, Open
    <2> QED BY <2>1, <1>2, <1>3, OpenTimely DEF Open
  <1>16. toSender' \in Seq(Timely')
    <2> DEFINE ms == <<Report(m.entries[id].status)>>
    <2>1. ms \in Seq(Timely') /\ Len(ms) <= 3 /\ Answer(ms)
      BY <1>2, <1>15
    <2>2. ledger.highwater <= ledger'.highwater
      BY <1>2, <1>3, Numbers DEF Follows
    <2> HIDE DEF ms
    <2> QED BY <2>1, <2>2, <1>2, <1>3, <1>8, AnswerTimely
  <1> QED BY <1>11, <1>13, <1>14, <1>16 DEF TurnOK

(* A task that was not seen yet finds no abort: an abort is the last task   *)
(* of its transfer.                                                         *)
LEMMA FreshFacts ==
    ASSUME IInv, TurnOK, toReceiver # <<>>, NEW m, m = Head(toReceiver), Fresh(m)
    PROVE  /\ m.task \in Task /\ m.task.id = ledger.highwater + 1 /\ m.task.id <= number
           /\ m.task.event = sender.event
           /\ m.task.op = "transfer_abort" <=> m.task.id = number /\ sender.stage = "abort"
           /\ sender.stage # "idle" /\ number > ledger.highwater /\ deferred = None
           /\ \A i \in Ids : jobs[i] # None => jobs[i].op # "transfer_abort"
           /\ \A i \in Ids : Open(ledger, i) => ledger.entries[i].task.op # "transfer_abort"
  <1> DEFINE h == ledger.highwater
  <1>1. number \in Nat /\ h \in Nat /\ \A i \in Ids : Holds(ledger, i) => i <= h
    BY Numbers
  <1>2. /\ m \in Inward /\ Subject(m) <= number /\ m.task.id = h + 1 /\ m.task.event = sender.event
        /\ m.task.op = "transfer_abort" <=> m.task.id = number /\ sender.stage = "abort"
    BY HeadFacts
  <1>3. m.task \in Task /\ m.task.id <= number
    BY <1>2, InwardFacts DEF Fresh, Subject
  <1>4. number > h
    BY <1>1, <1>2, <1>3
  <1>5. sender.stage # "idle"
    BY <1>1, <1>4 DEF TurnOK, WorkOK
  <1>6. deferred = None
    <2>1. deferred # None => deferred.abort = number /\ deferred.abort \in Ids /\ Holds(ledger, deferred.abort)
      BY DEF TurnOK, WorkOK, IInv, ReceiverOK, DeferredOK, Open
    <2> QED BY <1>1, <1>4, <2>1
  <1>7. ASSUME NEW i \in Ids, jobs[i] # None, jobs[i].op = "transfer_abort" PROVE FALSE
    <2>1. i = number /\ i <= h
      BY <1>7, JobFacts DEF TurnOK, WorkOK, Alone, IInv
    <2> QED BY <1>1, <1>4, <2>1
  <1>8. ASSUME NEW i \in Ids, Open(ledger, i), ledger.entries[i].task.op = "transfer_abort" PROVE FALSE
    <2>1. jobs[i] # None
      BY <1>6, <1>8 DEF TurnOK, WorkOK
    <2> QED BY <2>1, <1>7, <1>8, JobFacts DEF IInv
  <1> QED BY <1>2, <1>3, <1>4, <1>5, <1>6, <1>7, <1>8

(* A new task leaves the queue in step, and every answer that was on its    *)
(* way is about an earlier one.                                             *)
LEMMA NewTurn ==
    ASSUME IInv, TurnOK, toReceiver # <<>>, toReceiver' = Tail(toReceiver), UNCHANGED outward,
           NEW m, m = Head(toReceiver), Fresh(m), NEW id, id = m.task.id,
           LedgerOK(ledger'), ledger'.highwater = id,
           \A j \in Ids \ {id} :
                 \/ ledger'.entries[j] = ledger.entries[j]
                 \/ ledger'.entries[j] = None /\ (Holds(ledger, j) => Terminal(ledger.entries[j].status)),
           NEW ms \in Seq(Timely'), Len(ms) <= 3, Answer(ms)
    PROVE  QueueOK' /\ toSender' \in Seq(Timely')
  <1>1. UNCHANGED <<sender, number>>
    BY DEF outward
  <1>2. \A i \in Ids : Holds(ledger', i) =>
               \/ Holds(ledger, i) /\ ledger'.entries[i].task = ledger.entries[i].task
               \/ Fresh(m) /\ i = m.task.id
    BY DEF Holds
  <1>3. ledger'.highwater = IF Fresh(m) THEN m.task.id ELSE ledger.highwater
    OBVIOUS
  <1>4. QueueOK'
    BY <1>1, <1>2, <1>3, TailQueue
  <1>5. number > ledger.highwater /\ ledger.highwater <= ledger'.highwater
    BY FreshFacts, Numbers
  <1>6. toSender' \in Seq(Timely')
    BY <1>1, <1>5, AnswerTimely
  <1> QED BY <1>4, <1>6

(* What is left of a task that finds its slot taken.                        *)
LEMMA BusyLedger ==
    ASSUME LedgerOK(ledger), OneLive(ledger), NEW task \in Task, task.id = ledger.highwater + 1,
           NEW b, b = EnterBusy(ledger, task)
    PROVE  /\ LedgerOK(b) /\ b.highwater = task.id
           /\ \A j \in Ids \ {task.id} :
                 \/ b.entries[j] = ledger.entries[j]
                 \/ b.entries[j] = None /\ (Holds(ledger, j) => Terminal(ledger.entries[j].status))
           /\ Holds(b, task.id) /\ Terminal(b.entries[task.id].status)
           /\ b.entries[task.id].status.state # "succeeded"
  BY EnterBusyFacts

LEMMA BusyTurn ==
    ASSUME IInv, TurnOK, toReceiver # <<>>, toReceiver' = Tail(toReceiver), UNCHANGED outward,
           NEW m, m = Head(toReceiver), Fresh(m), NEW task, task = m.task,
           Verdict(ledger, task) = "busy",
           ledger' = Admitted(ledger, task), Answer(<<Report(ledger'.entries[task.id].status)>>),
           UNCHANGED <<staging, jobs, deferred>>
    PROVE  TurnOK'
  <1> DEFINE id == task.id
             s == ledger'.entries[id].status
  <1>1. /\ task \in Task /\ id = ledger.highwater + 1 /\ id <= number /\ id \in Ids
        /\ task.op = "transfer_abort" <=> id = number /\ sender.stage = "abort"
        /\ sender.stage # "idle" /\ number > ledger.highwater /\ deferred = None
        /\ \A i \in Ids : jobs[i] # None => jobs[i].op # "transfer_abort"
        /\ \A i \in Ids : Open(ledger, i) => ledger.entries[i].task.op # "transfer_abort"
    BY FreshFacts DEF Task
  <1>2. LedgerOK(ledger) /\ OneLive(ledger) /\ number \in Nat /\ Ids \subseteq Nat
    BY Numbers DEF IInv, ReceiverOK
  <1>3. ledger' = EnterBusy(ledger, task) /\ Live(ledger, Slot(task.op)) # {}
    BY DEF Admitted, Verdict
  <1>4. task.op # "transfer_abort"
    BY <1>1, <1>3 DEF Live, Slot, Open
  <1>5. /\ LedgerOK(ledger') /\ ledger'.highwater = id
        /\ \A j \in Ids \ {id} :
              \/ ledger'.entries[j] = ledger.entries[j]
              \/ ledger'.entries[j] = None /\ (Holds(ledger, j) => Terminal(ledger.entries[j].status))
        /\ Holds(ledger', id) /\ Terminal(s) /\ s.state # "succeeded"
    <2> DEFINE b == EnterBusy(ledger, task)
    <2>1. task \in Task /\ task.id = ledger.highwater + 1
      BY <1>1
    <2>2. /\ LedgerOK(b) /\ b.highwater = task.id
          /\ \A j \in Ids \ {task.id} :
                \/ b.entries[j] = ledger.entries[j]
                \/ b.entries[j] = None /\ (Holds(ledger, j) => Terminal(ledger.entries[j].status))
          /\ Holds(b, task.id) /\ Terminal(b.entries[task.id].status)
          /\ b.entries[task.id].status.state # "succeeded"
      BY <2>1, <1>2, BusyLedger
    <2>3. ledger' = b
      BY <1>3
    <2> HIDE DEF b
    <2> QED BY <2>2, <2>3
  <1>6. UNCHANGED <<sender, number>>
    BY DEF outward
  <1>7. ~(id = number /\ sender.stage = "abort")
    BY <1>1, <1>4
  <1> HIDE DEF id
  <1>8. \A i \in Ids : Open(ledger', i) =>
            Open(ledger, i) /\ ledger'.entries[i].task = ledger.entries[i].task
    BY <1>5 DEF Open, Holds
  <1>9. WorkOK'
    <2>1. Belongs(staging) /\ \A i \in Ids : jobs[i] # None =>
              jobs[i].payload = sender.event /\ Belongs(jobs[i].held)
      BY DEF TurnOK, WorkOK
    <2>2. \A i \in Ids : Open(ledger', i) =>
              staging = None /\ ledger'.entries[i].task.op # "transfer_abort"
      BY <1>1, <1>8 DEF TurnOK, WorkOK
    <2> QED BY <1>1, <1>6, <2>1, <2>2 DEF WorkOK, Belongs
  <1>10. EndOK'
    <2>1. \A i \in Ids : Holds(ledger', i) => i <= id
      BY <1>5 DEF LedgerOK, Filed
    <2>2. number \in Ids
      BY <1>1 DEF IInv, SenderOK
    <2>3. number <= id => number = id
      BY <1>1, <1>2
    <2> QED BY <1>5, <1>6, <1>7, <2>1, <2>2, <2>3 DEF EndOK
  <1>11. Report(s) \in Timely'
    <2>0. ledger'.highwater = id /\ id \in Nat
      BY <1>1, <1>2, <1>5
    <2>1. s \in Status /\ s.id = id
      BY <1>1, <1>5, EntryFacts DEF LedgerOK, Filed
    <2>2. ASSUME NEW t \in Status, t.id = id, t.state # "succeeded"
          PROVE  Report(t) \in Timely'
      <3>1. Report(t).kind = "status" /\ Report(t).status = t /\ Report(t) \in Outward
        BY DEF Report, Outward
      <3>2. ~Over(Report(t))'
        <4>1. Over(Report(t))' =>
                  t.id = number /\ (sender.stage = "abort" \/ t.state = "succeeded")
          BY <1>6, <3>1 DEF Over
        <4> QED BY <4>1, <1>7, <2>2
      <3>3. t.id <= ledger'.highwater
        BY <2>0, <2>2
      <3> QED BY <3>1, <3>2, <3>3 DEF Timely, Outward
    <2>3. s.state # "succeeded"
      BY <1>5
    <2> HIDE DEF s
    <2> QED BY <2>1, <2>2, <2>3
  <1>12. <<Report(s)>> \in Seq(Timely') /\ Len(<<Report(s)>>) <= 3 /\ Answer(<<Report(s)>>)
    <2> DEFINE report == Report(s)
    <2>1. Answer(<<report>>)
      BY DEF id
    <2>2. report \in Timely'
      BY <1>11
    <2> HIDE DEF report
    <2>3. <<report>> \in Seq(Timely') /\ Len(<<report>>) <= 3
      BY <2>2
    <2> QED BY <2>1, <2>3 DEF report
  <1>13. QueueOK' /\ toSender' \in Seq(Timely')
    <2> DEFINE ms == <<Report(s)>>
    <2>1. ms \in Seq(Timely') /\ Len(ms) <= 3 /\ Answer(ms) /\ id = m.task.id
      BY <1>12 DEF id
    <2> HIDE DEF ms
    <2> QED BY <2>1, <1>5, NewTurn
  <1> QED BY <1>9, <1>10, <1>13 DEF TurnOK

(* The ledger that runs a new task.                                         *)
LEMMA StartedLedger ==
    ASSUME LedgerOK(ledger), OneLive(ledger), NEW task \in Task, task.id = ledger.highwater + 1,
           Live(ledger, Slot(task.op)) = {}, NEW q, q = Enter(ledger, task),
           NEW m, m = Update(q, task.id, "own")
    PROVE  /\ LedgerOK(m) /\ Open(m, task.id) /\ m.entries[task.id].task = task
           /\ \A j \in Ids \ {task.id} :
                 \/ m.entries[j] = ledger.entries[j]
                 \/ m.entries[j] = None /\ (Holds(ledger, j) => Terminal(ledger.entries[j].status))
  BY QueuedFacts

(* A new task that is started is open, under its own number.                *)
LEMMA StartedFacts ==
    ASSUME LedgerOK(ledger), OneLive(ledger), NEW task \in Task,
           Verdict(ledger, task) = "start", StartTask(task)
    PROVE  /\ LedgerOK(ledger') /\ ledger'.highwater = task.id
           /\ Open(ledger', task.id) /\ ledger'.entries[task.id].task = task
           /\ \A j \in Ids \ {task.id} :
                 \/ ledger'.entries[j] = ledger.entries[j]
                 \/ ledger'.entries[j] = None /\ (Holds(ledger, j) => Terminal(ledger.entries[j].status))
  <1> DEFINE queued == Admitted(ledger, task)
             running == Update(queued, task.id, "own")
             pending == Update(running, task.id, "cancellation_pending")
  <1>1. /\ task.id = ledger.highwater + 1 /\ task.id \in Ids
        /\ Live(ledger, Slot(task.op)) = {}
    BY VerdictFacts DEF LedgerOK
  <1>2. queued = Enter(ledger, task)
    BY DEF Admitted
  <1>3. ledger' \in {running, pending}
    BY DEF StartTask
  <1> QED BY <1>1, <1>2, <1>3, QueuedFacts

(* What a new task that goes on leaves the transfer with.                   *)
LEMMA StartTurn ==
    ASSUME IInv, IInv', TurnOK, toReceiver # <<>>, toReceiver' = Tail(toReceiver), UNCHANGED outward,
           NEW m, m = Head(toReceiver), Fresh(m), NEW task, task = m.task,
           Verdict(ledger, task) = "start", StartTask(task)
    PROVE  TurnOK'
  <1> DEFINE id == task.id
             queued == Admitted(ledger, task)
             running == Update(queued, id, "own")
             pending == Update(running, id, "cancellation_pending")
             told(l) == Report(l.entries[id].status)
  <1>1. /\ task \in Task /\ id = ledger.highwater + 1 /\ id <= number /\ id \in Ids
        /\ task.op = "transfer_abort" <=> id = number /\ sender.stage = "abort"
        /\ task.event = sender.event
        /\ sender.stage # "idle" /\ number > ledger.highwater /\ deferred = None
        /\ \A i \in Ids : jobs[i] # None => jobs[i].op # "transfer_abort"
        /\ \A i \in Ids : Open(ledger, i) => ledger.entries[i].task.op # "transfer_abort"
    BY FreshFacts DEF Task
  <1>2. /\ LedgerOK(ledger) /\ OneLive(ledger) /\ number \in Nat /\ Ids \subseteq Nat
        /\ staging \in Stagings /\ jobs \in [Ids -> Jobs \cup {None}] /\ ledger \in Ledgers
    BY Numbers DEF IInv, ReceiverOK, JobsOK
  <1>3. queued = Enter(ledger, task) /\ Live(ledger, Slot(task.op)) = {}
    <2>1. queued = Enter(ledger, task)
      BY DEF Admitted
    <2>2. Live(ledger, Slot(task.op)) = {}
      BY <1>1, <1>2, VerdictFacts
    <2> QED BY <2>1, <2>2
  <1>4. /\ LedgerOK(queued) /\ Open(queued, id)
    BY <1>1, <1>2, <1>3, EnterFacts
  <1>5. /\ LedgerOK(running) /\ Open(running, id)
        /\ running.entries[id].task = task
        /\ \A j \in Ids \ {id} :
              \/ running.entries[j] = ledger.entries[j]
              \/ running.entries[j] = None /\ (Holds(ledger, j) => Terminal(ledger.entries[j].status))
    <2>1. /\ task \in Task /\ task.id = ledger.highwater + 1 /\ LedgerOK(ledger) /\ OneLive(ledger)
          /\ queued = Enter(ledger, task) /\ Live(ledger, Slot(task.op)) = {}
      BY <1>1, <1>2, <1>3
    <2>2. running = Update(queued, id, "own")
      OBVIOUS
    <2> HIDE DEF queued, running
    <2> QED BY <2>1, <2>2, StartedLedger
  <1>6. /\ LedgerOK(pending) /\ Follows(running, pending, id) /\ Open(pending, id)
        /\ pending.entries[id].task = task
    <2> HIDE DEF running
    <2> QED BY <1>1, <1>5, UpdateFacts
  <1>7. /\ LedgerOK(ledger') /\ ledger'.highwater = id
        /\ Open(ledger', id) /\ ledger'.entries[id].task = task
        /\ \A j \in Ids \ {id} :
              \/ ledger'.entries[j] = ledger.entries[j]
              \/ ledger'.entries[j] = None /\ (Holds(ledger, j) => Terminal(ledger.entries[j].status))
    BY <1>1, <1>2, StartedFacts
  <1>8. UNCHANGED <<sender, number>>
    BY DEF outward
  <1>9. told(queued) \in Timely' /\ told(running) \in Timely' /\ told(pending) \in Timely'
    <2> SUFFICES ASSUME NEW l \in {queued, running, pending} PROVE told(l) \in Timely'
      OBVIOUS
    <2> HIDE DEF queued, running, pending
    <2>1. LedgerOK(l) /\ Open(l, id)
      BY <1>4, <1>5, <1>6
    <2>2. l.entries[id].status \in Status /\ l.entries[id].status.id = id
      BY <2>1, <1>1, EntryFacts DEF LedgerOK, Filed, Open
    <2> QED BY <2>1, <2>2, <1>1, <1>7, OpenTimely DEF Open
  <1>10. ASSUME NEW ms \in Seq(Timely'), Len(ms) <= 3, Answer(ms)
         PROVE  QueueOK' /\ toSender' \in Seq(Timely')
    BY <1>7, <1>10, NewTurn
  <1>11. \A i \in Ids : Open(ledger', i) /\ i # id =>
            Open(ledger, i) /\ ledger'.entries[i].task = ledger.entries[i].task
    BY <1>7 DEF Open, Holds
  <1>12. EndOK'
    <2>1. \A i \in Ids : Holds(ledger', i) => i <= id
      BY <1>7 DEF LedgerOK, Filed
    <2>2. number \in Ids
      BY <1>1 DEF IInv, SenderOK
    <2>3. number <= id => number = id
      <3>1. id \in Nat /\ id <= number
        BY <1>1, <1>2
      <3> HIDE DEF id
      <3> QED BY <3>1, <1>2
    <2>4. Open(ledger', id) => ledger'.entries[id].status.state # "succeeded"
      BY DEF Open, Terminal
    <2> QED BY <1>7, <1>8, <2>1, <2>2, <2>3, <2>4 DEF EndOK
  <1>13. Belongs(staging) /\ \A i \in Ids : jobs[i] # None =>
             jobs[i].payload = sender.event /\ Belongs(jobs[i].held)
    BY DEF TurnOK, WorkOK
  <1>14. CASE MustWait(running, task)
    <2>1. /\ ledger' = pending
          /\ deferred' = [abort |-> id, event |-> task.event,
                          task |-> CHOOSE i \in ActiveTransfer(running) : TRUE]
          /\ UNCHANGED <<jobs, staging>>
          /\ Answer(<<told(queued), told(running), told(pending)>>)
      BY <1>14 DEF StartTask
    <2>2. task.op = "transfer_abort" /\ ActiveTransfer(running) # {}
      BY <1>14 DEF MustWait
    <2>3. id = number /\ sender.stage = "abort"
      BY <1>1, <2>2
    <2>4. QueueOK' /\ toSender' \in Seq(Timely')
      <3> DEFINE ms == <<told(queued), told(running), told(pending)>>
      <3> HIDE DEF queued, running, pending, told
      <3>1. ms \in Seq(Timely') /\ Len(ms) <= 3 /\ Answer(ms)
        BY <1>9, <2>1
      <3> HIDE DEF ms
      <3> QED BY <3>1, <1>10
    <2> HIDE DEF queued, running, pending, id
    <2>5. PICK i \in ActiveTransfer(running) : deferred'.task = i
      BY <2>1, <2>2
    <2>6. i \in Ids /\ i # id /\ Open(running, i) /\ running.entries[i].task.op # "transfer_abort"
      BY <2>2, <2>5, <1>5 DEF ActiveTransfer, Live, Open, Slot
    <2>7. staging = None
      <3>1. Open(ledger, i)
        BY <2>6, <1>5 DEF Open, Holds
      <3> QED BY <3>1, <2>6 DEF TurnOK, WorkOK
    <2>8. i \in ActiveTransfer(ledger')
      <3>1. pending.entries[i] = running.entries[i]
        BY <2>6, <1>6 DEF Follows, Open
      <3> QED BY <3>1, <2>1, <2>5, <2>6 DEF ActiveTransfer, Live, Holds
    <2>9. deferred' # None /\ deferred'.abort = id /\ deferred'.event = sender.event
      <3>1. deferred'.event = sender.event /\ deferred'.abort = id
        BY <2>1, <1>1
      <3>2. deferred' \in Deferrals
        BY <2>1, <2>5, <2>6, <1>1 DEF Deferrals, Task
      <3> QED BY <3>1, <3>2, AbsenceAssumption
    <2>10. \A j \in Ids : Open(ledger', j) /\ ledger'.entries[j].task.op = "transfer_abort" => j = id
      BY <1>1, <1>11
    <2>11. WorkOK'
      BY <1>1, <1>8, <1>13, <2>1, <2>3, <2>5, <2>7, <2>8, <2>9, <2>10 DEF WorkOK, Belongs
    <2> QED BY <1>12, <2>4, <2>11 DEF TurnOK
  <1>15. CASE ~MustWait(running, task)
    <2>1. /\ ledger' = running
          /\ jobs' = [jobs EXCEPT ![id] = Start(task)] /\ staging' = None /\ UNCHANGED deferred
          /\ Answer(<<told(queued), told(running)>>)
      BY <1>15 DEF StartTask
    <2>2. QueueOK' /\ toSender' \in Seq(Timely')
      <3> DEFINE ms == <<told(queued), told(running)>>
      <3> HIDE DEF queued, running, pending, told
      <3>1. ms \in Seq(Timely') /\ Len(ms) <= 3 /\ Answer(ms)
        BY <1>9, <2>1
      <3> HIDE DEF ms
      <3> QED BY <3>1, <1>10
    <2>3. /\ Start(task) \in Jobs /\ Start(task).op = task.op /\ Start(task).step = "running"
          /\ Start(task).payload = task.event
      BY <1>2, StartJob, <1>1
    <2>4. Start(task).held = staging
      BY DEF Start, Job
    <2>5. task.op = "transfer_abort" => ActiveTransfer(running) = {}
      BY <1>15 DEF MustWait
    <2> HIDE DEF queued, running, pending, id
    <2>6. jobs'[id] = Start(task) /\ jobs'[id] # None /\ \A i \in Ids \ {id} : jobs'[i] = jobs[i]
      BY <1>1, <1>2, <2>1, <2>3, AbsenceAssumption
    <2>7. \A i \in Ids : Open(ledger', i) /\ ledger'.entries[i].task.op = "transfer_abort" => i = id
      BY <1>1, <1>11
    <2>8. ASSUME NEW i \in Ids, jobs'[i] # None
          PROVE  /\ jobs'[i].payload = sender.event /\ Belongs(jobs'[i].held)
                 /\ jobs'[i].op = "transfer_abort" =>
                        /\ i = number /\ sender.stage = "abort" /\ deferred = None
                        /\ \A j \in Ids \ {i} : jobs'[j] = None
                        /\ jobs'[i].step \notin {"applied", "reading"}
                        /\ jobs'[i].step = "ok" => jobs'[i].held = None
      <3>1. CASE i = id
        <4>1. ASSUME task.op = "transfer_abort", NEW j \in Ids \ {id}, jobs'[j] # None
              PROVE  FALSE
          <5>1. jobs[j] # None /\ Open(ledger, j)
            BY <4>1, <2>6, JobFacts DEF IInv
          <5>2. Open(ledger', j)
            BY <4>1 DEF IInv, ReceiverOK, JobsOK
          <5>3. ledger'.entries[j].task.op # "transfer_abort"
            BY <5>1, <5>2, <4>1, <1>1, <1>11
          <5>4. j \in ActiveTransfer(ledger')
            BY <5>2, <5>3 DEF ActiveTransfer, Live, Open, Slot
          <5> QED BY <5>4, <4>1, <2>1, <2>5
        <4> QED BY <3>1, <4>1, <1>1, <1>13, <2>3, <2>4, <2>6 DEF id
      <3>2. CASE i # id
        BY <3>2, <2>6, <2>8, <1>1, <1>13
      <3> QED BY <3>1, <3>2
    <2>9. WorkOK'
      BY <1>1, <1>8, <2>1, <2>6, <2>7, <2>8 DEF WorkOK, Belongs, Alone
    <2> QED BY <1>12, <2>2, <2>9 DEF TurnOK
  <1> QED BY <1>14, <1>15

LEMMA TakeTurn ==
    ASSUME IInv, IInv', TurnOK, Take
    PROVE  TurnOK'
  <1> DEFINE m == Head(toReceiver)
             h == ledger.highwater
  <1>1. /\ m \in Inward /\ Subject(m) <= number
        /\ Subject(m) > h => Fresh(m)
        /\ m.kind = "submit" /\ Holds(ledger, m.task.id) => ledger.entries[m.task.id].task = m.task
    BY HeadFacts DEF Take
  <1>2. toReceiver # <<>> /\ toReceiver' = Tail(toReceiver) /\ UNCHANGED outward
    BY DEF Take
  <1>3. h \in Nat /\ Ids \subseteq Nat /\ LedgerOK(ledger) /\ ledger \in Ledgers
        /\ \A i \in Ids : Holds(ledger, i) => i <= h
    BY Numbers
  <1>4. Subject(m) \in Nat /\ Subject(m) \in Ids
    BY <1>1, <1>3, SubjectFacts
  <1>5. ~Fresh(m) => Subject(m) <= h
    BY <1>1, <1>3, <1>4
  <1>6. CASE m.kind = "submit"
    <2> DEFINE task == m.task
    <2>1. task \in Task /\ TakeSubmit(task) /\ Subject(m) = task.id
      BY <1>1, <1>6, InwardFacts DEF Take, Subject
    <2>2. CASE Fresh(m)
      <3>1. task.id = h + 1
        BY <1>2, <2>2, FreshFacts
      <3>2. ~Holds(ledger, task.id) /\ ~(task.id <= h)
        BY <1>3, <1>4, <2>1, <3>1
      <3>3. Verdict(ledger, task) \in {"start", "busy"}
        BY <3>1, <3>2 DEF Verdict
      <3>4. CASE Verdict(ledger, task) = "start"
        <4>1. StartTask(task)
          BY <2>1, <3>4 DEF TakeSubmit
        <4> QED BY <4>1, <1>2, <2>2, <3>4, StartTurn
      <3>5. CASE Verdict(ledger, task) = "busy"
        <4>1. /\ ledger' = Admitted(ledger, task)
              /\ Answer(<<Report(ledger'.entries[task.id].status)>>)
              /\ UNCHANGED <<staging, jobs, deferred>>
          BY <2>1, <3>5 DEF TakeSubmit
        <4> QED BY <4>1, <1>2, <2>2, <3>5, BusyTurn
      <3> QED BY <3>3, <3>4, <3>5
    <2>3. CASE ~Fresh(m)
      <3>1. task.id <= h /\ task.id \in Ids
        BY <1>4, <1>5, <2>1, <2>3
      <3>2. UNCHANGED <<sender, number>>
        BY <1>2 DEF outward
      <3>3. CASE Holds(ledger, task.id)
        <4>1. Verdict(ledger, task) = "replay"
          BY <1>1, <1>6, <3>3 DEF Verdict
        <4>2. /\ ledger' = ledger /\ UNCHANGED <<staging, jobs, deferred>>
              /\ Answer(<<Report(ledger.entries[task.id].status)>>)
          <5>1. Admitted(ledger, task) = ledger
            BY <4>1 DEF Admitted
          <5>2. /\ ledger' = Admitted(ledger, task)
                /\ Answer(<<Report(ledger'.entries[task.id].status)>>)
                /\ UNCHANGED <<staging, jobs, deferred>>
            BY <2>1, <4>1 DEF TakeSubmit
          <5> QED BY <5>1, <5>2
        <4> HIDE DEF task
        <4>3. Report(ledger.entries[task.id].status) \in Timely
          BY <3>1, <3>3, HeldTimely
        <4> QED BY <4>2, <4>3, <1>2, <2>3, <3>2, QuietTurn
      <3>4. CASE ~Holds(ledger, task.id)
        <4>1. Verdict(ledger, task) = "retired"
          BY <3>1, <3>4 DEF Verdict
        <4>2. Answer(<<Refusal(task.id, "retired")>>) /\ UNCHANGED <<ledger, staging, jobs, deferred>>
          BY <2>1, <4>1 DEF TakeSubmit, inward
        <4> HIDE DEF task
        <4>3. Refusal(task.id, "retired") \in Timely
          BY <3>1, <3>4, RefusalTimely
        <4> QED BY <4>2, <4>3, <1>2, <2>3, <3>2, QuietTurn
      <3> QED BY <3>3, <3>4
    <2> QED BY <2>2, <2>3
  <1>7. CASE m.kind \in {"get", "cancel"}
    <2>1. Subject(m) = m.id /\ ~Fresh(m) /\ m.id \in Ids /\ m.id <= h
      BY <1>4, <1>5, <1>7 DEF Subject, Fresh
    <2>2. CASE TakeGet(m.id)
      BY <2>1, <2>2, <1>2, GetTurn
    <2>3. CASE m.kind = "cancel" /\ TakeCancel(m.id) /\ jobs[m.id] # None
      BY <2>1, <2>3, <1>2, CancelTurn
    <2>4. CASE m.kind = "cancel" /\ TakeCancel(m.id) /\ jobs[m.id] = None
      <3>1. TakeGet(m.id)
        BY <2>4 DEF TakeCancel
      <3> QED BY <3>1, <2>2
    <2> QED BY <1>7, <2>2, <2>3, <2>4 DEF Take
  <1> QED BY <1>1, <1>6, <1>7, InwardFacts
-----------------------------------------------------------------------------

(* The ledger moves on with what it holds; the queue is as it was.          *)
LEMMA SameQueue ==
    ASSUME TurnOK, UNCHANGED <<sender, number, toReceiver>>,
           ledger'.highwater = ledger.highwater, IInv,
           \A i \in Ids : Holds(ledger', i) =>
               Holds(ledger, i) /\ ledger'.entries[i].task = ledger.entries[i].task
    PROVE  QueueOK'
  <1>1. \A k \in DOMAIN toReceiver : toReceiver[k].kind = "submit" => toReceiver[k].task.id \in Ids
    BY Numbers, InwardFacts DEF Task
  <1> QED BY <1>1 DEF TurnOK, QueueOK, Fresh, Subject

(* What a polled job can rely on: its transfer is in progress, and no other *)
(* task of it is open but an abort that waits.                              *)
LEMMA PolledFacts ==
    ASSUME IInv, DeliveryOK, TurnOK, NEW id \in Ids, jobs[id] # None
    PROVE  /\ staging = None /\ sender.stage # "idle" /\ ~Clean
           /\ \A j \in Ids \ {id} : jobs[j] = None
           /\ deferred # None =>
                 /\ jobs[id].op # "transfer_abort" /\ deferred.task = id /\ deferred.abort # id
                 /\ deferred.abort = number /\ sender.stage = "abort"
                 /\ deferred.event = sender.event
           /\ \A j \in Ids \ {id} : Open(ledger, j) =>
                 \/ deferred # None /\ deferred.abort = j
                 \/ /\ jobs[id].op = "transfer_abort"
                    /\ ledger.entries[j].task.op # "transfer_abort"
           /\ id = number => jobs[id].op = Op(sender.stage)
           /\ jobs[id].op = "transfer_abort" =>
                 id = number /\ sender.stage = "abort" /\ (jobs[id].step = "ok" => jobs[id].held = None)
           /\ Belongs(jobs[id].held)
  <1>1. Open(ledger, id) /\ ledger.entries[id].task.op = jobs[id].op /\ OneLive(ledger)
    BY JobFacts DEF IInv, ReceiverOK
  <1>2. staging = None /\ ~Clean /\ sender.stage # "idle"
    BY <1>1 DEF TurnOK, WorkOK, Clean
  <1>3. jobs[id].op # "transfer_abort" => id \in ActiveTransfer(ledger)
    BY <1>1 DEF ActiveTransfer, Live, Open, Slot
  <1>4. \A i, j \in ActiveTransfer(ledger) : i = j
    BY <1>1 DEF OneLive, ActiveTransfer
  <1>5. deferred # None =>
            /\ deferred.abort = number /\ sender.stage = "abort" /\ deferred.event = sender.event
            /\ deferred.task \in ActiveTransfer(ledger) /\ jobs[deferred.abort] = None
    BY DEF TurnOK, WorkOK, IInv, ReceiverOK, DeferredOK
  <1>6. jobs[id].op = "transfer_abort" => Alone(id)
    BY DEF TurnOK, WorkOK
  <1>7. ASSUME NEW j \in Ids \ {id}, jobs[j] # None PROVE FALSE
    <2>1. jobs[id].op # "transfer_abort"
      BY <1>6, <1>7 DEF Alone
    <2>2. jobs[j].op # "transfer_abort"
      BY <1>7 DEF TurnOK, WorkOK, Alone
    <2>3. j \in ActiveTransfer(ledger)
      <3>1. Open(ledger, j) /\ ledger.entries[j].task.op = jobs[j].op
        BY <1>7, JobFacts DEF IInv
      <3> QED BY <2>2, <3>1 DEF ActiveTransfer, Live, Open, Slot
    <2> QED BY <2>1, <2>3, <1>3, <1>4, <1>7
  <1>8. ASSUME NEW j \in Ids \ {id}, Open(ledger, j)
        PROVE  \/ deferred # None /\ deferred.abort = j
               \/ /\ jobs[id].op = "transfer_abort"
                  /\ ledger.entries[j].task.op # "transfer_abort"
    <2>1. CASE ledger.entries[j].task.op = "transfer_abort"
      BY <2>1, <1>7, <1>8 DEF TurnOK, WorkOK
    <2>2. CASE ledger.entries[j].task.op # "transfer_abort"
      <3>1. j \in ActiveTransfer(ledger)
        BY <2>2, <1>8 DEF ActiveTransfer, Live, Open, Slot
      <3>2. jobs[id].op = "transfer_abort"
        BY <3>1, <1>3, <1>4, <1>8
      <3> QED BY <2>2, <3>2
    <2> QED BY <2>1, <2>2
  <1>9. id = number => jobs[id].op = Op(sender.stage)
    <2>1. Sent(ledger.entries[id].task) /\ ledger.entries[id].task.id = id
      BY <1>1, Numbers DEF DeliveryOK, LedgerTrue, EntryTrue, Open, LedgerOK, Filed
    <2> QED BY <2>1, <1>1, <1>2 DEF Sent
  <1>10. deferred # None => jobs[id].op # "transfer_abort" /\ deferred.task = id /\ deferred.abort # id
    BY <1>3, <1>4, <1>5, <1>6 DEF Alone
  <1> QED BY <1>2, <1>5, <1>6, <1>7, <1>8, <1>9, <1>10 DEF Alone, TurnOK, WorkOK

(* A commit that stays open changes nothing about who works on what.        *)
LEMMA OpenPollTurn ==
    ASSUME IInv, IInv', DeliveryOK, TurnOK, NEW id \in Ids, Poll(id), jobs[id] # None, Left(jobs[id])
    PROVE  TurnOK'
  <1> DEFINE job == jobs[id]
             next == Noted(id)
             after == Deferred(next, staging)
             moved == IF MustRead(job) THEN Reading(job) ELSE None
  <1>1. /\ jobs' = [jobs EXCEPT ![id] = moved]
        /\ ledger' = after.ledger /\ staging' = after.staging /\ deferred' = after.deferred
        /\ Answer(<<Report(next.entries[id].status)>> \o after.told)
        /\ UNCHANGED <<sender, number, toReceiver>>
    BY DEF Poll, Noted, Left, outward
  <1>2. /\ LedgerOK(next) /\ Follows(ledger, next, id) /\ Open(next, id)
        /\ next.entries[id].task = ledger.entries[id].task
    BY NotedFacts DEF IInv
  <1>3. /\ job \in Jobs /\ Open(ledger, id) /\ LedgerOK(ledger) /\ OneLive(ledger)
        /\ jobs \in [Ids -> Jobs \cup {None}] /\ job.payload = sender.event
        /\ ledger.entries[id].task.op = job.op
    BY JobFacts DEF IInv, ReceiverOK, JobsOK, TurnOK, WorkOK
  <1>4. job.op = "transfer_commit"
    BY DEF Left, MustRead, Undecided, Durable
  <1>5. /\ staging = None /\ sender.stage # "idle" /\ ~Clean
        /\ \A j \in Ids \ {id} : jobs[j] = None
        /\ deferred # None => deferred.task = id /\ deferred.abort # id
                 /\ deferred.abort = number /\ sender.stage = "abort"
                 /\ deferred.event = sender.event
    BY PolledFacts
  <1> HIDE DEF next
  <1>6. ledger' = next /\ staging' = None /\ deferred' = deferred /\ after.told = <<>>
    <2>1. deferred = None \/ ~(Holds(next, deferred.task) /\ Terminal(next.entries[deferred.task].status))
      BY <1>2, <1>5 DEF Open
    <2>2. after = [ledger |-> next, staging |-> staging, deferred |-> deferred, told |-> <<>>]
      BY <2>1 DEF Deferred
    <2> QED BY <2>2, <1>1, <1>5
  <1>7. moved \in Jobs \cup {None} /\ (moved # None => moved.op = job.op /\ moved.payload = job.payload
                                                      /\ moved.held = None)
    BY <1>3, ReadingFacts DEF Reading, Job
  <1> HIDE DEF moved, after
  <1>8. jobs'[id] = moved /\ \A j \in Ids \ {id} : jobs'[j] = None
    BY <1>1, <1>3, <1>5
  <1>9. \A i \in Ids : /\ Open(next, i) <=> Open(ledger, i)
                       /\ Holds(next, i) => Holds(ledger, i) /\ next.entries[i].task = ledger.entries[i].task
                       /\ i # id /\ Holds(next, i) => next.entries[i] = ledger.entries[i]
    BY <1>2, <1>3 DEF Follows, Open, Holds
  <1>10. QueueOK'
    BY <1>1, <1>2, <1>6, <1>9, SameQueue DEF Follows
  <1>11. WorkOK'
    <2>1. \A i \in Ids : jobs'[i] # None =>
             /\ jobs'[i].payload = sender.event /\ Belongs(jobs'[i].held)
             /\ jobs'[i].op # "transfer_abort"
      BY <1>3, <1>4, <1>7, <1>8 DEF Belongs
    <2>2. deferred # None => deferred.task \in ActiveTransfer(ledger)'
      BY <1>2, <1>3, <1>4, <1>5, <1>6 DEF ActiveTransfer, Live, Open, Slot
    <2>3. ASSUME NEW i \in Ids, Open(next, i), next.entries[i].task.op = "transfer_abort"
          PROVE  deferred # None /\ deferred.abort = i
      <3>1. i # id /\ Open(ledger, i)
        BY <1>2, <1>3, <1>4, <1>9, <2>3
      <3> QED BY <3>1, <1>4, PolledFacts
    <2> QED BY <1>1, <1>5, <1>6, <2>1, <2>2, <2>3 DEF WorkOK, Belongs
  <1>12. EndOK'
    <2>1. number \in Ids
      BY <1>5 DEF IInv, SenderOK
    <2>2. ~(sender.stage = "abort" /\ number <= next.highwater /\ ~Open(next, number))
      BY <2>1, <1>2, <1>5, <1>9 DEF Follows, TurnOK, EndOK
    <2>3. ~(sender.stage = "commit" /\ Holds(next, number)
            /\ next.entries[number].status.state = "succeeded")
      <3>1. number = id => next.entries[number].status.state # "succeeded"
        BY <1>2 DEF Open, Terminal
      <3> QED BY <3>1, <2>1, <1>5, <1>9 DEF TurnOK, EndOK
    <2> QED BY <1>1, <1>6, <2>2, <2>3 DEF EndOK
  <1>13. Report(next.entries[id].status) \in Timely'
    <2>1. next.entries[id].status \in Status /\ next.entries[id].status.id = id
      BY <1>2, EntryFacts DEF LedgerOK, Filed, Open
    <2> QED BY <2>1, <1>2, <1>6, OpenTimely DEF Open
  <1>14. toSender' \in Seq(Timely')
    <2> DEFINE ms == <<Report(next.entries[id].status)>> \o after.told
    <2>1. ms = <<Report(next.entries[id].status)>>
      BY <1>6, <1>13
    <2>2. ms \in Seq(Timely') /\ Len(ms) <= 3 /\ Answer(ms)
      <3>1. Answer(ms)
        BY <1>1
      <3> DEFINE r == Report(next.entries[id].status)
      <3> HIDE DEF ms
      <3>2. r \in Timely' /\ ms = <<r>>
        BY <1>13, <2>1
      <3> HIDE DEF r
      <3> QED BY <3>1, <3>2
    <2>3. ledger.highwater <= ledger'.highwater
      BY <1>2, <1>6, Numbers DEF Follows
    <2> HIDE DEF ms
    <2> QED BY <2>2, <2>3, <1>1, <1>2, <1>5, <1>6, AnswerTimely
  <1> QED BY <1>10, <1>11, <1>12, <1>14 DEF TurnOK

LEMMA TwoAnswers ==
    ASSUME NEW S, NEW x \in S, NEW y \in S
    PROVE  <<x>> \o <<y>> \in Seq(S) /\ Len(<<x>> \o <<y>>) = 2
  OBVIOUS

(* The deferred abort, once its task has ended: it ends too, and what the   *)
(* transfer held is dropped.                                                *)
LEMMA TriggeredFacts ==
    ASSUME NEW l, LedgerOK(l), NEW held,
           deferred # None, deferred.abort \in Ids, Open(l, deferred.abort),
           Holds(l, deferred.task), Terminal(l.entries[deferred.task].status),
           held # None => held.event = deferred.event
    PROVE  LET a == Deferred(l, held)
           IN /\ a.staging = None /\ a.deferred = None
              /\ Holds(a.ledger, deferred.abort) /\ ~Open(a.ledger, deferred.abort)
              /\ a.told = <<Report(a.ledger.entries[deferred.abort].status)>>
  <1> DEFINE d == Finish(l, deferred.abort, "succeeded")
  <1>1. Deferred(l, held) = [ledger |-> d, staging |-> None, deferred |-> None,
                             told |-> <<Report(d.entries[deferred.abort].status)>>]
    BY DEF Deferred
  <1>2. Holds(d, deferred.abort) /\ Terminal(d.entries[deferred.abort].status)
    BY FinishFacts
  <1> HIDE DEF d
  <1> QED BY <1>1, <1>2 DEF Open

(* A job that has come to its end: what it leaves is what the transfer may  *)
(* still need, and nothing at all once the transfer is over.                *)
LEMMA DonePollTurn ==
    ASSUME IInv, IInv', DeliveryOK, TurnOK, NEW id \in Ids, Poll(id), jobs[id] # None, ~Left(jobs[id])
    PROVE  TurnOK'
  <1> DEFINE job == jobs[id]
             next == Noted(id)
             held == Returned(job)
             after == Deferred(next, held)
  <1>1. /\ jobs' = [jobs EXCEPT ![id] = None]
        /\ ledger' = after.ledger /\ staging' = after.staging /\ deferred' = after.deferred
        /\ Answer(<<Report(next.entries[id].status)>> \o after.told)
        /\ UNCHANGED <<sender, number, toReceiver>>
    BY DEF Poll, Noted, Left, outward
  <1>2. /\ LedgerOK(next) /\ Follows(ledger, next, id) /\ Holds(next, id)
        /\ next.entries[id].task = ledger.entries[id].task
        /\ Terminal(next.entries[id].status)
        /\ next.entries[id].status.state = "succeeded" <=> Result(job) = "succeeded"
    BY NotedFacts DEF IInv
  <1>3. /\ job \in Jobs /\ Open(ledger, id) /\ LedgerOK(ledger) /\ LedgerOK(ledger')
        /\ jobs \in [Ids -> Jobs \cup {None}] /\ staging \in Stagings
        /\ ledger.entries[id].task.op = job.op
    BY JobFacts DEF IInv, ReceiverOK, JobsOK
  <1>4. /\ staging = None /\ sender.stage # "idle" /\ ~Clean
        /\ \A j \in Ids \ {id} : jobs[j] = None
        /\ deferred # None =>
              /\ job.op # "transfer_abort" /\ deferred.task = id /\ deferred.abort # id
              /\ deferred.abort = number /\ sender.stage = "abort"
              /\ deferred.event = sender.event
        /\ id = number => job.op = Op(sender.stage)
        /\ job.op = "transfer_abort" =>
              id = number /\ sender.stage = "abort" /\ (job.step = "ok" => job.held = None)
        /\ Belongs(job.held)
    BY PolledFacts
  <1>5. \A j \in Ids \ {id} : Open(ledger, j) =>
           \/ deferred # None /\ deferred.abort = j
           \/ /\ job.op = "transfer_abort"
              /\ ledger.entries[j].task.op # "transfer_abort"
    BY PolledFacts
  <1>6. /\ held \in Stagings /\ Belongs(held)
        /\ Durable(job) => held = None
        /\ job.op = "transfer_abort" => held = None
    <2>1. job.held \in Stagings
      BY <1>3 DEF Jobs
    <2>2. Result(job) = "succeeded" => job.step = "ok"
      BY DEF Result
    <2> QED BY <1>3, <1>4, <2>1, <2>2 DEF Returned, Belongs
  <1>7. \A j \in Ids : jobs'[j] = None
    BY <1>1, <1>3, <1>4
  <1>8. deferred # None => /\ deferred.abort \in Ids /\ Open(ledger, deferred.abort)
                           /\ ledger.entries[deferred.abort].task.op = "transfer_abort"
    BY DEF IInv, ReceiverOK, DeferredOK
  <1> HIDE DEF next, held
  <1>9. deferred # None => Open(next, deferred.abort) /\ next.entries[deferred.abort].task.op = "transfer_abort"
    <2> SUFFICES ASSUME deferred # None
                 PROVE  /\ Open(next, deferred.abort)
                        /\ next.entries[deferred.abort].task.op = "transfer_abort"
      OBVIOUS
    <2>1. deferred.abort \in Ids \ {id}
      BY <1>4, <1>8
    <2>2. next.entries[deferred.abort] = ledger.entries[deferred.abort]
      BY <2>1, <1>2, <1>8 DEF Follows, Open
    <2> QED BY <2>2, <1>8 DEF Open, Holds
  <1>10. /\ ledger'.highwater = ledger.highwater
         /\ \A i \in Ids : Open(ledger', i) => Open(next, i) /\ ledger'.entries[i] = next.entries[i]
         /\ \A i \in Ids : Holds(ledger', i) =>
                /\ Holds(next, i) /\ ledger'.entries[i].task = next.entries[i].task
                /\ ledger'.entries[i] = next.entries[i] \/ ledger'.entries[i].task.op = "transfer_abort"
         /\ deferred = None => ledger' = next /\ staging' = held /\ deferred' = None /\ after.told = <<>>
    <2>1. /\ after.ledger.highwater = next.highwater
          /\ \A i \in Ids : Open(after.ledger, i) => Open(next, i) /\ after.ledger.entries[i] = next.entries[i]
          /\ \A i \in Ids : Holds(after.ledger, i) =>
                /\ Holds(next, i) /\ after.ledger.entries[i].task = next.entries[i].task
                /\ \/ after.ledger.entries[i] = next.entries[i]
                   \/ after.ledger.entries[i].task.op = "transfer_abort"
      BY <1>2, <1>6, <1>8, <1>9, DeferredFacts
    <2>2. deferred = None => after = [ledger |-> next, staging |-> held, deferred |-> None, told |-> <<>>]
      BY DEF Deferred
    <2> HIDE DEF after
    <2> QED BY <1>1, <1>2, <2>1, <2>2 DEF Follows
  <1>11. deferred # None => /\ staging' = None /\ deferred' = None
                            /\ Holds(ledger', deferred.abort) /\ ~Open(ledger', deferred.abort)
                            /\ after.told = <<Report(ledger'.entries[deferred.abort].status)>>
    <2> SUFFICES ASSUME deferred # None
                 PROVE  /\ staging' = None /\ deferred' = None
                            /\ Holds(ledger', deferred.abort) /\ ~Open(ledger', deferred.abort)
                        /\ after.told = <<Report(ledger'.entries[deferred.abort].status)>>
      OBVIOUS
    <2>1. held # None => held.event = deferred.event
      BY <1>4, <1>6 DEF Belongs
    <2>2. LET a == Deferred(next, held)
           IN /\ a.staging = None /\ a.deferred = None
              /\ Holds(a.ledger, deferred.abort) /\ ~Open(a.ledger, deferred.abort)
              /\ a.told = <<Report(a.ledger.entries[deferred.abort].status)>>
      BY <2>1, <1>2, <1>4, <1>8, <1>9, TriggeredFacts
    <2> QED BY <2>2, <1>1
  <1> HIDE DEF after
  <1>12. \A i \in Ids : Open(ledger', i) =>
            /\ Open(ledger, i) /\ i # id /\ ledger'.entries[i] = ledger.entries[i]
            /\ job.op = "transfer_abort" /\ ledger'.entries[i].task.op # "transfer_abort"
    <2> SUFFICES ASSUME NEW i \in Ids, Open(ledger', i)
                 PROVE  /\ Open(ledger, i) /\ i # id /\ ledger'.entries[i] = ledger.entries[i]
                        /\ job.op = "transfer_abort" /\ ledger'.entries[i].task.op # "transfer_abort"
      OBVIOUS
    <2>1. Open(next, i) /\ ledger'.entries[i] = next.entries[i] /\ i # id
      BY <1>2, <1>10 DEF Open
    <2>2. Open(ledger, i) /\ next.entries[i] = ledger.entries[i]
      BY <2>1, <1>2 DEF Follows, Open, Holds
    <2>3. ~(deferred # None /\ deferred.abort = i)
      BY <1>11
    <2> QED BY <2>1, <2>2, <2>3, <1>5
  <1>13. deferred' = None
    BY <1>10, <1>11
  <1>14. staging' \in {None, held}
    BY <1>10, <1>11
  <1>15. staging' = None => Clean'
    BY <1>7, <1>13 DEF Clean
  <1>16. QueueOK'
    <2>1. \A i \in Ids : Holds(ledger', i) =>
             Holds(ledger, i) /\ ledger'.entries[i].task = ledger.entries[i].task
      BY <1>2, <1>3, <1>10 DEF Follows, Holds, Open
    <2> QED BY <2>1, <1>1, <1>10, SameQueue
  <1>17. WorkOK'
    <2>1. Belongs(staging')
      BY <1>6, <1>14 DEF Belongs
    <2>2. \A i \in Ids : Open(ledger', i) =>
             staging' = None /\ ledger'.entries[i].task.op # "transfer_abort"
      BY <1>6, <1>12, <1>14
    <2> QED BY <1>1, <1>4, <1>7, <1>13, <2>1, <2>2 DEF WorkOK, Belongs
  <1>18. number \in Ids /\ (id = number /\ sender.stage \in {"abort", "commit"} => Clean')
    <2>1. number \in Ids
      BY <1>4 DEF IInv, SenderOK
    <2>2. id = number /\ sender.stage = "abort" => job.op = "transfer_abort"
      BY <1>4 DEF Op
    <2>3. id = number /\ sender.stage = "commit" => job.op = "transfer_commit"
      BY <1>4 DEF Op
    <2> QED BY <2>1, <2>2, <2>3, <1>6, <1>14, <1>15 DEF Durable
  <1>19. EndOK'
    <2>1. ASSUME sender.stage = "abort", number <= ledger'.highwater, ~Open(ledger', number)
          PROVE  Clean'
      <3>1. CASE id = number
        BY <3>1, <2>1, <1>18
      <3>2. CASE id # number
        <4>1. Open(ledger, number)
          BY <2>1, <1>4, <1>10 DEF TurnOK, EndOK
        <4>2. (deferred # None /\ deferred.abort = number) \/ job.op = "transfer_abort"
          BY <4>1, <3>2, <1>5, <1>18
        <4> QED BY <4>2, <1>6, <1>11, <1>14, <1>15
      <3> QED BY <3>1, <3>2
    <2>2. ASSUME sender.stage = "commit", Holds(ledger', number),
                 ledger'.entries[number].status.state = "succeeded"
          PROVE  Clean'
      <3>1. CASE id = number
        BY <3>1, <2>2, <1>18
      <3>2. CASE id # number
        <4>1. deferred = None
          BY <2>2, <1>4
        <4>2. ledger.entries[number] = ledger'.entries[number] /\ Holds(ledger, number)
          BY <4>1, <3>2, <2>2, <1>2, <1>10, <1>18 DEF Follows, Holds
        <4> QED BY <4>2, <2>2, <1>4 DEF TurnOK, EndOK
      <3> QED BY <3>1, <3>2
    <2> QED BY <1>1, <2>1, <2>2 DEF EndOK
  <1>20. ASSUME NEW s \in Status, s.id \in {id, number}, s.id <= ledger.highwater,
                s.id # id => deferred # None
         PROVE  Report(s) \in Timely'
    <2>1. Over(Report(s))' => Clean'
      <3>1. CASE deferred # None
        BY <3>1, <1>11, <1>15
      <3>2. CASE deferred = None
        <4>1. Over(Report(s))' => id = number /\ sender.stage \in {"abort", "commit"}
          BY <3>2, <1>1, <1>20 DEF Over, Report
        <4> QED BY <4>1, <1>18
      <3> QED BY <3>1, <3>2
    <2>2. Report(s).kind = "status" /\ Report(s).status = s /\ Report(s) \in Outward
      BY DEF Report, Outward
    <2> QED BY <2>1, <2>2, <1>10, <1>20 DEF Timely, Outward
  <1>21. Report(next.entries[id].status) \in Timely'
    <2>1. next.entries[id].status \in Status /\ next.entries[id].status.id = id
      BY <1>2, EntryFacts DEF LedgerOK, Filed
    <2>2. id <= ledger.highwater
      BY JobFacts DEF IInv
    <2> QED BY <2>1, <2>2, <1>20
  <1>22. /\ <<Report(next.entries[id].status)>> \o after.told \in Seq(Timely')
         /\ Len(<<Report(next.entries[id].status)>> \o after.told) <= 3
    <2> DEFINE r == Report(next.entries[id].status)
               a == Report(ledger'.entries[deferred.abort].status)
    <2>1. CASE deferred = None
      <3>1. r \in Timely' /\ after.told = <<>>
        BY <2>1, <1>10, <1>21
      <3> HIDE DEF r
      <3>2. <<r>> \o after.told = <<r>>
        BY <3>1
      <3> QED BY <3>1, <3>2 DEF r
    <2>2. CASE deferred # None
      <3>1. Holds(ledger, number) /\ deferred.abort = number
        BY <2>2, <1>4, <1>8 DEF Open
      <3>2. ASSUME Holds(ledger', number) PROVE a \in Timely'
        <4> DEFINE s == ledger'.entries[number].status
        <4>1. s \in Status /\ s.id = number /\ number <= ledger'.highwater
          BY <3>2, <1>3, <1>18, EntryFacts DEF LedgerOK, Filed
        <4> HIDE DEF s
        <4>2. Report(s) \in Timely'
          BY <4>1, <2>2, <1>10, <1>20
        <4> QED BY <4>2, <3>1 DEF s
      <3>3. r \in Timely' /\ after.told = <<a>>
        BY <2>2, <1>11, <1>21
      <3>4. Holds(ledger', number)
        BY <2>2, <1>11, <3>1
      <3>5. a \in Timely'
        BY <3>2, <3>4
      <3> HIDE DEF r, a
      <3> QED BY <3>3, <3>5, TwoAnswers DEF r
    <2> QED BY <2>1, <2>2
  <1>23. toSender' \in Seq(Timely')
    <2> DEFINE ms == <<Report(next.entries[id].status)>> \o after.told
    <2>1. ms \in Seq(Timely') /\ Len(ms) <= 3 /\ Answer(ms)
      BY <1>1, <1>22
    <2>2. ledger.highwater <= ledger'.highwater
      BY <1>10, Numbers
    <2> HIDE DEF ms
    <2> QED BY <2>1, <2>2, <1>1, <1>3, <1>4, AnswerTimely
  <1> QED BY <1>16, <1>17, <1>19, <1>23 DEF TurnOK

LEMMA PollTurn ==
    ASSUME IInv, IInv', DeliveryOK, TurnOK, NEW id \in Ids, Poll(id)
    PROVE  TurnOK'
  <1>1. jobs[id] # None
    BY DEF Poll
  <1> QED BY <1>1, OpenPollTurn, DonePollTurn

(* A session that has ended leaves nothing of its transfer.                 *)
LEMMA SessionTurn ==
    ASSUME Cut \/ CrashReceiver \/ CrashSender
    PROVE  TurnOK'
  <1>1. /\ toReceiver' = <<>> /\ toSender' = <<>> /\ ledger' = NewLedger
        /\ sender'.stage = "idle" /\ number' = 0
        /\ staging' = None /\ deferred' = None /\ jobs' = [i \in Ids |-> None]
    BY DEF Cut, CrashReceiver, CrashSender, EndSession, Drop, Rest
  <1>2. ledger'.highwater = 0 /\ \A i \in Ids : ~Holds(ledger', i)
    BY <1>1, FreshLedger
  <1>3. QueueOK'
    BY <1>1, <1>2 DEF QueueOK
  <1>4. WorkOK'
    BY <1>1, <1>2 DEF WorkOK, Clean, Belongs, Open
  <1>5. EndOK'
    BY <1>1 DEF EndOK
  <1> QED BY <1>1, <1>3, <1>4, <1>5 DEF TurnOK

LEMMA BetweenTurn ==
    ASSUME TurnOK, NEW x,
           Drain(x) \/ DrainUncertain(x) \/ Connect \/ Settle(x) \/ UNCHANGED vars
    PROVE  TurnOK'
  <1>1. UNCHANGED <<sender, number, toReceiver, toSender, ledger, staging, jobs, deferred>>
    BY DEF Drain, DrainUncertain, Connect, Settle, vars, outward, inward
  <1>2. toSender' \in Seq(Timely)
    BY <1>1 DEF TurnOK
  <1> QED BY <1>1, <1>2, StayTurn

LEMMA TurnInit == Init => TurnOK
  <1> SUFFICES ASSUME Init PROVE TurnOK
    OBVIOUS
  <1>1. /\ toReceiver = <<>> /\ toSender = <<>> /\ ledger = NewLedger
        /\ sender.stage = "idle" /\ number = 0
        /\ staging = None /\ deferred = None /\ jobs = [i \in Ids |-> None]
    BY DEF Init, Rest
  <1>2. ledger.highwater = 0 /\ \A i \in Ids : ~Holds(ledger, i)
    BY <1>1, FreshLedger
  <1>3. QueueOK
    BY <1>1, <1>2 DEF QueueOK
  <1>4. WorkOK
    BY <1>1, <1>2 DEF WorkOK, Clean, Belongs, Open
  <1>5. EndOK
    BY <1>1 DEF EndOK
  <1> QED BY <1>1, <1>3, <1>4, <1>5 DEF TurnOK

LEMMA TurnNext == IInv /\ IInv' /\ DeliveryOK /\ TurnOK /\ [Next]_vars => TurnOK'
  <1> SUFFICES ASSUME IInv, IInv', DeliveryOK, TurnOK, [Next]_vars PROVE TurnOK'
    OBVIOUS
  <1>1. CASE UNCHANGED vars
    BY <1>1, BetweenTurn
  <1>2. ASSUME NEW e \in Events, Deliver(e) \/ PreparationFails(e) PROVE TurnOK'
    BY <1>2, SenderTurn
  <1>3. ASSUME NEW e \in Events, Drain(e) \/ DrainUncertain(e) PROVE TurnOK'
    BY <1>3, BetweenTurn
  <1>4. ASSUME NEW id \in Ids, Worker(id) PROVE TurnOK'
    BY <1>4, StagingTurn, CommitTurn, PollTurn DEF Worker
  <1>5. ASSUME NEW id \in Ids, Failure(id) PROVE TurnOK'
    BY <1>5, StagingTurn, CommitTurn DEF Failure
  <1>6. ASSUME NEW id \in Ids, Repeat(id) PROVE TurnOK'
    BY <1>6, SenderTurn
  <1>7. CASE Hear \/ CancelTask \/ TurnEarly \/ Retry
    BY <1>7, SenderTurn
  <1>8. CASE Take
    BY <1>8, TakeTurn
  <1>9. ASSUME NEW l \in limbo, Settle(l) PROVE TurnOK'
    BY <1>9, BetweenTurn
  <1>10. CASE Cut \/ CrashReceiver \/ CrashSender
    BY <1>10, SessionTurn
  <1>11. CASE Connect
    BY <1>11, BetweenTurn
  <1> QED BY <1>1, <1>2, <1>3, <1>4, <1>5, <1>6, <1>7, <1>8, <1>9, <1>10, <1>11 DEF Next

(* When the sender turns to its next event nothing of the transfer it gave  *)
(* up or finished is left at the receiver: no staged data, no worker and no *)
(* abort that waits.                                                        *)
THEOREM NothingIsLeftBehind == Spec => []NoWorkLeftBehind
  <1>1. TurnOK => NoWorkLeftBehind
    BY DEF TurnOK, WorkOK, Clean, NoWorkLeftBehind
  <1>2. Spec => []DeliveryOK
    BY DeliveryInit, DeliveryNext, Invariant, PTL DEF Spec
  <1> QED BY <1>1, <1>2, TurnInit, TurnNext, Invariant, PTL DEF Spec
-----------------------------------------------------------------------------
(***************************************************************************)
(* Somebody answers.                                                       *)
(***************************************************************************)

Tells(q, id) == \E k \in DOMAIN q : Ending(q[k], id)

(* The end of a task that is on its way stays on its way: only a status     *)
(* that has not ended gives its place up.                                   *)
LEMMA JoinKeepsEnd ==
    ASSUME NEW q \in Seq(Outward), NEW message \in Outward \ {Broken}, NEW merge, NEW id, Tells(q, id)
    PROVE  Tells(Join(q, message, merge), id)
  <1> DEFINE same == {i \in DOMAIN q : SameTask(q[i], message)}
             i == CHOOSE j \in same : TRUE
             verdict == IF message.kind = "status"
                        THEN AcceptUpdate(q[i].status, message.status) ELSE "new"
  <1>1. PICK k \in DOMAIN q : Ending(q[k], id)
    BY DEF Tells
  <1>2. k \in 1 .. Len(q) /\ DOMAIN q = 1 .. Len(q) /\ Len(q) \in Nat
    OBVIOUS
  <1>3. ASSUME NEW m PROVE Tells(Append(q, m), id)
    <2>1. k \in DOMAIN Append(q, m) /\ Append(q, m)[k] = q[k]
      BY <1>2
    <2> QED BY <2>1, <1>1 DEF Tells
  <1>4. CASE ~merge \/ same = {}
    BY <1>3, <1>4 DEF Join
  <1>5. CASE ~(~merge \/ same = {})
    <2>1. i \in 1 .. Len(q) /\ SameTask(q[i], message)
      BY <1>5
    <2>2. Join(q, message, merge) = CASE verdict = "new" -> [q EXCEPT ![i] = message]
                                      [] verdict = "old" -> q
                                      [] OTHER -> Append(q, Broken)
      BY <1>5 DEF Join
    <2> HIDE DEF i
    <2>3. CASE verdict = "new"
      <3>1. message.kind = "status" /\ q[i].kind = "status"
        BY <2>1, OutwardFacts DEF SameTask
      <3>2. ~Terminal(q[i].status)
        BY <2>3, <3>1 DEF AcceptUpdate
      <3>3. i # k
        BY <1>1, <3>1, <3>2 DEF Ending
      <3>4. k \in DOMAIN [q EXCEPT ![i] = message] /\ [q EXCEPT ![i] = message][k] = q[k]
        BY <1>2, <3>3
      <3>5. Join(q, message, merge) = [q EXCEPT ![i] = message]
        BY <2>2, <2>3
      <3> QED BY <3>4, <3>5, <1>1 DEF Tells
    <2>4. CASE verdict = "old"
      BY <2>2, <2>4
    <2>5. CASE verdict \notin {"new", "old"}
      <3>1. Join(q, message, merge) = Append(q, Broken)
        BY <2>2, <2>5
      <3> QED BY <3>1, <1>3
    <2> QED BY <2>3, <2>4, <2>5
  <1> QED BY <1>4, <1>5

(* An end that joins a queue that agrees with it is told.                   *)
LEMMA JoinTellsEnd ==
    ASSUME NEW S \in SUBSET Status, Chain(S), NEW q \in Seq(Telling(S)),
           NEW message \in Telling(S), NEW merge, NEW id, Ending(message, id)
    PROVE  Tells(Join(q, message, merge), id)
  <1> DEFINE same == {i \in DOMAIN q : SameTask(q[i], message)}
             i == CHOOSE j \in same : TRUE
             verdict == IF message.kind = "status"
                        THEN AcceptUpdate(q[i].status, message.status) ELSE "new"
  <1>1. CASE ~merge \/ same = {}
    <2> DEFINE r == Append(q, message)
    <2>1. Len(q) + 1 \in DOMAIN r /\ r[Len(q) + 1] = message
      OBVIOUS
    <2>2. Join(q, message, merge) = r
      BY <1>1 DEF Join
    <2> HIDE DEF r
    <2> QED BY <2>1, <2>2 DEF Tells
  <1>2. CASE ~(~merge \/ same = {})
    <2>1. i \in 1 .. Len(q) /\ SameTask(q[i], message) /\ q[i] \in Telling(S)
      BY <1>2
    <2>2. Join(q, message, merge) = CASE verdict = "new" -> [q EXCEPT ![i] = message]
                                      [] verdict = "old" -> q
                                      [] OTHER -> Append(q, Broken)
      BY <1>2 DEF Join
    <2>3. message.kind \in {"status", "error"}
      BY OutwardFacts DEF Telling
    <2> HIDE DEF i
    <2>4. /\ message.kind = "status" /\ q[i].kind = "status"
          /\ q[i].status.id = message.status.id /\ message.status.id = id
          /\ Terminal(message.status)
      BY <2>1, <2>3 DEF SameTask, Ending
    <2>5. q[i].status \in S /\ message.status \in S
      BY <2>1, <2>4 DEF Telling
    <2> DEFINE held == q[i].status
    <2>6. Precedes(held, message.status)
      <3>1. Precedes(held, message.status) \/ Precedes(message.status, held)
        BY <2>4, <2>5 DEF Chain
      <3> QED BY <3>1, <2>4 DEF Precedes
    <2>7. held.seq \in Nat /\ message.status.seq \in Nat
      BY <2>5 DEF Status
    <2>8. held = message.status \/ AcceptUpdate(held, message.status) = "new"
      BY <2>6, <2>7 DEF Precedes, AcceptUpdate
    <2>9. held = message.status => AcceptUpdate(held, message.status) = "old"
      BY <2>7 DEF AcceptUpdate
    <2>10. CASE held = message.status
      <3>1. Join(q, message, merge) = q
        BY <2>2, <2>4, <2>9, <2>10
      <3>2. i \in DOMAIN q /\ Ending(q[i], id)
        BY <2>1, <2>4, <2>10 DEF Ending
      <3> QED BY <3>1, <3>2 DEF Tells
    <2>11. CASE held # message.status
      <3>1. Join(q, message, merge) = [q EXCEPT ![i] = message]
        BY <2>2, <2>4, <2>8, <2>11
      <3>2. i \in DOMAIN [q EXCEPT ![i] = message] /\ [q EXCEPT ![i] = message][i] = message
        BY <2>1
      <3> QED BY <3>1, <3>2 DEF Tells
    <2> QED BY <2>10, <2>11
  <1> QED BY <1>1, <1>2

(* An answer leaves the ends that are on their way.                         *)
LEMMA AnswerKeepsEnd ==
    ASSUME toSender \in Seq(Outward), NEW ms \in Seq(Outward \ {Broken}), Len(ms) <= 3,
           Answer(ms), NEW id, Tells(toSender, id)
    PROVE  Tells(toSender, id)'
  <1>1. PICK merge \in Merges : toSender' = JoinAll(toSender, ms, merge)
    BY DEF Answer
  <1> DEFINE n == Len(ms)
             one == Join(toSender, ms[1], merge)
             two == Join(one, ms[2], merge)
             three == Join(two, ms[3], merge)
  <1>2. n \in 0 .. 3
    <2>1. n \in Nat /\ n <= 3
      OBVIOUS
    <2> HIDE DEF n
    <2> QED BY <2>1
  <1>3. toSender' = IF n = 0 THEN toSender ELSE IF n = 1 THEN one
                    ELSE IF n = 2 THEN two ELSE three
    BY <1>1, <1>2, JoinAllSteps
  <1>4. \A k \in 1 .. n : ms[k] \in Outward \ {Broken} /\ ms[k] \in Outward
    OBVIOUS
  <1>5. Broken \in Outward
    BY DEF Outward
  <1> HIDE DEF n
  <1>6. n >= 1 => one \in Seq(Outward) /\ Tells(one, id)
    BY <1>2, <1>4, <1>5, JoinKeeps, JoinKeepsEnd
  <1> HIDE DEF one
  <1>7. n >= 2 => two \in Seq(Outward) /\ Tells(two, id)
    BY <1>2, <1>4, <1>5, <1>6, JoinKeeps, JoinKeepsEnd
  <1> HIDE DEF two
  <1>8. n = 3 => Tells(three, id)
    BY <1>2, <1>4, <1>7, JoinKeepsEnd
  <1> HIDE DEF three
  <1>9. Tells(toSender', id)
    BY <1>2, <1>3, <1>6, <1>7, <1>8
  <1> QED BY <1>9 DEF Tells

(* An answer tells the ends it is made of.                                  *)
LEMMA AnswerTellsEnd ==
    ASSUME LedgerOK(ledger), AgreeOK, NEW N, News(N), NEW ms \in Seq(Telling(N)), Len(ms) <= 3,
           Answer(ms), NEW id, NEW k \in DOMAIN ms, Ending(ms[k], id)
    PROVE  Tells(toSender, id)'
  <1> DEFINE S == Told \cup N
             T == Telling(S)
  <1>1. S \in SUBSET Status /\ Chain(S)
    BY ToldFacts, NewsChain DEF News
  <1>2. toSender \in Seq(T)
    <2>1. \A j \in DOMAIN toSender : toSender[j] \in T
      BY DEF AgreeOK, Told, Telling
    <2> HIDE DEF T
    <2> QED BY <2>1, SeqDef DEF AgreeOK
  <1>3. \A j \in 1 .. Len(ms) : ms[j] \in T
    BY DEF Telling
  <1>4. PICK merge \in Merges : toSender' = JoinAll(toSender, ms, merge)
    BY DEF Answer
  <1> HIDE DEF S
  <1>5. \A q \in Seq(T), m \in T : Join(q, m, merge) \in Seq(T)
    BY <1>1, JoinTells
  <1>6. T \subseteq Outward \ {Broken} /\ T \subseteq Outward
    BY DEF Telling
  <1>7. \A q \in Seq(T), m \in T : Tells(q, id) => Tells(Join(q, m, merge), id)
    BY <1>6, SeqGrows, JoinKeepsEnd
  <1>8. \A q \in Seq(T), m \in T : Ending(m, id) => Tells(Join(q, m, merge), id)
    BY <1>1, JoinTellsEnd
  <1> DEFINE n == Len(ms)
             one == Join(toSender, ms[1], merge)
             two == Join(one, ms[2], merge)
             three == Join(two, ms[3], merge)
  <1>9. n \in 0 .. 3 /\ k \in 1 .. n
    <2>1. n \in Nat /\ n <= 3 /\ k \in 1 .. n
      OBVIOUS
    <2> HIDE DEF n
    <2> QED BY <2>1
  <1>10. toSender' = IF n = 0 THEN toSender ELSE IF n = 1 THEN one
                     ELSE IF n = 2 THEN two ELSE three
    BY <1>4, <1>9, JoinAllSteps
  <1> HIDE DEF T, n
  <1>11. n >= 1 => one \in Seq(T) /\ (k = 1 => Tells(one, id))
    <2>1. n >= 1 => ms[1] \in T
      BY <1>3, <1>9 DEF n
    <2>2. n >= 1 => one \in Seq(T)
      BY <2>1, <1>2, <1>5
    <2>3. n >= 1 /\ k = 1 => Tells(one, id)
      BY <2>1, <1>2, <1>8
    <2> QED BY <2>2, <2>3
  <1> HIDE DEF one
  <1>12. n >= 2 => two \in Seq(T) /\ (k \in {1, 2} => Tells(two, id))
    BY <1>3, <1>5, <1>7, <1>8, <1>9, <1>11 DEF n
  <1> HIDE DEF two
  <1>13. n = 3 => Tells(three, id)
    BY <1>3, <1>7, <1>8, <1>9, <1>12 DEF n
  <1> HIDE DEF three
  <1>14. Tells(toSender', id)
    BY <1>9, <1>10, <1>11, <1>12, <1>13
  <1> QED BY <1>14 DEF Tells

(* What is at work on the awaited task: it is still on its way, or open at  *)
(* the receiver, or its end is on its way.  An open transfer task has its   *)
(* worker, unless the outcome of its commit is unknown.                     *)
HeardOK ==
    /\ sender.view # None => ~Terminal(sender.view)
    /\ \A i \in ActiveTransfer(ledger) :
          jobs[i] # None \/ ledger.entries[i].status.phase # "own"
    /\ sender.stage # "idle" =>
          number > ledger.highwater \/ Open(ledger, number) \/ Tells(toSender, number)

LEMMA StayHeard ==
    ASSUME HeardOK, UNCHANGED <<sender, number, ledger, toSender>>,
           \A i \in Ids : jobs[i] # None => jobs'[i] # None
    PROVE  HeardOK'
  <1>1. ActiveTransfer(ledger)' = ActiveTransfer(ledger) /\ ActiveTransfer(ledger) \subseteq Ids
    BY DEF ActiveTransfer, Live, Holds, Terminal
  <1>2. \A i \in ActiveTransfer(ledger)' : jobs'[i] # None \/ ledger'.entries[i].status.phase # "own"
    BY <1>1 DEF HeardOK
  <1>3. Tells(toSender, number)' <=> Tells(toSender, number)
    BY DEF Tells, Ending, Terminal
  <1>4. Open(ledger, number)' <=> Open(ledger, number)
    BY DEF Open, Holds, Terminal
  <1> QED BY <1>2, <1>3, <1>4 DEF HeardOK, Terminal

(* A new task is on its way; one that is over leaves nobody waiting.        *)
LEMMA SendHeard ==
    ASSUME IInv, TurnOK, HeardOK, UNCHANGED <<ledger, jobs>>,
           \/ sender' = Rest
           \/ \E stage, event, early : Send(stage, event, early)
    PROVE  HeardOK'
  <1>1. number \in Nat /\ ledger.highwater \in Nat /\ ledger.highwater <= number
    BY Numbers DEF TurnOK, QueueOK
  <1>2. sender'.view = None /\ (sender'.stage = "idle" \/ number' = number + 1)
    <2>1. CASE sender' = Rest
      BY <2>1 DEF Rest
    <2>2. ASSUME NEW stage, NEW event, NEW early, Send(stage, event, early)
          PROVE  sender'.view = None /\ number' = number + 1
      BY <2>2 DEF Send
    <2> QED BY <2>1, <2>2
  <1>3. sender'.stage # "idle" => number' > ledger'.highwater
    BY <1>1, <1>2
  <1>4. \A i \in ActiveTransfer(ledger)' : jobs'[i] # None \/ ledger'.entries[i].status.phase # "own"
    BY DEF HeardOK, ActiveTransfer, Live, Holds, Terminal
  <1> QED BY <1>2, <1>3, <1>4 DEF HeardOK

(* The sender hears something else, and the end is still to come.           *)
LEMMA TailHeard ==
    ASSUME SenderOK, HeardOK, UNCHANGED <<ledger, jobs, number>>, toSender' = Tail(toSender),
           toSender \in Seq(Outward), toSender # <<>>,
           sender'.stage = sender.stage, sender'.view # None => ~Terminal(sender'.view),
           sender.stage # "idle" => ~Ending(Head(toSender), number)
    PROVE  HeardOK'
  <1> DEFINE q == toSender
             t == toSender'
  <1>1. \A i \in ActiveTransfer(ledger)' : jobs'[i] # None \/ ledger'.entries[i].status.phase # "own"
    BY DEF HeardOK, ActiveTransfer, Live, Holds, Terminal
  <1>2. ASSUME sender.stage # "idle", Tells(q, number) PROVE Tells(toSender, number)'
    <2>1. PICK k \in DOMAIN q : Ending(q[k], number)
      BY <1>2 DEF Tells
    <2>2. k \in 1 .. Len(q) /\ Len(q) \in Nat /\ Head(q) = q[1]
      OBVIOUS
    <2>3. k # 1
      BY <1>2, <2>1, <2>2
    <2>4. k - 1 \in DOMAIN Tail(q) /\ Tail(q)[k - 1] = q[k]
      BY <2>2, <2>3
    <2> QED BY <2>1, <2>4 DEF Tells, Ending, Terminal
  <1>3. Open(ledger, number)' <=> Open(ledger, number)
    BY DEF Open, Holds, Terminal
  <1>4. sender'.stage # "idle" =>
            number' > ledger'.highwater \/ Open(ledger, number)' \/ Tells(toSender, number)'
    BY <1>2, <1>3 DEF HeardOK
  <1> QED BY <1>1, <1>4 DEF HeardOK, Terminal

(* On the end of its task the sender always goes on.                        *)
LEMMA HearHeard ==
    ASSUME IInv, AgreeOK, TurnOK, HeardOK, Hear
    PROVE  HeardOK'
  <1> DEFINE message == Head(toSender)
  <1>1. /\ toSender # <<>> /\ toSender' = Tail(toSender) /\ toSender \in Seq(Outward \ {Broken})
        /\ UNCHANGED <<ledger, jobs>> /\ SenderOK
    BY DEF AgreeOK, Hear, inward, IInv
  <1>2. /\ toSender \in Seq(Outward) /\ message = toSender[1] /\ 1 \in DOMAIN toSender
        /\ message \in Outward \ {Broken}
    BY <1>1
  <1> HIDE DEF message
  <1>3. message.kind = "status" => message.status \in Status
    BY <1>2, OutwardFacts
  <1>4. CASE UNCHANGED <<sender, number>> /\ (sender.stage # "idle" => ~Ending(message, number))
    BY <1>1, <1>2, <1>4, TailHeard DEF HeardOK, message
  <1>5. CASE sender' = Rest \/ \E stage, event, early : Send(stage, event, early)
    BY <1>1, <1>5, SendHeard
  <1>6. CASE message.kind = "error" /\ HearError(message.id)
    <2>1. CASE ~Awaits(message.id)
      BY <2>1, <1>4, <1>6 DEF HearError, Awaits, Ending, outward
    <2>2. CASE Awaits(message.id)
      BY <2>2, <1>5, <1>6 DEF HearError, Resume, GiveUp
    <2> QED BY <2>1, <2>2
  <1>7. CASE message.kind = "status" /\ HearStatus(message.status)
    <2> DEFINE status == message.status
               view == sender.view
               verdict == IF view = None THEN "new" ELSE AcceptUpdate(view, status)
    <2>1. CASE ~Awaits(status.id)
      BY <2>1, <1>4, <1>7 DEF HearStatus, Awaits, Ending, outward
    <2>2. CASE Awaits(status.id)
      <3>1. status.id = number /\ sender.stage # "idle"
        BY <2>2 DEF Awaits
      <3>2. verdict \in {"old", "new", "conflict"}
        BY DEF AcceptUpdate
      <3>3. CASE verdict = "old"
        <4>1. view # None /\ AcceptUpdate(view, status) = "old"
          BY <3>3
        <4>2. view \in Told /\ status \in Told /\ view.id = status.id /\ ~Terminal(view)
          BY <4>1, <3>1, <1>2, <1>7 DEF Told, AgreeOK, HeardOK
        <4>3. view \in Status /\ status \in Status
          BY <4>2, ToldFacts
        <4>4. view.seq \in Nat /\ status.seq \in Nat
          BY <4>3 DEF Status
        <4>5. Precedes(view, status) \/ Precedes(status, view)
          BY <4>2 DEF AgreeOK, Chain
        <4> HIDE DEF view, status
        <4>6. ~Terminal(status)
          BY <4>1, <4>2, <4>4, <4>5 DEF Precedes, AcceptUpdate
        <4>7. ~Ending(message, number)
          BY <4>6, <1>7 DEF Ending, status
        <4>8. UNCHANGED <<sender, number>>
          BY <3>3, <2>2, <1>7 DEF HearStatus, outward, view, status
        <4> QED BY <4>7, <4>8, <1>4
      <3>4. CASE verdict = "new" /\ ~Terminal(status)
        <4>1. sender' = [sender EXCEPT !.view = status] /\ UNCHANGED number
          BY <3>4, <2>2, <1>7 DEF HearStatus
        <4>2. sender'.stage = sender.stage /\ sender'.view = status
          BY <4>1, <1>1 DEF SenderOK
        <4>3. ~Ending(message, number)
          BY <3>4, <1>7 DEF Ending
        <4> QED BY <4>1, <4>2, <4>3, <3>4, <1>1, <1>2, TailHeard DEF message
      <3>5. CASE verdict = "new" /\ Terminal(status) /\ sender.stage = "abort"
        <4>1. sender' = Rest
          BY <3>5, <2>2, <1>7 DEF HearStatus, Resume
        <4> QED BY <4>1, <1>5
      <3>6. CASE verdict = "new" /\ Terminal(status) /\ sender.stage # "abort"
        <4>1. IF status.state = "succeeded" THEN Proceed ELSE GiveUp
          BY <3>6, <2>2, <1>7 DEF HearStatus
        <4>2. sender.stage \in {"begin", "upload", "commit"}
          BY <3>1, <3>6, <1>1 DEF SenderOK, Stages
        <4>3. Proceed => sender' = Rest \/ \E stage, event, early : Send(stage, event, early)
          BY <4>2 DEF Proceed
        <4>4. GiveUp => \E stage, event, early : Send(stage, event, early)
          BY DEF GiveUp
        <4> QED BY <4>1, <4>3, <4>4, <1>5
      <3>7. CASE verdict = "conflict"
        <4>1. view # None /\ AcceptUpdate(view, status) = "conflict"
          BY <3>7
        <4> QED BY <4>1, <2>2, <1>7 DEF Hear, Conflicting, message
      <3> QED BY <3>2, <3>3, <3>4, <3>5, <3>6, <3>7
    <2> QED BY <2>1, <2>2
  <1> QED BY <1>6, <1>7 DEF Hear, message

(* An answer about the tasks the ledger goes on with.                       *)
LEMMA KeptHeard ==
    ASSUME AgreeOK, HeardOK, UNCHANGED <<sender, number>>,
           number \in Ids \/ sender.stage = "idle",
           ledger'.highwater = ledger.highwater,
           \A i \in Ids : Open(ledger, i) => Open(ledger', i),
           \A i \in ActiveTransfer(ledger') :
               /\ i \in ActiveTransfer(ledger)
               /\ jobs[i] # None => jobs'[i] # None
               /\ jobs[i] = None => ledger'.entries[i] = ledger.entries[i],
           NEW ms \in Seq(Outward \ {Broken}), Len(ms) <= 3, Answer(ms)
    PROVE  HeardOK'
  <1>1. toSender \in Seq(Outward)
    BY SeqGrows DEF AgreeOK
  <1>2. Tells(toSender, number) => Tells(toSender, number)'
    <2>1. ASSUME Tells(toSender, number) PROVE Tells(toSender', number)
      BY <1>1, <2>1, AnswerKeepsEnd DEF Tells
    <2> QED BY <2>1 DEF Tells, Ending, Terminal
  <1>3. Open(ledger, number) /\ sender.stage # "idle" => Open(ledger, number)'
    BY DEF Open, Holds, Terminal
  <1>4. \A i \in ActiveTransfer(ledger)' : jobs'[i] # None \/ ledger'.entries[i].status.phase # "own"
    <2>1. ActiveTransfer(ledger)' = ActiveTransfer(ledger')
      BY DEF ActiveTransfer, Live, Holds, Terminal
    <2> QED BY <2>1 DEF HeardOK
  <1> QED BY <1>2, <1>3, <1>4 DEF HeardOK, Terminal

(* A status that is held, or the refusal of one that is not.                *)
LEMMA QuietHeard ==
    ASSUME IInv, AgreeOK, HeardOK, UNCHANGED <<sender, number, ledger, jobs>>,
           NEW m \in Outward \ {Broken}, Answer(<<m>>)
    PROVE  HeardOK'
  <1>1. number \in Ids \/ sender.stage = "idle"
    BY DEF IInv, SenderOK
  <1>2. <<m>> \in Seq(Outward \ {Broken}) /\ Len(<<m>>) <= 3
    OBVIOUS
  <1>3. \A i \in ActiveTransfer(ledger') : i \in ActiveTransfer(ledger)
    OBVIOUS
  <1> QED BY <1>1, <1>2, <1>3, KeptHeard

LEMMA HeldMessage ==
    ASSUME LedgerOK(ledger), NEW id \in Ids, Holds(ledger, id)
    PROVE  Report(ledger.entries[id].status) \in Outward \ {Broken}
  <1>1. ledger.entries[id].status \in Status
    BY EntryFacts DEF LedgerOK
  <1> QED BY <1>1, ReportTells DEF Telling

LEMMA RefusalMessage ==
    ASSUME NEW id \in Ids,
           NEW code \in {"retired", "unknown_task", "task_id_conflict", "invalid_task_id"}
    PROVE  Refusal(id, code) \in Outward \ {Broken}
  BY RefusalTells DEF Telling

LEMMA GetHeard ==
    ASSUME IInv, AgreeOK, HeardOK, UNCHANGED outward, NEW id \in Ids, TakeGet(id)
    PROVE  HeardOK'
  <1>1. UNCHANGED <<sender, number, ledger, jobs>> /\ LedgerOK(ledger)
    BY DEF TakeGet, inward, outward, IInv, ReceiverOK
  <1>2. CASE Holds(ledger, id)
    BY <1>1, <1>2, HeldMessage, QuietHeard DEF TakeGet
  <1>3. CASE ~Holds(ledger, id)
    BY <1>1, <1>3, RefusalMessage, QuietHeard DEF TakeGet
  <1> QED BY <1>2, <1>3

(* A task that is told to stop keeps its worker.                            *)
LEMMA CancelHeard ==
    ASSUME IInv, AgreeOK, HeardOK, UNCHANGED outward, NEW id \in Ids, jobs[id] # None, TakeCancel(id)
    PROVE  HeardOK'
  <1> DEFINE m == CancelNoted(ledger, id)
             step == IF Durable(jobs[id]) \/ jobs[id].step \in Ended THEN jobs[id].step ELSE "dead"
             j == [jobs[id] EXCEPT !.cancelled = TRUE, !.step = step]
  <1>1. /\ jobs[id] \in Jobs /\ Open(ledger, id) /\ LedgerOK(ledger)
        /\ jobs \in [Ids -> Jobs \cup {None}] /\ (number \in Ids \/ sender.stage = "idle")
    BY JobFacts DEF IInv, ReceiverOK, JobsOK, SenderOK
  <1>2. /\ jobs' = [jobs EXCEPT ![id].cancelled = TRUE, ![id].step = step]
        /\ ledger' = m /\ Answer(<<Report(m.entries[id].status)>>)
        /\ UNCHANGED <<sender, number>>
    BY DEF TakeCancel, outward
  <1>3. /\ LedgerOK(m) /\ Follows(ledger, m, id) /\ Open(m, id)
        /\ m.entries[id].task = ledger.entries[id].task
    BY <1>1, UpdateFacts DEF CancelNoted
  <1>4. jobs'[id] = j /\ \A i \in Ids \ {id} : jobs'[i] = jobs[i]
    BY <1>1, <1>2
  <1>5. j \in Jobs
    <2>1. step \in Running \cup Ended
      BY <1>1, Steps DEF Jobs
    <2> HIDE DEF step
    <2> QED BY <1>1, <2>1 DEF Jobs
  <1>6. jobs'[id] # None
    BY <1>4, <1>5, AbsenceAssumption
  <1> HIDE DEF j, step, m
  <1>7. /\ ledger'.highwater = ledger.highwater
        /\ \A i \in Ids : Open(ledger, i) => Open(ledger', i)
    BY <1>2, <1>3 DEF Follows, Open, Holds
  <1>8. \A i \in ActiveTransfer(ledger') :
            /\ i \in ActiveTransfer(ledger)
            /\ i # id => ledger'.entries[i] = ledger.entries[i]
    BY <1>1, <1>2, <1>3 DEF Follows, Open, ActiveTransfer, Live, Holds
  <1>9. Report(m.entries[id].status) \in Outward \ {Broken}
    <2>1. m.entries[id].status \in Status
      BY <1>3, EntryFacts DEF LedgerOK, Open
    <2> QED BY <2>1, ReportTells DEF Telling
  <1>10. \A i \in ActiveTransfer(ledger') :
            /\ i \in ActiveTransfer(ledger)
            /\ jobs[i] # None => jobs'[i] # None
            /\ jobs[i] = None => ledger'.entries[i] = ledger.entries[i]
    <2>1. ActiveTransfer(ledger') \subseteq Ids
      BY DEF ActiveTransfer, Live
    <2> QED BY <2>1, <1>4, <1>6, <1>8
  <1> DEFINE ms == <<Report(m.entries[id].status)>>
  <1>11. ms \in Seq(Outward \ {Broken}) /\ Len(ms) <= 3 /\ Answer(ms)
    BY <1>2, <1>9
  <1> HIDE DEF ms
  <1> QED BY <1>1, <1>2, <1>7, <1>10, <1>11, KeptHeard

(* A task the receiver sees for the first time is open from then on, in     *)
(* somebody's hands, or its end is told at once.                            *)
LEMMA NewHeard ==
    ASSUME IInv, TurnOK, HeardOK, UNCHANGED <<sender, number>>,
           NEW id \in Ids, id <= number, ledger'.highwater = id,
           \A j \in Ids \ {id} :
                 /\ jobs'[j] = jobs[j]
                 /\ \/ ledger'.entries[j] = ledger.entries[j]
                    \/ ledger'.entries[j] = None,
           Open(ledger', id) \/ Tells(toSender, id)',
           id \in ActiveTransfer(ledger') => jobs'[id] # None
    PROVE  HeardOK'
  <1>1. number \in Nat /\ id \in Nat
    BY Numbers
  <1>2. ActiveTransfer(ledger)' = ActiveTransfer(ledger') /\ ActiveTransfer(ledger') \subseteq Ids
    BY DEF ActiveTransfer, Live, Holds, Terminal
  <1>3. ASSUME NEW i \in ActiveTransfer(ledger'), i # id
        PROVE  jobs'[i] # None \/ ledger'.entries[i].status.phase # "own"
    <2>1. i \in Ids /\ ledger'.entries[i] = ledger.entries[i] /\ jobs'[i] = jobs[i]
      BY <1>2, <1>3 DEF ActiveTransfer, Live, Holds
    <2>2. i \in ActiveTransfer(ledger)
      BY <2>1, <1>3 DEF ActiveTransfer, Live, Holds
    <2> QED BY <2>1, <2>2 DEF HeardOK
  <1>4. number > ledger'.highwater \/ Open(ledger, number)' \/ Tells(toSender, number)'
    <2>1. CASE number > id
      BY <2>1
    <2>2. CASE number = id
      BY <2>2 DEF Open, Holds, Terminal, Tells
    <2> QED BY <2>1, <2>2, <1>1
  <1> QED BY <1>2, <1>3, <1>4 DEF HeardOK, Terminal

LEMMA BusyHeard ==
    ASSUME IInv, AgreeOK, TurnOK, HeardOK, toReceiver # <<>>, UNCHANGED outward,
           NEW m, m = Head(toReceiver), Fresh(m), NEW task, task = m.task,
           Verdict(ledger, task) = "busy", ledger' = Admitted(ledger, task), UNCHANGED jobs,
           Answer(<<Report(ledger'.entries[task.id].status)>>)
    PROVE  HeardOK'
  <1> DEFINE id == task.id
             s == ledger'.entries[id].status
             ms == <<Report(s)>>
  <1>1. /\ task \in Task /\ id = ledger.highwater + 1 /\ id <= number /\ id \in Ids
    BY FreshFacts DEF Task
  <1>2. LedgerOK(ledger) /\ OneLive(ledger) /\ ledger.highwater \in Nat /\ Ids \subseteq Nat
    BY Numbers DEF IInv, ReceiverOK
  <1>3. ledger' = EnterBusy(ledger, task)
    BY DEF Admitted
  <1>4. /\ LedgerOK(ledger') /\ ledger'.highwater = id
        /\ \A j \in Ids \ {id} :
              \/ ledger'.entries[j] = ledger.entries[j]
              \/ ledger'.entries[j] = None
        /\ Holds(ledger', id) /\ Terminal(s)
    <2>1. task.id = ledger.highwater + 1
      BY <1>1
    <2>2. /\ LedgerOK(ledger') /\ ledger'.highwater = task.id
          /\ \A j \in Ids \ {task.id} :
                \/ ledger'.entries[j] = ledger.entries[j]
                \/ /\ ledger'.entries[j] = None
                   /\ Holds(ledger, j) => Terminal(ledger.entries[j].status)
          /\ Holds(ledger', task.id) /\ Terminal(ledger'.entries[task.id].status)
          /\ ledger'.entries[task.id].status.state # "succeeded"
      BY <2>1, <1>1, <1>2, <1>3, BusyLedger
    <2> HIDE DEF id
    <2>3. id = task.id
      BY DEF id
    <2> QED BY <2>2, <2>3
  <1>5. Continues(ledger, ledger')
    <2>1. ledger.highwater <= id /\ \A i \in Ids : i <= ledger.highwater => i # id
      BY <1>1, <1>2
    <2> HIDE DEF id
    <2> QED BY <2>1, <1>4 DEF Continues, Holds, Precedes
  <1>6. s.id = id
    BY <1>1, <1>4 DEF LedgerOK, Filed
  <1>7. News({s}) /\ ms \in Seq(Telling({s}))
    BY <1>1, <1>2, <1>4, <1>5, OneIsNews
  <1>8. Len(ms) <= 3 /\ 1 \in DOMAIN ms /\ ms[1] = Report(s) /\ Answer(ms)
    OBVIOUS
  <1> HIDE DEF ms
  <1>9. Ending(ms[1], id)
    <2>1. Terminal(s) /\ s.id = id
      BY <1>4, <1>6
    <2> HIDE DEF s, id
    <2>2. ms[1].kind = "status" /\ ms[1].status = s
      BY <1>8 DEF Report
    <2> QED BY <2>1, <2>2 DEF Ending
  <1>10. Tells(toSender, id)'
    BY <1>2, <1>7, <1>8, <1>9, AnswerTellsEnd
  <1>11. id \notin ActiveTransfer(ledger')
    BY <1>4 DEF ActiveTransfer, Live
  <1>12. UNCHANGED <<sender, number>>
    BY DEF outward
  <1> HIDE DEF s, id
  <1> QED BY <1>1, <1>4, <1>10, <1>11, <1>12, NewHeard

LEMMA StartHeard ==
    ASSUME IInv, TurnOK, HeardOK, toReceiver # <<>>, UNCHANGED outward,
           NEW m, m = Head(toReceiver), Fresh(m), NEW task, task = m.task,
           Verdict(ledger, task) = "start", StartTask(task)
    PROVE  HeardOK'
  <1> DEFINE id == task.id
             running == Update(Admitted(ledger, task), id, "own")
  <1>1. task \in Task /\ id <= number /\ id \in Ids
    BY FreshFacts DEF Task
  <1>2. /\ LedgerOK(ledger) /\ OneLive(ledger) /\ staging \in Stagings
        /\ jobs \in [Ids -> Jobs \cup {None}]
    BY DEF IInv, ReceiverOK, JobsOK
  <1>3. /\ ledger'.highwater = id /\ Open(ledger', id) /\ ledger'.entries[id].task = task
        /\ \A j \in Ids \ {id} :
              \/ ledger'.entries[j] = ledger.entries[j]
              \/ ledger'.entries[j] = None
    BY <1>1, <1>2, StartedFacts
  <1>4. CASE MustWait(running, task)
    <2>1. jobs' = jobs /\ task.op = "transfer_abort"
      BY <1>4 DEF StartTask, MustWait
    <2>2. id \notin ActiveTransfer(ledger')
      BY <2>1, <1>3 DEF ActiveTransfer, Live, Slot
    <2> QED BY <2>1, <2>2, <1>1, <1>3, NewHeard DEF outward
  <1>5. CASE ~MustWait(running, task)
    <2>1. jobs' = [jobs EXCEPT ![id] = Start(task)]
      BY <1>5 DEF StartTask
    <2>2. Start(task) # None
      BY <1>1, <1>2, StartJob, AbsenceAssumption
    <2>3. jobs'[id] # None /\ \A j \in Ids \ {id} : jobs'[j] = jobs[j]
      BY <2>1, <2>2, <1>1, <1>2
    <2> QED BY <2>3, <1>1, <1>3, NewHeard DEF outward
  <1> QED BY <1>4, <1>5

LEMMA TakeHeard ==
    ASSUME IInv, AgreeOK, TurnOK, HeardOK, Take
    PROVE  HeardOK'
  <1> DEFINE m == Head(toReceiver)
             h == ledger.highwater
  <1>1. /\ m \in Inward /\ toReceiver # <<>> /\ UNCHANGED outward
        /\ LedgerOK(ledger) /\ h \in Nat /\ Ids \subseteq Nat
        /\ \A i \in Ids : Holds(ledger, i) => i <= h
    BY HeadFacts, Numbers DEF Take
  <1>2. CASE m.kind = "submit"
    <2> DEFINE task == m.task
    <2>1. task \in Task /\ TakeSubmit(task) /\ task.id \in Ids
      BY <1>1, <1>2, InwardFacts DEF Take, Task
    <2>2. CASE Verdict(ledger, task) \in {"start", "busy"}
      <3>1. Fresh(m)
        BY <2>1, <2>2, <1>1, <1>2, VerdictFacts DEF Fresh, LedgerOK
      <3>2. CASE Verdict(ledger, task) = "start"
        <4>1. StartTask(task)
          BY <2>1, <3>2 DEF TakeSubmit
        <4> QED BY <4>1, <1>1, <3>1, <3>2, StartHeard
      <3>3. CASE Verdict(ledger, task) = "busy"
        <4>1. /\ ledger' = Admitted(ledger, task) /\ UNCHANGED jobs
              /\ Answer(<<Report(ledger'.entries[task.id].status)>>)
          BY <2>1, <3>3 DEF TakeSubmit
        <4> QED BY <4>1, <1>1, <3>1, <3>3, BusyHeard
      <3> QED BY <2>2, <3>2, <3>3
    <2> HIDE DEF task
    <2>3. CASE Verdict(ledger, task) = "replay"
      <3>1. ledger' = ledger /\ UNCHANGED jobs /\ Answer(<<Report(ledger.entries[task.id].status)>>)
        <4>1. Admitted(ledger, task) = ledger
          BY <2>3 DEF Admitted
        <4>2. /\ ledger' = Admitted(ledger, task) /\ UNCHANGED jobs
              /\ Answer(<<Report(ledger'.entries[task.id].status)>>)
          BY <2>1, <2>3 DEF TakeSubmit
        <4> QED BY <4>1, <4>2
      <3>2. Holds(ledger, task.id)
        BY <2>3 DEF Verdict
      <3>3. Report(ledger.entries[task.id].status) \in Outward \ {Broken}
        BY <3>2, <2>1, <1>1, HeldMessage
      <3> QED BY <3>1, <3>3, <1>1, QuietHeard DEF outward
    <2>4. CASE Verdict(ledger, task) \notin {"start", "busy", "replay"}
      <3> DEFINE verdict == Verdict(ledger, task)
      <3>1. Answer(<<Refusal(task.id, verdict)>>) /\ UNCHANGED <<ledger, jobs>>
        BY <2>1, <2>4 DEF TakeSubmit, inward
      <3>2. verdict \in {"retired", "unknown_task", "task_id_conflict", "invalid_task_id"}
        BY <2>4 DEF Verdict
      <3> HIDE DEF verdict
      <3>3. Refusal(task.id, verdict) \in Outward \ {Broken}
        BY <3>2, <2>1, RefusalMessage
      <3> QED BY <3>1, <3>3, <1>1, QuietHeard DEF outward
    <2> QED BY <2>2, <2>3, <2>4
  <1>3. CASE m.kind \in {"get", "cancel"}
    <2>1. m.id \in Ids
      BY <1>1, <1>3, InwardFacts
    <2>2. CASE TakeGet(m.id)
      BY <2>1, <2>2, <1>1, GetHeard
    <2>3. CASE TakeCancel(m.id) /\ jobs[m.id] # None
      BY <2>1, <2>3, <1>1, CancelHeard
    <2>4. CASE TakeCancel(m.id) /\ jobs[m.id] = None
      BY <2>2, <2>4 DEF TakeCancel
    <2> QED BY <1>3, <2>2, <2>3, <2>4 DEF Take
  <1> QED BY <1>1, <1>2, <1>3, InwardFacts

(* An open outcome is marked on the status that is kept.                    *)
LEMMA UnknownPhase ==
    ASSUME NEW l, LedgerOK(l), NEW id \in Ids, Open(l, id)
    PROVE  Unknown(l, id).entries[id].status.phase = "outcome_unknown"
  <1> DEFINE t == l.entries[id].status
             w == [t EXCEPT !.seq = @ + 1, !.state = "running", !.phase = "outcome_unknown"]
             u == Update(l, id, "outcome_unknown")
             s == [u.entries[id].status EXCEPT !.code = "outcome_unknown"]
  <1>1. t \in Status /\ t.id = id /\ ~Terminal(t)
    BY EntryFacts DEF LedgerOK, Open, Filed
  <1>2. w \in Status /\ w.id = id /\ w.phase = "outcome_unknown"
    <2> HIDE DEF t
    <2>1. w \in Status /\ w.id = t.id
      BY <1>1, RunningStatus
    <2>2. w.phase = "outcome_unknown"
      BY <1>1 DEF Status
    <2> QED BY <1>1, <2>1, <2>2
  <1>3. LedgerOK(u) /\ Open(u, id)
    BY UpdateFacts
  <1>4. u = Put(l, w)
    BY DEF Update, Open
  <1>5. Unknown(l, id) = Put(l, s)
    BY DEF Unknown, Open
  <1> HIDE DEF w, u
  <1>6. u.entries[id].status = w
    BY <1>2, <1>4, PutFacts
  <1>7. s \in Status /\ s.id = id /\ s.phase = "outcome_unknown"
    BY <1>2, <1>6 DEF Status, Codes
  <1> HIDE DEF s
  <1>8. Put(l, s).entries[id].status = s
    BY <1>7, PutFacts
  <1> QED BY <1>5, <1>7, <1>8

(* A deferred abort goes on waiting, or its end is told.                    *)
LEMMA DeferredEnds ==
    ASSUME NEW l, LedgerOK(l), NEW held, deferred # None, deferred.abort \in Ids,
           Open(l, deferred.abort)
    PROVE  LET a == Deferred(l, held)
           IN \/ a.ledger = l
              \/ /\ Terminal(a.ledger.entries[deferred.abort].status)
                 /\ a.ledger.entries[deferred.abort].status.id = deferred.abort
                 /\ a.told = <<Report(a.ledger.entries[deferred.abort].status)>>
  <1> DEFINE a == Deferred(l, held)
             waits == ~(Holds(l, deferred.task) /\ Terminal(l.entries[deferred.task].status))
             result == IF held # None /\ held.event # deferred.event
                       THEN "operation_failed" ELSE "succeeded"
             f == Finish(l, deferred.abort, result)
  <1>1. CASE waits
    BY <1>1 DEF Deferred
  <1>2. CASE ~waits
    <2>1. a.ledger = f /\ a.told = <<Report(f.entries[deferred.abort].status)>>
      BY <1>2 DEF Deferred
    <2>2. result \in {"succeeded", "cancelled"} \cup Codes
      BY DEF Codes
    <2> HIDE DEF result, a
    <2>3. LedgerOK(f) /\ Holds(f, deferred.abort) /\ Terminal(f.entries[deferred.abort].status)
      BY <2>2, FinishFacts
    <2> HIDE DEF f
    <2>4. f.entries[deferred.abort].status.id = deferred.abort
      BY <2>3 DEF LedgerOK, Filed
    <2> QED BY <2>1, <2>3, <2>4 DEF a
  <1> QED BY <1>1, <1>2

(* What a poll leaves of the ledger: a task it closes is told to be closed. *)
LEMMA PollEnds ==
    ASSUME ReceiverOK, NEW id \in Ids, Poll(id)
    PROVE  /\ ledger'.highwater = ledger.highwater
           /\ \A i \in Ids : Open(ledger, i) =>
                 \/ Open(ledger', i)
                 \/ \E k \in DOMAIN PollTold(id) : Ending(PollTold(id)[k], i)
           /\ \A i \in ActiveTransfer(ledger') :
                 \/ i = id /\ ledger'.entries[i].status.phase = "outcome_unknown"
                 \/ /\ i \in ActiveTransfer(ledger) /\ ledger'.entries[i] = ledger.entries[i]
                    /\ jobs'[i] = jobs[i]
  <1> DEFINE job == jobs[id]
             next == Noted(id)
             held == IF Left(job) THEN staging ELSE Returned(job)
             after == Deferred(next, held)
             first == next.entries[id].status
             abort == deferred.abort
             moved == IF MustRead(job) THEN Reading(job) ELSE None
             ms == <<Report(first)>> \o after.told
  <1>1. /\ job # None /\ ledger' = after.ledger /\ jobs' = [jobs EXCEPT ![id] = moved]
        /\ PollTold(id) = ms
    BY DEF Poll, Noted, Left, PollTold
  <1>2. /\ job \in Jobs /\ Open(ledger, id) /\ staging \in Stagings /\ LedgerOK(ledger)
        /\ jobs \in [Ids -> Jobs \cup {None}]
    BY <1>1, JobFacts DEF ReceiverOK, JobsOK
  <1>3. held \in Stagings
    BY <1>2 DEF Returned, Jobs
  <1>4. /\ LedgerOK(next) /\ Follows(ledger, next, id) /\ Holds(next, id)
        /\ Left(job) => Open(next, id)
        /\ ~Left(job) => Terminal(first)
    BY <1>1, NotedFacts
  <1>5. Left(job) => first.phase = "outcome_unknown"
    BY <1>2, UnknownPhase DEF Noted
  <1>6. first.id = id
    BY <1>4 DEF LedgerOK, Filed
  <1> HIDE DEF next, held, job, moved
  <1>7. deferred # None =>
            /\ abort \in Ids \ {id} /\ Open(next, abort)
            /\ next.entries[abort].task.op = "transfer_abort"
    BY <1>1, <1>4 DEF ReceiverOK, DeferredOK, Follows, Open, Holds, job
  <1>8. /\ LedgerOK(after.ledger) /\ after.ledger.highwater = next.highwater
        /\ \A i \in Ids : Open(after.ledger, i) =>
              Open(next, i) /\ after.ledger.entries[i] = next.entries[i]
        /\ \A i \in Ids : Open(next, i) /\ ~(deferred # None /\ i = abort) =>
              after.ledger.entries[i] = next.entries[i]
    BY <1>3, <1>4, <1>7, DeferredFacts
  <1>9. deferred # None =>
            \/ after.ledger = next
            \/ /\ Terminal(after.ledger.entries[abort].status)
               /\ after.ledger.entries[abort].status.id = abort
               /\ after.told = <<Report(after.ledger.entries[abort].status)>>
    BY <1>4, <1>7, DeferredEnds
  <1>10. after.told = <<>> \/ \E m : after.told = <<m>>
    BY DEF Deferred
  <1>11. 1 \in DOMAIN ms /\ ms[1] = Report(first)
    <2> HIDE DEF after
    <2> QED BY <1>10
  <1>12. ASSUME NEW m, after.told = <<m>> PROVE 2 \in DOMAIN ms /\ ms[2] = m
    <2> HIDE DEF after
    <2> QED BY <1>12
  <1> HIDE DEF after, ms, first
  <1>13. ASSUME NEW s, NEW i, Terminal(s), s.id = i PROVE Ending(Report(s), i)
    BY <1>13 DEF Ending, Report
  <1>14. ASSUME NEW i \in Ids, Open(ledger, i), ~Open(after.ledger, i)
         PROVE  \E k \in DOMAIN ms : Ending(ms[k], i)
    <2>1. CASE i = id /\ ~Left(job)
      BY <2>1, <1>4, <1>6, <1>11, <1>13
    <2>2. CASE i = id /\ Left(job)
      BY <2>2, <1>4, <1>7, <1>8, <1>14 DEF Open, Holds
    <2>3. CASE i # id
      <3>1. Open(next, i)
        BY <2>3, <1>4, <1>14 DEF Follows, Open, Holds
      <3>2. deferred # None /\ i = abort
        BY <3>1, <1>8, <1>14 DEF Open, Holds
      <3>3. after.ledger # next
        BY <3>1, <1>14
      <3> QED BY <3>2, <3>3, <1>9, <1>12, <1>13
    <2> QED BY <2>1, <2>2, <2>3
  <1>15. ASSUME NEW i \in ActiveTransfer(after.ledger)
         PROVE  \/ i = id /\ after.ledger.entries[i].status.phase = "outcome_unknown"
                \/ /\ i \in ActiveTransfer(ledger) /\ after.ledger.entries[i] = ledger.entries[i]
                   /\ jobs'[i] = jobs[i]
    <2>1. i \in Ids /\ Open(after.ledger, i) /\ Slot(after.ledger.entries[i].task.op) = "transfer"
      BY <1>15 DEF ActiveTransfer, Live, Open
    <2>2. Open(next, i) /\ after.ledger.entries[i] = next.entries[i]
      BY <2>1, <1>8
    <2>3. CASE i = id
      <3>1. Left(job)
        BY <2>2, <2>3, <1>4 DEF Open, first
      <3> QED BY <2>2, <2>3, <3>1, <1>5 DEF first
    <2>4. CASE i # id
      <3>1. next.entries[i] = ledger.entries[i] /\ jobs'[i] = jobs[i]
        BY <2>1, <2>2, <2>4, <1>1, <1>2, <1>4 DEF Follows, Open, Holds
      <3>2. i \in ActiveTransfer(ledger)
        BY <2>1, <2>2, <3>1 DEF ActiveTransfer, Live, Open, Holds
      <3> QED BY <2>2, <3>1, <3>2
    <2> QED BY <2>3, <2>4
  <1>16. after.ledger.highwater = ledger.highwater
    BY <1>4, <1>8 DEF Follows
  <1> QED BY <1>1, <1>14, <1>15, <1>16

LEMMA PollHeard ==
    ASSUME IInv, AgreeOK, HeardOK, NEW id \in Ids, Poll(id)
    PROVE  HeardOK'
  <1> DEFINE ms == PollTold(id)
  <1>1. ReceiverOK /\ SenderOK /\ LedgerOK(ledger) /\ toSender \in Seq(Outward)
    BY SeqGrows DEF IInv, ReceiverOK, AgreeOK
  <1>2. /\ UNCHANGED <<sender, number>> /\ Answer(ms) /\ Len(ms) <= 3
        /\ \E N : News(N) /\ ms \in Seq(Telling(N))
    BY <1>1, PollNews
  <1>3. PICK N : News(N) /\ ms \in Seq(Telling(N))
    BY <1>2
  <1>4. ms \in Seq(Outward \ {Broken})
    <2>1. Telling(N) \subseteq Outward \ {Broken}
      BY DEF Telling
    <2> HIDE DEF ms
    <2> QED BY <2>1, <1>3, SeqGrows
  <1>5. /\ ledger'.highwater = ledger.highwater
        /\ \A i \in Ids : Open(ledger, i) =>
              \/ Open(ledger', i)
              \/ \E k \in DOMAIN ms : Ending(ms[k], i)
        /\ \A i \in ActiveTransfer(ledger') :
              \/ i = id /\ ledger'.entries[i].status.phase = "outcome_unknown"
              \/ /\ i \in ActiveTransfer(ledger) /\ ledger'.entries[i] = ledger.entries[i]
                 /\ jobs'[i] = jobs[i]
    BY <1>1, PollEnds
  <1> HIDE DEF ms
  <1>6. ActiveTransfer(ledger)' = ActiveTransfer(ledger')
    BY DEF ActiveTransfer, Live, Holds, Terminal
  <1>7. \A i \in ActiveTransfer(ledger)' : jobs'[i] # None \/ ledger'.entries[i].status.phase # "own"
    BY <1>5, <1>6 DEF HeardOK
  <1>8. Tells(toSender, number) => Tells(toSender, number)'
    <2>1. ASSUME Tells(toSender, number) PROVE Tells(toSender', number)
      BY <2>1, <1>1, <1>2, <1>4, AnswerKeepsEnd DEF Tells
    <2> QED BY <1>2, <2>1 DEF Tells
  <1>9. ASSUME Open(ledger, number), sender.stage # "idle"
        PROVE  Open(ledger', number) \/ Tells(toSender', number)
    <2>1. number \in Ids
      BY <1>1, <1>9 DEF SenderOK
    <2>2. ASSUME NEW k \in DOMAIN ms, Ending(ms[k], number) PROVE Tells(toSender', number)
      BY <2>2, <1>1, <1>2, <1>3, AnswerTellsEnd DEF Tells
    <2> QED BY <2>1, <2>2, <1>5, <1>9
  <1>10. sender'.stage # "idle" =>
             number' > ledger'.highwater \/ Open(ledger', number') \/ Tells(toSender', number')
    BY <1>2, <1>5, <1>8, <1>9 DEF HeardOK, Tells
  <1> QED BY <1>2, <1>7, <1>10 DEF HeardOK, Open, Holds, Terminal, Tells

LEMMA WorkHeard ==
    ASSUME IInv, AgreeOK, HeardOK, NEW id \in Ids, Worker(id) \/ Failure(id), ~Poll(id)
    PROVE  HeardOK'
  <1>1. /\ jobs[id] # None
        /\ UNCHANGED <<up, ledger, staging, deferred, ran, loose, sender, number, toSender>>
    BY DEF Worker, Failure, Begin, Upload, Abort, CommitRefused, Apply, Answered, Read,
           UploadFails, Reject, ApplyFails, CommitUncertain, Dies, ReadFails,
           Applying, Working, WorkerLeaves, durable, outward
  <1>2. ReceiverOK
    BY DEF IInv
  <1>3. Works(id)
    <2>1. CASE Begin(id) \/ Upload(id) \/ Abort(id) \/ UploadFails(id)
      BY <2>1, <1>2, StagingWorkers
    <2>2. ASSUME NEW step \in Running \cup Ended, Ends(id, step) PROVE Works(id)
      BY <2>2, <1>1, <1>2, EndsFacts
    <2>3. CASE Read(id)
      <3>1. Established(jobs[id], jobs[id].payload \in stored) \in Running \cup Ended
        BY Steps DEF Established
      <3> QED BY <3>1, <2>2, <2>3 DEF Read
    <2>4. CASE /\ ~(Begin(id) \/ Upload(id) \/ Abort(id) \/ UploadFails(id)) /\ ~Read(id)
      <3>1. \/ Ends(id, "failed") \/ Ends(id, "applied") \/ Ends(id, "attempt")
            \/ Ends(id, "uncertain") \/ Ends(id, "ok") \/ Ends(id, "dead") \/ Ends(id, "unknown")
        BY <2>4 DEF Worker, Failure, CommitRefused, Apply, Answered, Reject, ApplyFails,
                    CommitUncertain, Dies, ReadFails
      <3> QED BY <3>1, <2>2, Steps
    <2> QED BY <2>1, <2>3, <2>4
  <1>4. \A i \in Ids : jobs[i] # None => jobs'[i] # None
    BY <1>3, AbsenceAssumption DEF Works
  <1> QED BY <1>1, <1>4, StayHeard

LEMMA HeardInit == Init => HeardOK
  <1> SUFFICES ASSUME Init PROVE HeardOK
    OBVIOUS
  <1>1. /\ ledger = NewLedger /\ sender.stage = "idle" /\ sender.view = None
    BY DEF Init, Rest
  <1>2. \A i \in Ids : ~Holds(ledger, i)
    BY <1>1, FreshLedger
  <1> QED BY <1>1, <1>2 DEF HeardOK, ActiveTransfer, Live

LEMMA HeardNext == IInv /\ AgreeOK /\ TurnOK /\ HeardOK /\ [Next]_vars => HeardOK'
  <1> SUFFICES ASSUME IInv, AgreeOK, TurnOK, HeardOK, [Next]_vars PROVE HeardOK'
    OBVIOUS
  <1>1. CASE UNCHANGED vars
    BY <1>1, StayHeard DEF vars, outward, inward
  <1>2. ASSUME NEW e \in Events, Deliver(e) PROVE HeardOK'
    BY <1>2, SendHeard DEF Deliver, inward
  <1>3. ASSUME NEW e \in Events, PreparationFails(e) \/ Drain(e) \/ DrainUncertain(e) PROVE HeardOK'
    BY <1>3, StayHeard DEF PreparationFails, Drain, DrainUncertain, inward, outward
  <1>4. ASSUME NEW id \in Ids, Worker(id) \/ Failure(id) PROVE HeardOK'
    BY <1>4, WorkHeard, PollHeard
  <1>5. ASSUME NEW id \in Ids, Repeat(id) PROVE HeardOK'
    BY <1>5, StayHeard DEF Repeat, inward, outward
  <1>6. CASE CancelTask \/ Retry
    BY <1>6, StayHeard DEF CancelTask, Retry, inward, outward
  <1>7. CASE TurnEarly
    BY <1>7, SendHeard DEF TurnEarly, inward
  <1>8. CASE Hear
    BY <1>8, HearHeard
  <1>9. CASE Take
    BY <1>9, TakeHeard
  <1>10. ASSUME NEW l \in limbo, Settle(l) PROVE HeardOK'
    BY <1>10, StayHeard DEF Settle, inward, outward
  <1>11. CASE Connect
    BY <1>11, StayHeard DEF Connect, inward, outward
  <1>12. CASE Cut \/ CrashReceiver \/ CrashSender
    <2>1. ledger' = NewLedger /\ sender'.stage = "idle" /\ sender'.view = None
      BY <1>12 DEF Cut, CrashReceiver, CrashSender, EndSession, Drop, Rest
    <2>2. \A i \in Ids : ~Holds(ledger', i)
      BY <2>1, FreshLedger
    <2> QED BY <2>1, <2>2 DEF HeardOK, ActiveTransfer, Live, Holds
  <1> QED BY <1>1, <1>2, <1>3, <1>4, <1>5, <1>6, <1>7, <1>8, <1>9, <1>10, <1>11, <1>12 DEF Next

(* A sender with a task under way never waits for an answer that nobody is  *)
(* going to give: the task or its end is on its way, a worker of it or of   *)
(* the task its abort waits for is at work, or a commit of this session has *)
(* an outcome that stays unknown.                                           *)
THEOREM SomebodyAlwaysAnswers == Spec => []WaitsForSomebody
  <1>1. ASSUME IInv, TurnOK, HeardOK PROVE WaitsForSomebody
    <2> DEFINE queued == \E k \in DOMAIN toReceiver :
                            toReceiver[k].kind = "submit" /\ toReceiver[k].task.id = number
               works(i) == jobs[i] # None \/ Undetermined
    <2> SUFFICES ASSUME sender.stage # "idle"
                 PROVE  \/ queued \/ Tells(toSender, number) \/ works(number)
                        \/ deferred # None /\ deferred.abort = number /\ works(deferred.task)
      BY DEF WaitsForSomebody, Tells
    <2>1. number \in Ids /\ number \in Nat /\ ledger.highwater \in Nat
      BY <1>1, Numbers DEF IInv, SenderOK
    <2>2. CASE number > ledger.highwater
      <3>1. number \in ledger.highwater + 1 .. number
        BY <2>1, <2>2
      <3> QED BY <3>1, <1>1 DEF TurnOK, QueueOK
    <2>3. ASSUME NEW i \in ActiveTransfer(ledger) PROVE works(i)
      BY <1>1 DEF HeardOK, Undetermined
    <2>4. CASE Open(ledger, number)
      <3>1. CASE ledger.entries[number].task.op # "transfer_abort"
        <4>1. number \in ActiveTransfer(ledger)
          BY <3>1, <2>1, <2>4 DEF ActiveTransfer, Live, Open, Slot
        <4> QED BY <4>1, <2>3
      <3>2. CASE ledger.entries[number].task.op = "transfer_abort"
        <4>1. jobs[number] # None \/ (deferred # None /\ deferred.abort = number)
          BY <3>2, <1>1, <2>1, <2>4 DEF TurnOK, WorkOK
        <4>2. deferred # None => deferred.task \in ActiveTransfer(ledger)
          BY <1>1 DEF TurnOK, WorkOK
        <4> QED BY <4>1, <4>2, <2>3
      <3> QED BY <3>1, <3>2
    <2> QED BY <2>2, <2>4, <1>1 DEF HeardOK
  <1>2. Spec => []DeliveryOK
    BY DeliveryInit, DeliveryNext, Invariant, PTL DEF Spec
  <1>3. Spec => []AgreeOK
    BY AgreeInit, AgreeNext, Invariant, PTL DEF Spec
  <1>4. Spec => []TurnOK
    BY <1>2, TurnInit, TurnNext, Invariant, PTL DEF Spec
  <1> QED BY <1>1, <1>3, <1>4, HeardInit, HeardNext, Invariant, PTL DEF Spec
=============================================================================
