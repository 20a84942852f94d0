--------------------------- MODULE SyncTasks_proofs ---------------------------
(***************************************************************************)
(* What holds of a task session whatever the peer sends, however many tasks *)
(* and events there are and whatever fails: a task starts at most once, its *)
(* worker always finds it in the ledger, two transactions never run at a    *)
(* time, and a commit that was reported as failed has not taken effect.     *)
(***************************************************************************)
EXTENDS SyncTasks, FiniteSetTheorems, SequenceTheorems, TLAPS

(* A ledger: numbers up to the mark have been used, every task it holds is  *)
(* filed under its number, and what waits to be forgotten has ended.        *)
Ledgers == [highwater : 0 .. MaxTasks, entries : [Ids -> Entry \cup {None}], finished : Seq(Ids)]

ForgottenHaveEnded(l) ==
    \A k \in 1 .. Len(l.finished) :
        LET i == l.finished[k]
        IN i <= l.highwater /\ (Holds(l, i) => Terminal(l.entries[i].status))

Filed(l) ==
    \A i \in Ids : Holds(l, i) =>
        /\ i <= l.highwater
        /\ l.entries[i].task.id = i
        /\ l.entries[i].status.id = i

(* One task at a time in each slot.                                         *)
OneLive(l) ==
    \A slot \in {"transfer", "housekeeping"} : \A i, j \in Live(l, slot) : i = j

LedgerOK(l) == l \in Ledgers /\ ForgottenHaveEnded(l) /\ Filed(l)

Open(l, i) == Holds(l, i) /\ ~Terminal(l.entries[i].status)

Inward == [kind : {"submit"}, task : Task] \cup [kind : {"get", "cancel"}, id : Ids]

(* What the sender does, as far as it matters to the receiver: its tasks    *)
(* are well formed.                                                         *)
SenderOK ==
    /\ toReceiver \in Seq(Inward)
    /\ number \in 0 .. MaxTasks
    /\ sender.stage \in Stages
    /\ sender = [stage |-> sender.stage, event |-> sender.event,
                 view |-> sender.view, early |-> sender.early]
    /\ sender.stage # "idle" => sender.event \in Events /\ number \in Ids

(* A worker has its task in the ledger, open and under its own operation.   *)
JobsOK ==
    /\ staging \in Stagings
    /\ jobs \in [Ids -> Jobs \cup {None}]
    /\ \A i \in Ids : jobs[i] # None =>
           up /\ Open(ledger, i) /\ ledger.entries[i].task.op = jobs[i].op

(* So has the abort that waits, and nobody else works on it.                *)
DeferredOK ==
    deferred # None =>
        /\ deferred.abort \in Ids
        /\ Open(ledger, deferred.abort)
        /\ ledger.entries[deferred.abort].task.op = "transfer_abort"
        /\ jobs[deferred.abort] = None

StartedOnce ==
    /\ ran \in [Ids -> Nat]
    /\ \A i \in Ids : ran[i] <= 1 /\ (i > ledger.highwater => ran[i] = 0)

(* A session begins when the commits of the one before have ended.          *)
LooseOK ==
    /\ up => loose = {}
    /\ \A e, f \in loose : e = f

(* No commit of this number took effect or may still take effect.           *)
Unharmed(i) == i \notin landed /\ \A l \in limbo : l.id # i

(* What a worker has come to tells what its commit has done.                *)
CommitsOK ==
    /\ \A i \in landed : i \in Ids /\ i <= ledger.highwater
    /\ \A l \in limbo : /\ l.id \in 0 .. ledger.highwater
                        /\ l = [id |-> l.id, event |-> l.event]
    /\ \A i \in Ids : jobs[i] # None /\ Durable(jobs[i]) =>
          /\ jobs[i].step \in {"running", "failed", "attempt"} => Unharmed(i)
          /\ jobs[i].step = "reading" /\ ~jobs[i].doubt => Unharmed(i)
          /\ jobs[i].step = "uncertain" => jobs[i].event # None

ReceiverOK ==
    /\ LedgerOK(ledger) /\ OneLive(ledger)
    /\ JobsOK /\ DeferredOK /\ StartedOnce /\ LooseOK /\ CommitsOK /\ FailureIsProven

IInv == SenderOK /\ ReceiverOK
-----------------------------------------------------------------------------
(***************************************************************************)
(* The ledger.                                                             *)
(***************************************************************************)

(* m has another status for id, and what else it lacks had ended.           *)
Follows(l, m, id) ==
    /\ m.highwater = l.highwater
    /\ \A j \in Ids \ {id} :
          \/ m.entries[j] = l.entries[j]
          \/ m.entries[j] = None /\ (Holds(l, j) => Terminal(l.entries[j].status))

LEMMA EntryFacts ==
    ASSUME NEW l \in Ledgers, NEW i \in Ids, Holds(l, i)
    PROVE  /\ l.entries[i] \in Entry
           /\ l.entries[i].task \in Task
           /\ l.entries[i].status \in Status
  BY DEF Ledgers, Holds, Entry

(* A status takes the place of one that has not ended.                      *)
LEMMA PutFacts ==
    ASSUME NEW l, LedgerOK(l), NEW id \in Ids, Open(l, id),
           NEW s \in Status, s.id = id
    PROVE  LET m == Put(l, s)
           IN /\ LedgerOK(m)
              /\ Follows(l, m, id)
              /\ Holds(m, id)
              /\ m.entries[id].task = l.entries[id].task
              /\ m.entries[id].status = s
              /\ m.finished = l.finished
  <1> DEFINE m == Put(l, s)
             e == [l.entries[id] EXCEPT !.status = s]
  <1>1. l \in Ledgers /\ l.entries[id] \in Entry /\ Holds(l, id)
    BY EntryFacts DEF LedgerOK, Open
  <1>2. e \in Entry /\ e.task = l.entries[id].task /\ e.status = s
    BY <1>1 DEF Entry
  <1>3. m = [l EXCEPT !.entries = [@ EXCEPT ![id] = e]]
    BY <1>1 DEF Put
  <1>4. /\ m \in Ledgers
        /\ m.highwater = l.highwater /\ m.finished = l.finished
        /\ m.entries[id] = e
        /\ \A j \in Ids \ {id} : m.entries[j] = l.entries[j]
    BY <1>1, <1>2, <1>3 DEF Ledgers
  <1> HIDE DEF m, e
  <1>5. Holds(m, id)
    BY <1>2, <1>4, NoneAssumption DEF Holds
  <1>6. ForgottenHaveEnded(m)
    <2> SUFFICES ASSUME NEW k \in 1 .. Len(m.finished)
                 PROVE  /\ m.finished[k] <= m.highwater
                        /\ Holds(m, m.finished[k]) => Terminal(m.entries[m.finished[k]].status)
      BY DEF ForgottenHaveEnded
    <2>1. /\ l.finished[k] \in Ids /\ l.finished[k] <= l.highwater
          /\ Holds(l, l.finished[k]) => Terminal(l.entries[l.finished[k]].status)
      BY <1>1, <1>4 DEF LedgerOK, ForgottenHaveEnded, Ledgers
    <2>2. l.finished[k] # id
      BY <2>1 DEF Open
    <2> QED BY <2>1, <2>2, <1>4 DEF Holds
  <1>7. Filed(m)
    BY <1>1, <1>2, <1>4 DEF LedgerOK, Filed, Holds
  <1>8. Follows(l, m, id)
    BY <1>4 DEF Follows
  <1> QED BY <1>2, <1>4, <1>5, <1>6, <1>7, <1>8 DEF LedgerOK, m

LEMMA RunningStatus ==
    ASSUME NEW t \in Status, NEW phase \in {"own", "cancellation_pending", "outcome_unknown"}
    PROVE  LET s == [t EXCEPT !.seq = @ + 1, !.state = "running", !.phase = phase]
           IN s \in Status /\ s.id = t.id /\ ~Terminal(s)
  <1> DEFINE s == [t EXCEPT !.seq = @ + 1, !.state = "running", !.phase = phase]
  <1>1. t.seq + 1 \in Nat \ {0}
    BY DEF Status
  <1>2. s \in Status
    BY <1>1 DEF Status
  <1>3. s.id = t.id /\ s.state = "running"
    BY DEF Status
  <1> QED BY <1>2, <1>3 DEF Terminal

LEMMA OutcomeStatus ==
    ASSUME NEW t \in Status, NEW result \in {"succeeded", "cancelled"} \cup Codes
    PROVE  LET s == Outcome(t, result)
           IN /\ s \in Status /\ s.id = t.id /\ Terminal(s)
              /\ s.state = "succeeded" <=> result = "succeeded"
  <1> DEFINE s == Outcome(t, result)
             state == IF result \in {"succeeded", "cancelled"} THEN result ELSE "failed"
             code == IF result \in {"succeeded", "cancelled"} THEN "none" ELSE result
  <1>1. t.seq + 1 \in Nat \ {0}
    BY DEF Status
  <1>2. code \in Codes
    BY DEF Codes
  <1>3. /\ state \in {"succeeded", "cancelled", "failed"}
        /\ state = "succeeded" <=> result = "succeeded"
    OBVIOUS
  <1>4. s = [t EXCEPT !.seq = t.seq + 1, !.state = state, !.code = code]
    BY DEF Outcome
  <1> HIDE DEF s, state, code
  <1>5. s \in Status /\ s.id = t.id /\ s.state = state
    BY <1>1, <1>2, <1>3, <1>4 DEF Status
  <1> QED BY <1>3, <1>5 DEF Terminal, s

(* Update and Unknown: the task stays open.                                 *)
LEMMA UpdateFacts ==
    ASSUME NEW l, LedgerOK(l), NEW id \in Ids, Open(l, id),
           NEW phase \in {"own", "cancellation_pending", "outcome_unknown"}
    PROVE  LET m == Update(l, id, phase)
           IN /\ LedgerOK(m)
              /\ Follows(l, m, id)
              /\ Open(m, id)
              /\ m.entries[id].task = l.entries[id].task
  <1> DEFINE s == [l.entries[id].status EXCEPT !.seq = @ + 1, !.state = "running", !.phase = phase]
  <1>1. l.entries[id].status \in Status /\ l.entries[id].status.id = id
    BY EntryFacts DEF LedgerOK, Open, Filed
  <1>2. s \in Status /\ s.id = id /\ ~Terminal(s)
    BY <1>1, RunningStatus
  <1>3. Update(l, id, phase) = Put(l, s)
    BY DEF Update, Open
  <1> HIDE DEF s
  <1> QED BY <1>2, <1>3, PutFacts DEF Open

LEMMA UnknownFacts ==
    ASSUME NEW l, LedgerOK(l), NEW id \in Ids, Open(l, id)
    PROVE  LET m == Unknown(l, id)
           IN /\ LedgerOK(m)
              /\ Follows(l, m, id)
              /\ Open(m, id)
              /\ m.entries[id].task = l.entries[id].task
  <1> DEFINE u == Update(l, id, "outcome_unknown")
             s == [u.entries[id].status EXCEPT !.code = "outcome_unknown"]
  <1>1. LedgerOK(u) /\ Open(u, id)
    BY UpdateFacts
  <1>2. u.entries[id].status \in Status /\ u.entries[id].status.id = id
    BY <1>1, EntryFacts DEF LedgerOK, Open, Filed
  <1>3. s \in Status /\ s.id = id /\ ~Terminal(s)
    BY <1>1, <1>2 DEF Status, Terminal, Codes, Open
  <1>4. Unknown(l, id) = Put(l, s)
    BY DEF Unknown, Open
  <1> HIDE DEF s, u
  <1> QED BY <1>3, <1>4, PutFacts DEF Open

(* Forgetting the oldest of the tasks that have ended.                      *)
LEMMA RetireFacts ==
    ASSUME NEW l, LedgerOK(l), NEW id \in Ids, Holds(l, id), Terminal(l.entries[id].status)
    PROVE  LET m == Retire(l, id)
           IN /\ LedgerOK(m)
              /\ m.highwater = l.highwater
              /\ \A j \in Ids : \/ m.entries[j] = l.entries[j]
                                \/ /\ m.entries[j] = None
                                   /\ \E k \in 1 .. Len(l.finished) : l.finished[k] = j
  <1> DEFINE m == Retire(l, id)
             f == Append(l.finished, id)
             g == Tail(f)
             e == [l.entries EXCEPT ![Head(f)] = None]
  <1>1. /\ l \in Ledgers /\ l.finished \in Seq(Ids)
        /\ l.entries \in [Ids -> Entry \cup {None}] /\ l.highwater \in 0 .. MaxTasks
    BY DEF LedgerOK, Ledgers
  <1>2. /\ f \in Seq(Ids) /\ Len(f) = Len(l.finished) + 1 /\ Len(f) \in Nat
        /\ \A k \in 1 .. Len(f) :
              /\ f[k] \in Ids /\ f[k] <= l.highwater
              /\ Holds(l, f[k]) => Terminal(l.entries[f[k]].status)
    <2>1. f \in Seq(Ids) /\ Len(f) = Len(l.finished) + 1 /\ Len(f) \in Nat
      BY <1>1
    <2>2. id <= l.highwater
      BY DEF LedgerOK, Filed
    <2>3. \A k \in 1 .. Len(f) : f[k] = IF k <= Len(l.finished) THEN l.finished[k] ELSE id
      BY <1>1
    <2>4. \A k \in 1 .. Len(f) : f[k] \in Ids
      BY <2>1
    <2>5. \A k \in 1 .. Len(l.finished) :
              /\ l.finished[k] <= l.highwater
              /\ Holds(l, l.finished[k]) => Terminal(l.entries[l.finished[k]].status)
      BY DEF LedgerOK, ForgottenHaveEnded
    <2>6. ASSUME NEW k \in 1 .. Len(f)
          PROVE  f[k] <= l.highwater /\ (Holds(l, f[k]) => Terminal(l.entries[f[k]].status))
      <3>1. CASE k <= Len(l.finished)
        <4>1. k \in 1 .. Len(l.finished)
          BY <3>1, <1>1, <2>1
        <4> QED BY <4>1, <3>1, <2>3, <2>5
      <3>2. CASE ~(k <= Len(l.finished))
        BY <3>2, <2>2, <2>3
      <3> QED BY <3>1, <3>2
    <2> QED BY <2>1, <2>4, <2>6
  <1> HIDE DEF f
  <1>3. CASE Len(f) <= Retained
    <2>1. m = [l EXCEPT !.finished = f]
      BY <1>3 DEF Retire, f
    <2>2. /\ m \in Ledgers /\ m.highwater = l.highwater
          /\ m.entries = l.entries /\ m.finished = f
      BY <1>1, <1>2, <2>1 DEF Ledgers
    <2> HIDE DEF m
    <2>3. ForgottenHaveEnded(m)
      BY <1>2, <2>2 DEF ForgottenHaveEnded, Holds
    <2>4. Filed(m)
      BY <2>2 DEF LedgerOK, Filed, Holds
    <2> QED BY <2>2, <2>3, <2>4 DEF LedgerOK, m
  <1>4. CASE ~(Len(f) <= Retained)
    <2>1. m = [l EXCEPT !.finished = g, !.entries = e]
      BY <1>4, <1>1 DEF Retire, f
    <2>2. f # <<>> /\ Head(f) = f[1] /\ 1 \in 1 .. Len(f)
      BY <1>2, <1>1
    <2>3. /\ g \in Seq(Ids) /\ Len(g) = Len(f) - 1
          /\ \A k \in 1 .. Len(g) : g[k] = f[k + 1] /\ k + 1 \in 1 .. Len(f)
      BY <1>2, <2>2
    <2>4. Head(f) \in Ids /\ \E k \in 1 .. Len(l.finished) : l.finished[k] = Head(f)
      <3>1. Len(l.finished) \in Nat /\ Len(l.finished) >= 1
        BY <1>1, <1>2, <1>4, RetainedAssumption
      <3>2. f[1] = l.finished[1]
        BY <3>1, <1>1 DEF f
      <3> QED BY <1>2, <2>2, <3>1, <3>2
    <2>5. /\ e \in [Ids -> Entry \cup {None}]
          /\ e[Head(f)] = None
          /\ \A j \in Ids : j # Head(f) => e[j] = l.entries[j]
      BY <1>1, <2>4
    <2> HIDE DEF e, g
    <2>6. /\ m \in Ledgers /\ m.highwater = l.highwater
          /\ m.entries = e /\ m.finished = g
      BY <1>1, <2>1, <2>3, <2>5 DEF Ledgers
    <2> HIDE DEF m
    <2>7. \A j \in Ids : \/ m.entries[j] = l.entries[j]
                         \/ /\ m.entries[j] = None
                            /\ \E k \in 1 .. Len(l.finished) : l.finished[k] = j
      BY <2>4, <2>5, <2>6
    <2>8. ForgottenHaveEnded(m)
      <3> SUFFICES ASSUME NEW k \in 1 .. Len(g)
                   PROVE  /\ g[k] <= l.highwater
                          /\ Holds(m, g[k]) => Terminal(m.entries[g[k]].status)
        BY <2>6 DEF ForgottenHaveEnded
      <3>1. /\ g[k] \in Ids /\ g[k] <= l.highwater
            /\ Holds(l, g[k]) => Terminal(l.entries[g[k]].status)
        BY <1>2, <2>3
      <3> QED BY <3>1, <2>7 DEF Holds
    <2>9. Filed(m)
      BY <2>6, <2>7 DEF LedgerOK, Filed, Holds
    <2> QED BY <2>6, <2>7, <2>8, <2>9 DEF LedgerOK, m
  <1> QED BY <1>3, <1>4

(* A task ends, and is filed as ended.                                      *)
LEMMA FinishFacts ==
    ASSUME NEW l, LedgerOK(l), NEW id \in Ids, Open(l, id),
           NEW result \in {"succeeded", "cancelled"} \cup Codes
    PROVE  LET m == Finish(l, id, result)
           IN /\ LedgerOK(m)
              /\ Follows(l, m, id)
              /\ Holds(m, id)
              /\ m.entries[id].task = l.entries[id].task
              /\ Terminal(m.entries[id].status)
              /\ m.entries[id].status.state = "succeeded" <=> result = "succeeded"
  <1> DEFINE s == Outcome(l.entries[id].status, result)
             p == Put(l, s)
  <1>1. l.entries[id].status \in Status /\ l.entries[id].status.id = id
    BY EntryFacts DEF LedgerOK, Open, Filed
  <1>2. /\ s \in Status /\ s.id = id /\ Terminal(s)
        /\ s.state = "succeeded" <=> result = "succeeded"
    BY <1>1, OutcomeStatus
  <1>3. Finish(l, id, result) = Retire(p, id)
    BY DEF Finish, Open
  <1> HIDE DEF s
  <1>4. /\ LedgerOK(p) /\ Follows(l, p, id) /\ Holds(p, id)
        /\ p.entries[id].task = l.entries[id].task /\ p.entries[id].status = s
        /\ p.finished = l.finished
    BY <1>2, PutFacts
  <1> HIDE DEF p
  <1> DEFINE m == Retire(p, id)
  <1>5. /\ LedgerOK(m)
        /\ m.highwater = p.highwater
        /\ \A j \in Ids : \/ m.entries[j] = p.entries[j]
                          \/ /\ m.entries[j] = None
                             /\ \E k \in 1 .. Len(p.finished) : p.finished[k] = j
    BY <1>2, <1>4, RetireFacts
  <1> HIDE DEF m
  <1>6. \A j \in Ids : (\E k \in 1 .. Len(l.finished) : l.finished[k] = j) =>
                           (Holds(l, j) => Terminal(l.entries[j].status))
    BY DEF LedgerOK, ForgottenHaveEnded
  <1>7. Follows(l, m, id)
    BY <1>4, <1>5, <1>6 DEF Follows, Holds
  <1>8. m.entries[id] = p.entries[id]
    BY <1>4, <1>5, <1>6 DEF Open
  <1>9. Holds(m, id)
    BY <1>4, <1>8 DEF Holds
  <1> QED BY <1>2, <1>3, <1>4, <1>5, <1>7, <1>8, <1>9 DEF m

(* Numbers beyond the mark are not in use.                                  *)
LEMMA Unused ==
    ASSUME NEW l, LedgerOK(l), NEW i \in Ids, i > l.highwater
    PROVE  ~Holds(l, i) /\ \A k \in 1 .. Len(l.finished) : l.finished[k] # i
  <1>1. l.highwater \in Nat /\ i \in Nat
    BY MaxTasksAssumption DEF LedgerOK, Ledgers, Ids
  <1>2. \A k \in 1 .. Len(l.finished) : l.finished[k] <= l.highwater /\ l.finished[k] \in Ids
    BY DEF LedgerOK, ForgottenHaveEnded, Ledgers
  <1> QED BY <1>1, <1>2 DEF LedgerOK, Filed, Ids

(* A new task is filed under the next number.                               *)
LEMMA EnterFacts ==
    ASSUME NEW l, LedgerOK(l), NEW task \in Task, task.id = l.highwater + 1
    PROVE  LET m == Enter(l, task)
           IN /\ LedgerOK(m)
              /\ m.highwater = task.id
              /\ \A j \in Ids \ {task.id} : m.entries[j] = l.entries[j]
              /\ Open(m, task.id)
              /\ m.entries[task.id].task = task
              /\ m.finished = l.finished
  <1> DEFINE m == Enter(l, task)
             id == task.id
             e == [task |-> task,
                   status |-> [id |-> task.id, seq |-> 1, state |-> "queued",
                               phase |-> "own", code |-> "none"]]
  <1>1. id \in Ids /\ id \in 0 .. MaxTasks /\ l \in Ledgers /\ l.highwater \in Nat /\ id > l.highwater
    BY MaxTasksAssumption DEF LedgerOK, Ledgers, Task, Ids
  <1>2. /\ e \in Entry /\ e.task = task /\ e.task.id = id /\ e.status.id = id
        /\ ~Terminal(e.status)
    BY <1>1 DEF Entry, Status, Codes, Terminal
  <1>3. m = [l EXCEPT !.highwater = id, !.entries = [l.entries EXCEPT ![id] = e]]
    BY <1>1 DEF Enter, Ledgers
  <1> HIDE DEF e, m, id
  <1>4. /\ m \in Ledgers
        /\ m.highwater = id /\ m.finished = l.finished
        /\ m.entries[id] = e
        /\ \A j \in Ids \ {id} : m.entries[j] = l.entries[j]
    <2> DEFINE g == [l.entries EXCEPT ![id] = e]
    <2>1. l.entries \in [Ids -> Entry \cup {None}] /\ l.finished \in Seq(Ids)
      BY <1>1 DEF Ledgers
    <2>2. /\ g \in [Ids -> Entry \cup {None}] /\ g[id] = e
          /\ \A j \in Ids \ {id} : g[j] = l.entries[j]
      BY <1>1, <1>2, <2>1
    <2>3. m = [l EXCEPT !.highwater = id, !.entries = g]
      BY <1>3
    <2> HIDE DEF g
    <2>4. /\ m \in Ledgers /\ m.highwater = id
          /\ m.finished = l.finished /\ m.entries = g
      BY <1>1, <2>1, <2>2, <2>3 DEF Ledgers
    <2> QED BY <2>2, <2>4
  <1>5. Open(m, id)
    BY <1>2, <1>4, NoneAssumption DEF Holds, Open
  <1>6. ForgottenHaveEnded(m)
    <2> SUFFICES ASSUME NEW k \in 1 .. Len(m.finished)
                 PROVE  /\ m.finished[k] <= m.highwater
                        /\ Holds(m, m.finished[k]) => Terminal(m.entries[m.finished[k]].status)
      BY DEF ForgottenHaveEnded
    <2>1. /\ l.finished[k] \in Ids /\ l.finished[k] <= l.highwater
          /\ Holds(l, l.finished[k]) => Terminal(l.entries[l.finished[k]].status)
      BY <1>1, <1>4 DEF LedgerOK, ForgottenHaveEnded, Ledgers
    <2>2. l.finished[k] # id
      BY <1>1, <1>4, Unused
    <2>3. l.finished[k] <= id
      BY <1>1, <2>1 DEF Ids
    <2> QED BY <2>1, <2>2, <2>3, <1>4 DEF Holds
  <1>7. Filed(m)
    <2> SUFFICES ASSUME NEW i \in Ids, Holds(m, i)
                 PROVE  i <= m.highwater /\ m.entries[i].task.id = i /\ m.entries[i].status.id = i
      BY DEF Filed
    <2>1. CASE i = id
      BY <1>1, <1>2, <1>4, <2>1
    <2>2. CASE i # id
      <3>1. /\ i <= l.highwater
            /\ l.entries[i].task.id = i /\ l.entries[i].status.id = i
        BY <1>4, <2>2 DEF LedgerOK, Filed, Holds
      <3>2. i <= id
        BY <1>1, <3>1 DEF Ids
      <3> QED BY <3>1, <3>2, <1>4, <2>2
    <2> QED BY <2>1, <2>2
  <1> QED BY <1>2, <1>4, <1>5, <1>6, <1>7 DEF LedgerOK, m, id

(* A task that finds its slot taken is filed as ended.                      *)
LEMMA EnterBusyFacts ==
    ASSUME NEW l, LedgerOK(l), OneLive(l), NEW task \in Task, task.id = l.highwater + 1
    PROVE  LET m == EnterBusy(l, task)
           IN /\ LedgerOK(m) /\ OneLive(m)
              /\ m.highwater = task.id
              /\ \A j \in Ids \ {task.id} :
                    \/ m.entries[j] = l.entries[j]
                    \/ m.entries[j] = None /\ (Holds(l, j) => Terminal(l.entries[j].status))
              /\ Holds(m, task.id) /\ Terminal(m.entries[task.id].status)
              /\ m.entries[task.id].task = task
              /\ m.entries[task.id].status.state # "succeeded"
  <1> DEFINE id == task.id
             p == Enter(l, task)
             d == Finish(p, id, "busy")
             e == [d.entries[id] EXCEPT !.status.seq = 1]
             m == EnterBusy(l, task)
  <1>1. id \in Ids
    BY DEF Task
  <1>2. /\ LedgerOK(p) /\ p.highwater = id /\ Open(p, id)
        /\ p.entries[id].task = task
        /\ \A j \in Ids \ {id} : p.entries[j] = l.entries[j]
    BY EnterFacts
  <1> HIDE DEF p
  <1>3. /\ LedgerOK(d) /\ Follows(p, d, id) /\ Holds(d, id)
        /\ Terminal(d.entries[id].status)
        /\ d.entries[id].task = task /\ d.entries[id].status.state # "succeeded"
    BY <1>1, <1>2, FinishFacts DEF Codes
  <1>4. m = [d EXCEPT !.entries = [@ EXCEPT ![id] = e]]
    <2>1. d \in Ledgers
      BY <1>3 DEF LedgerOK
    <2> QED BY <2>1, <1>1 DEF EnterBusy, p, Ledgers
  <1> HIDE DEF d, m
  <1>5. d \in Ledgers /\ d.entries[id] \in Entry /\ d.entries[id].task.id = id
        /\ d.entries[id].status.id = id
    BY <1>1, <1>3, EntryFacts DEF LedgerOK, Filed
  <1>6. /\ e \in Entry /\ e.task.id = id /\ e.status.id = id /\ Terminal(e.status)
        /\ e.task = task /\ e.status.state # "succeeded"
    <2> DEFINE was == d.entries[id].status
               told == [was EXCEPT !.seq = 1]
    <2>1. was \in Status /\ was.id = id /\ Terminal(was) /\ was.state # "succeeded"
      BY <1>3, <1>5 DEF Entry
    <2>2. /\ told \in Status /\ told.id = was.id /\ told.state = was.state
      <3> HIDE DEF was
      <3> QED BY <2>1 DEF Status
    <2>3. e = [d.entries[id] EXCEPT !.status = told]
      BY <1>5 DEF Entry
    <2> HIDE DEF told, was
    <2>4. e \in Entry /\ e.task = d.entries[id].task /\ e.status = told
      <3> HIDE DEF e
      <3> QED BY <1>5, <2>2, <2>3 DEF Entry
    <2> QED BY <1>3, <1>5, <2>1, <2>2, <2>4 DEF Terminal
  <1> HIDE DEF e
  <1>7. /\ m \in Ledgers
        /\ m.highwater = d.highwater /\ m.finished = d.finished
        /\ m.entries[id] = e
        /\ \A j \in Ids \ {id} : m.entries[j] = d.entries[j]
    BY <1>1, <1>4, <1>5, <1>6 DEF Ledgers
  <1>8. Holds(m, id)
    BY <1>6, <1>7, NoneAssumption DEF Holds
  <1>9. ForgottenHaveEnded(m)
    <2> SUFFICES ASSUME NEW k \in 1 .. Len(m.finished)
                 PROVE  /\ m.finished[k] <= m.highwater
                        /\ Holds(m, m.finished[k]) => Terminal(m.entries[m.finished[k]].status)
      BY DEF ForgottenHaveEnded
    <2>1. /\ d.finished[k] \in Ids /\ d.finished[k] <= d.highwater
          /\ Holds(d, d.finished[k]) => Terminal(d.entries[d.finished[k]].status)
      BY <1>3, <1>5, <1>7 DEF LedgerOK, ForgottenHaveEnded, Ledgers
    <2> QED BY <2>1, <1>6, <1>7 DEF Holds
  <1>10. Filed(m)
    BY <1>3, <1>6, <1>7, <1>8 DEF LedgerOK, Filed, Holds
  <1>11. m.highwater = id /\ \A j \in Ids \ {id} :
            \/ m.entries[j] = l.entries[j]
            \/ m.entries[j] = None /\ (Holds(l, j) => Terminal(l.entries[j].status))
    BY <1>2, <1>3, <1>7 DEF Follows, Holds
  <1>12. OneLive(m)
    <2>1. \A slot : Live(m, slot) \subseteq Live(l, slot)
      BY <1>6, <1>7, <1>11 DEF Live, Holds
    <2> QED BY <2>1 DEF OneLive
  <1> QED BY <1>6, <1>7, <1>8, <1>9, <1>10, <1>11, <1>12 DEF LedgerOK, m
(* Coming back to the deferred abort: only the abort is touched.            *)
LEMMA DeferredFacts ==
    ASSUME NEW l, LedgerOK(l), NEW held \in Stagings,
           deferred # None => /\ deferred.abort \in Ids /\ Open(l, deferred.abort)
                              /\ l.entries[deferred.abort].task.op = "transfer_abort"
    PROVE  LET a == Deferred(l, held)
           IN /\ LedgerOK(a.ledger) /\ a.ledger.highwater = l.highwater
              /\ a.staging \in Stagings
              /\ a.deferred # None => a.deferred = deferred /\ a.ledger = l
              /\ \A i \in Ids : Open(a.ledger, i) =>
                    Open(l, i) /\ a.ledger.entries[i] = l.entries[i]
              /\ \A i \in Ids : Open(l, i) /\ ~(deferred # None /\ i = deferred.abort) =>
                    a.ledger.entries[i] = l.entries[i]
              /\ \A i \in Ids : Holds(a.ledger, i) =>
                    /\ Holds(l, i) /\ a.ledger.entries[i].task = l.entries[i].task
                    /\ \/ a.ledger.entries[i] = l.entries[i]
                       \/ a.ledger.entries[i].task.op = "transfer_abort"
              /\ \/ a.told = <<>>
                 \/ /\ deferred # None /\ Holds(a.ledger, deferred.abort)
                    /\ a.told = <<Report(a.ledger.entries[deferred.abort].status)>>
  <1> DEFINE a == Deferred(l, held)
             waits == deferred = None \/ ~(Holds(l, deferred.task) /\ Terminal(l.entries[deferred.task].status))
             other == held # None /\ held.event # deferred.event
             result == IF other THEN "operation_failed" ELSE "succeeded"
             d == Finish(l, deferred.abort, result)
  <1>1. CASE waits
    <2>1. a.ledger = l /\ a.staging = held /\ a.deferred = deferred /\ a.told = <<>>
      BY <1>1 DEF Deferred
    <2> HIDE DEF a
    <2> QED BY <2>1 DEF a
  <1>2. CASE ~waits
    <2>1. /\ a.ledger = d /\ a.deferred = None
          /\ a.staging = IF other THEN held ELSE None
          /\ a.told = <<Report(d.entries[deferred.abort].status)>>
      BY <1>2 DEF Deferred
    <2>2. result \in {"succeeded", "cancelled"} \cup Codes
      BY DEF Codes
    <2>3. deferred # None
      BY <1>2
    <2> HIDE DEF result, a
    <2>4. /\ LedgerOK(d) /\ Follows(l, d, deferred.abort) /\ Holds(d, deferred.abort)
          /\ d.entries[deferred.abort].task = l.entries[deferred.abort].task
          /\ Terminal(d.entries[deferred.abort].status)
      BY <2>2, <2>3, FinishFacts
    <2> HIDE DEF d
    <2>5. a.staging \in Stagings
      BY <2>1 DEF Stagings
    <2>6. \A i \in Ids : Open(d, i) => Open(l, i) /\ d.entries[i] = l.entries[i]
      BY <2>4 DEF Follows, Open, Holds
    <2>7. \A i \in Ids : Open(l, i) /\ i # deferred.abort => d.entries[i] = l.entries[i]
      BY <2>4 DEF Follows, Open
    <2>8. \A i \in Ids : Holds(d, i) =>
              /\ Holds(l, i) /\ d.entries[i].task = l.entries[i].task
              /\ \/ d.entries[i] = l.entries[i]
                 \/ d.entries[i].task.op = "transfer_abort"
      BY <2>3, <2>4 DEF Follows, Holds, Open
    <2> QED BY <2>1, <2>3, <2>4, <2>5, <2>6, <2>7, <2>8 DEF Follows, a
  <1> QED BY <1>1, <1>2
-----------------------------------------------------------------------------
(***************************************************************************)
(* The sender.                                                             *)
(***************************************************************************)

LEMMA SameSender ==
    ASSUME SenderOK, UNCHANGED <<outward, toReceiver>>
    PROVE  SenderOK'
  BY DEF SenderOK, outward

LEMMA SendFacts ==
    ASSUME SenderOK, NEW stage \in {"begin", "upload", "commit", "abort"},
           NEW event \in Events, NEW early, Send(stage, event, early)
    PROVE  SenderOK'
  <1> DEFINE task == [id |-> number + 1, op |-> Op(stage), event |-> event]
  <1>1. number + 1 \in Ids /\ Op(stage) \in Operations
    BY DEF Send, Op, Operations
  <1>2. Submit(task) \in Inward
    BY <1>1 DEF Task, Submit, Inward
  <1>3. toReceiver' = Append(toReceiver, Submit(task))
    BY DEF Send
  <1> HIDE DEF task
  <1>4. toReceiver' \in Seq(Inward)
    BY <1>2, <1>3 DEF SenderOK
  <1>5. number' \in 0 .. MaxTasks /\ number' \in Ids
    BY <1>1 DEF Send, Ids
  <1>6. sender' = [stage |-> stage, event |-> event, view |-> None, early |-> early]
    BY DEF Send
  <1>7. /\ sender'.stage = stage /\ sender'.event = event
        /\ sender'.view = None /\ sender'.early = early
    BY <1>6
  <1> QED BY <1>4, <1>5, <1>6, <1>7 DEF SenderOK, Stages

LEMMA RestFacts ==
    ASSUME SenderOK, sender' = Rest, number' \in 0 .. MaxTasks, toReceiver' \in Seq(Inward)
    PROVE  SenderOK'
  <1>1. /\ sender'.stage = "idle" /\ sender'.event = None
        /\ sender'.view = None /\ sender'.early = FALSE
    BY DEF Rest
  <1> QED BY <1>1 DEF SenderOK, Stages, Rest

LEMMA ResumeFacts ==
    ASSUME SenderOK, Resume
    PROVE  SenderOK'
  BY RestFacts DEF SenderOK, Resume

LEMMA GiveUpFacts ==
    ASSUME SenderOK, sender.stage # "idle", GiveUp
    PROVE  SenderOK'
  BY SendFacts DEF SenderOK, GiveUp

LEMMA ProceedFacts ==
    ASSUME SenderOK, sender.stage \in {"begin", "upload", "commit"}, Proceed
    PROVE  SenderOK'
  <1>1. CASE sender.stage = "begin"
    <2>1. Send("upload", sender.event, FALSE)
      BY <1>1 DEF Proceed
    <2> QED BY <1>1, <2>1, SendFacts DEF SenderOK
  <1>2. CASE sender.stage = "upload"
    <2>1. Send("commit", sender.event, FALSE)
      BY <1>2 DEF Proceed
    <2> QED BY <1>2, <2>1, SendFacts DEF SenderOK
  <1>3. CASE sender.stage = "commit"
    <2>1. sender' = Rest /\ UNCHANGED <<number, toReceiver>>
      BY <1>3 DEF Proceed
    <2> QED BY <2>1, RestFacts DEF SenderOK
  <1> QED BY <1>1, <1>2, <1>3

LEMMA HearFacts ==
    ASSUME SenderOK, Hear
    PROVE  SenderOK'
  <1>1. CASE HearError(Head(toSender).id)
    BY <1>1, SameSender, ResumeFacts, GiveUpFacts DEF HearError, Awaits
  <1>2. ASSUME NEW status, HearStatus(status),
               ~ /\ Awaits(status.id) /\ sender.view # None
                 /\ AcceptUpdate(sender.view, status) = "conflict"
        PROVE  SenderOK'
    <2> DEFINE verdict == IF sender.view = None THEN "new" ELSE AcceptUpdate(sender.view, status)
    <2>1. CASE UNCHANGED <<outward, toReceiver>>
      BY <2>1, SameSender
    <2>2. CASE sender' = [sender EXCEPT !.view = status] /\ UNCHANGED <<number, toReceiver>>
      <3>1. /\ sender' = [stage |-> sender.stage, event |-> sender.event,
                          view |-> status, early |-> sender.early]
        BY <2>2 DEF SenderOK
      <3> QED BY <3>1, <2>2 DEF SenderOK
    <2>3. CASE Resume
      BY <2>3, ResumeFacts
    <2>4. CASE sender.stage \in {"begin", "upload", "commit"} /\ (Proceed \/ GiveUp)
      BY <2>4, ProceedFacts, GiveUpFacts
    <2>5. \/ UNCHANGED <<outward, toReceiver>>
          \/ sender' = [sender EXCEPT !.view = status] /\ UNCHANGED <<number, toReceiver>>
          \/ Resume
          \/ sender.stage \in {"begin", "upload", "commit"} /\ (Proceed \/ GiveUp)
      <3>1. CASE ~Awaits(status.id)
        BY <3>1, <1>2 DEF HearStatus
      <3>2. CASE Awaits(status.id)
        <4>1. sender.stage \in Stages \ {"idle"}
          BY <3>2 DEF Awaits, SenderOK
        <4>2. verdict \in {"old", "new", "conflict"}
          BY DEF AcceptUpdate
        <4>3. CASE verdict = "old"
          BY <4>3, <3>2, <1>2 DEF HearStatus
        <4>4. CASE verdict = "new" /\ ~Terminal(status)
          BY <4>4, <3>2, <1>2 DEF HearStatus
        <4>5. CASE verdict = "new" /\ Terminal(status) /\ sender.stage = "abort"
          BY <4>5, <3>2, <1>2 DEF HearStatus
        <4>6. CASE verdict = "new" /\ Terminal(status) /\ sender.stage # "abort"
          BY <4>6, <4>1, <3>2, <1>2 DEF HearStatus, Stages
        <4>7. CASE verdict = "conflict"
          <5>1. sender.view # None /\ AcceptUpdate(sender.view, status) = "conflict"
            BY <4>7
          <5> QED BY <5>1, <3>2, <1>2
        <4> QED BY <4>2, <4>3, <4>4, <4>5, <4>6, <4>7
      <3> QED BY <3>1, <3>2
    <2> QED BY <2>1, <2>2, <2>3, <2>4, <2>5
  <1> QED BY <1>1, <1>2 DEF Hear, Conflicting

(* A question that waits is asked once.                                     *)
LEMMA JoinGet ==
    ASSUME NEW q \in Seq(Inward), NEW id \in Ids, NEW merge
    PROVE  Join(q, Get(id), merge) \in Seq(Inward)
  <1> DEFINE message == Get(id)
             same == {i \in DOMAIN q : SameTask(q[i], message)}
             i == CHOOSE j \in same : TRUE
  <1>1. message \in Inward /\ message.kind = "get"
    BY DEF Get, Inward
  <1> HIDE DEF message
  <1>2. CASE ~merge \/ same = {}
    BY <1>1, <1>2 DEF Join, message
  <1>3. CASE ~(~merge \/ same = {})
    <2>1. i \in 1 .. Len(q)
      BY <1>3
    <2>2. Join(q, message, merge) = [q EXCEPT ![i] = message]
      BY <1>1, <1>3 DEF Join
    <2> HIDE DEF i
    <2>3. [q EXCEPT ![i] = message] \in Seq(Inward)
      BY <1>1, <2>1, ExceptSeq
    <2> QED BY <2>2, <2>3 DEF message
  <1> QED BY <1>2, <1>3

LEMMA RepeatFacts ==
    ASSUME SenderOK, LedgerOK(ledger), NEW id \in Ids, Repeat(id)
    PROVE  SenderOK'
  <1>1. toReceiver' \in Seq(Inward)
    <2>1. CASE \E merge \in Merges : toReceiver' = Join(toReceiver, Get(id), merge)
      BY <2>1, JoinGet DEF SenderOK
    <2>2. CASE Holds(ledger, id) /\ toReceiver' = Append(toReceiver, Submit(ledger.entries[id].task))
      <3>1. ledger.entries[id].task \in Task
        BY <2>2, EntryFacts DEF LedgerOK
      <3>2. Submit(ledger.entries[id].task) \in Inward
        BY <3>1 DEF Submit, Inward
      <3> QED BY <2>2, <3>2 DEF SenderOK
    <2> QED BY <2>1, <2>2 DEF Repeat
  <1> QED BY <1>1 DEF SenderOK, Repeat, outward

LEMMA CancelFacts ==
    ASSUME SenderOK, CancelTask
    PROVE  SenderOK'
  <1>1. Cancel(number) \in Inward
    BY DEF CancelTask, SenderOK, Cancel, Inward
  <1>2. toReceiver' \in Seq(Inward)
    BY <1>1 DEF CancelTask, SenderOK
  <1> QED BY <1>2 DEF SenderOK, CancelTask, outward

LEMMA EarlyFacts ==
    ASSUME SenderOK, TurnEarly
    PROVE  SenderOK'
  <1>1. sender.event \in Events
    BY DEF TurnEarly, SenderOK
  <1>2. CASE Send("abort", sender.event, TRUE)
    BY <1>1, <1>2, SendFacts
  <1>3. CASE Send("commit", sender.event, FALSE)
    BY <1>1, <1>3, SendFacts
  <1> QED BY <1>2, <1>3 DEF TurnEarly
-----------------------------------------------------------------------------
(***************************************************************************)
(* The receiver: what its steps have in common.                            *)
(***************************************************************************)

LEMMA SameReceiver ==
    ASSUME ReceiverOK, UNCHANGED <<inward, durable, up>>
    PROVE  ReceiverOK'
  BY DEF ReceiverOK, JobsOK, DeferredOK, StartedOnce, LooseOK, CommitsOK, FailureIsProven,
         Unharmed, inward, durable

(* The job of id takes a step, no task is opened, no other one is closed.   *)
LEMMA TaskStep ==
    ASSUME ReceiverOK, NEW id \in Ids, jobs[id] # None,
           LedgerOK(ledger)', ledger'.highwater = ledger.highwater,
           \A i \in Ids : Open(ledger', i) =>
               Open(ledger, i) /\ ledger'.entries[i].task = ledger.entries[i].task,
           \A i \in Ids \ {id} : jobs[i] # None => Open(ledger', i),
           deferred' # None => deferred' = deferred /\ Open(ledger', deferred.abort),
           jobs' \in [Ids -> Jobs \cup {None}],
           \A i \in Ids \ {id} : jobs'[i] = jobs[i],
           jobs'[id] # None => Open(ledger', id) /\ jobs'[id].op = jobs[id].op,
           staging' \in Stagings,
           UNCHANGED <<up, ran, loose>>
    PROVE  LedgerOK(ledger)' /\ OneLive(ledger)' /\ JobsOK' /\ DeferredOK' /\ StartedOnce' /\ LooseOK'
  <1>1. \A slot : Live(ledger', slot) \subseteq Live(ledger, slot)
    BY DEF Live, Open
  <1>2. OneLive(ledger)'
    BY <1>1 DEF ReceiverOK, OneLive
  <1>3. JobsOK'
    BY DEF ReceiverOK, JobsOK
  <1>4. DeferredOK'
    <2> SUFFICES ASSUME deferred' # None PROVE DeferredOK'
      BY DEF DeferredOK
    <2>1. /\ deferred.abort \in Ids /\ deferred' = deferred /\ Open(ledger', deferred.abort)
          /\ ledger.entries[deferred.abort].task.op = "transfer_abort"
          /\ jobs[deferred.abort] = None
      BY DEF ReceiverOK, DeferredOK
    <2>2. deferred.abort # id
      BY <2>1
    <2> QED BY <2>1, <2>2 DEF DeferredOK
  <1>5. StartedOnce'
    BY DEF ReceiverOK, StartedOnce
  <1>6. LooseOK'
    BY DEF ReceiverOK, LooseOK
  <1> QED BY <1>2, <1>3, <1>4, <1>5, <1>6

(* What may be said of a job that works on a commit.                        *)
Honest(job, id) ==
    Durable(job) =>
        /\ job.step \in {"running", "failed", "attempt"} => Unharmed(id)
        /\ job.step = "reading" /\ ~job.doubt => Unharmed(id)
        /\ job.step = "uncertain" => job.event # None

LEMMA JobFacts ==
    ASSUME ReceiverOK, NEW id \in Ids, jobs[id] # None
    PROVE  /\ jobs[id] \in Jobs /\ up /\ Open(ledger, id)
           /\ ledger.entries[id].task.op = jobs[id].op
           /\ Honest(jobs[id], id)
           /\ id <= ledger.highwater
           /\ staging \in Stagings
           /\ ledger \in Ledgers
  BY DEF ReceiverOK, JobsOK, CommitsOK, Honest, LedgerOK, Filed, Open

LEMMA QuietCommits ==
    ASSUME ReceiverOK, NEW id \in Ids,
           ledger'.highwater = ledger.highwater,
           \A i \in Ids \ {id} : jobs'[i] = jobs[i],
           jobs'[id] # None => Honest(jobs'[id], id),
           UNCHANGED <<landed, limbo>>
    PROVE  CommitsOK'
  BY DEF ReceiverOK, CommitsOK, Honest, Unharmed

(* A worker's step, in the shape all of them have.                          *)
Works(id) ==
    /\ jobs[id] # None
    /\ jobs' \in [Ids -> Jobs \cup {None}]
    /\ jobs'[id] \in Jobs /\ jobs'[id].op = jobs[id].op
    /\ jobs'[id].payload = jobs[id].payload
    /\ \A i \in Ids \ {id} : jobs'[i] = jobs[i]
    /\ UNCHANGED <<up, ledger, staging, deferred, ran, loose>>

LEMMA WorkerStep ==
    ASSUME ReceiverOK, NEW id \in Ids, Works(id)
    PROVE  LedgerOK(ledger)' /\ OneLive(ledger)' /\ JobsOK' /\ DeferredOK' /\ StartedOnce' /\ LooseOK'
  <1>1. /\ Open(ledger, id) /\ staging \in Stagings
    BY JobFacts DEF Works
  <1>2. \A i \in Ids : jobs[i] # None => Open(ledger, i)
    BY DEF ReceiverOK, JobsOK
  <1>3. deferred # None => Open(ledger, deferred.abort)
    BY DEF ReceiverOK, DeferredOK
  <1>4. LedgerOK(ledger)
    BY DEF ReceiverOK
  <1> QED BY <1>1, <1>2, <1>3, <1>4, TaskStep DEF Works

LEMMA QuietStep ==
    ASSUME ReceiverOK, NEW id \in Ids, Works(id), Honest(jobs'[id], id),
           UNCHANGED <<landed, limbo>>
    PROVE  ReceiverOK'
  <1>1. CommitsOK'
    BY QuietCommits DEF Works
  <1>2. FailureIsProven'
    BY DEF ReceiverOK, FailureIsProven, Works
  <1> QED BY <1>1, <1>2, WorkerStep DEF ReceiverOK

(* A step that commits, or leaves a commit open.                            *)
LEMMA CommitStep ==
    ASSUME ReceiverOK, NEW id \in Ids, Works(id),
           jobs'[id].step \notin {"running", "failed", "attempt", "reading"},
           jobs'[id].step = "uncertain" => jobs'[id].event # None,
           landed' \subseteq landed \cup {id},
           NEW e, limbo' \subseteq limbo \cup {[id |-> id, event |-> e]}
    PROVE  ReceiverOK'
  <1>1. Open(ledger, id) /\ id <= ledger.highwater
    BY JobFacts DEF Works
  <1>2. id \in 0 .. ledger.highwater
    BY <1>1, MaxTasksAssumption DEF ReceiverOK, LedgerOK, Ledgers, Ids
  <1>3. \A i \in Ids \ {id} : Unharmed(i) => Unharmed(i)'
    BY DEF Unharmed
  <1>4. CommitsOK'
    <2>1. \A i \in landed' : i \in Ids /\ i <= ledger'.highwater
      BY <1>1 DEF ReceiverOK, CommitsOK, Works
    <2>2. \A l \in limbo' : /\ l.id \in 0 .. ledger'.highwater
                            /\ l = [id |-> l.id, event |-> l.event]
      BY <1>2 DEF ReceiverOK, CommitsOK, Works
    <2>3. \A i \in Ids : jobs'[i] # None /\ Durable(jobs'[i]) =>
            /\ jobs'[i].step \in {"running", "failed", "attempt"} => Unharmed(i)'
            /\ jobs'[i].step = "reading" /\ ~jobs'[i].doubt => Unharmed(i)'
            /\ jobs'[i].step = "uncertain" => jobs'[i].event # None
      BY <1>3 DEF ReceiverOK, CommitsOK, Works
    <2> QED BY <2>1, <2>2, <2>3 DEF CommitsOK
  <1>5. FailureIsProven'
    <2> SUFFICES ASSUME NEW i \in Ids, Holds(ledger, i),
                        ledger.entries[i].task.op = "transfer_commit",
                        ledger.entries[i].status.state \in {"failed", "cancelled"}
                 PROVE  Unharmed(i)'
      BY DEF FailureIsProven, Unharmed, Works
    <2>1. i # id
      BY <1>1 DEF Open, Terminal
    <2>2. Unharmed(i)
      BY DEF ReceiverOK, FailureIsProven, Unharmed
    <2> QED BY <2>1, <2>2, <1>3
  <1> QED BY <1>4, <1>5, WorkerStep DEF ReceiverOK
-----------------------------------------------------------------------------
(***************************************************************************)
(* The receiver: workers.                                                  *)
(***************************************************************************)

LEMMA StepFacts ==
    ASSUME NEW job \in Jobs, NEW step \in Running \cup Ended
    PROVE  LET j == [job EXCEPT !.step = step]
           IN /\ j \in Jobs /\ j.step = step
              /\ j.op = job.op /\ j.event = job.event /\ j.doubt = job.doubt
              /\ j.payload = job.payload
  BY DEF Jobs

LEMMA EndsFacts ==
    ASSUME ReceiverOK, NEW id \in Ids, jobs[id] # None, NEW step \in Running \cup Ended,
           Ends(id, step), UNCHANGED <<up, ledger, staging, deferred, ran, loose>>
    PROVE  /\ Works(id)
           /\ jobs'[id].step = step
           /\ jobs'[id].event = jobs[id].event /\ jobs'[id].doubt = jobs[id].doubt
  <1> DEFINE j == [jobs[id] EXCEPT !.step = step]
  <1>1. jobs[id] \in Jobs /\ jobs \in [Ids -> Jobs \cup {None}]
    BY JobFacts DEF ReceiverOK, JobsOK
  <1>2. /\ j \in Jobs /\ j.step = step
        /\ j.op = jobs[id].op /\ j.event = jobs[id].event /\ j.doubt = jobs[id].doubt
        /\ j.payload = jobs[id].payload
    BY <1>1, StepFacts
  <1>3. jobs' = [jobs EXCEPT ![id] = j]
    BY <1>1 DEF Ends
  <1> HIDE DEF j
  <1> QED BY <1>1, <1>2, <1>3 DEF Works

LEMMA HeldWorks ==
    ASSUME ReceiverOK, NEW id \in Ids, jobs[id] # None, NEW step \in Running \cup Ended,
           NEW held \in Stagings,
           jobs' = [jobs EXCEPT ![id] = [jobs[id] EXCEPT !.step = step, !.held = held]],
           UNCHANGED <<up, ledger, staging, deferred, ran, loose>>
    PROVE  Works(id) /\ jobs'[id].step = step
  <1> DEFINE job == jobs[id]
             j == [job EXCEPT !.step = step, !.held = held]
  <1>1. job \in Jobs /\ jobs \in [Ids -> Jobs \cup {None}]
    BY JobFacts DEF ReceiverOK, JobsOK
  <1>2. jobs' = [jobs EXCEPT ![id] = j]
    OBVIOUS
  <1> HIDE DEF job
  <1>3. j = [job EXCEPT !.step = step, !.held = held]
    OBVIOUS
  <1> HIDE DEF j
  <1>4. j \in Jobs /\ j.step = step /\ j.op = job.op /\ j.payload = job.payload
    BY <1>1, <1>3 DEF Jobs
  <1> QED BY <1>1, <1>2, <1>4 DEF Works, job

LEMMA Steps ==
    /\ {"failed", "ok", "attempt", "uncertain", "dead", "unknown"} \subseteq Running \cup Ended
    /\ {"running", "applied", "reading"} \subseteq Running \cup Ended
  BY DEF Running, Ended

(* Begin, blobs and abort touch no commit.                                  *)
LEMMA StagingWorkers ==
    ASSUME ReceiverOK, NEW id \in Ids, Begin(id) \/ Upload(id) \/ Abort(id) \/ UploadFails(id)
    PROVE  ReceiverOK' /\ Works(id) /\ jobs[id].op # "transfer_commit"
  <1>1. /\ jobs[id] # None /\ jobs[id].op # "transfer_commit"
        /\ UNCHANGED <<up, ledger, staging, deferred, ran, loose, landed, limbo>>
    BY DEF Begin, Upload, Abort, UploadFails, Working, WorkerLeaves, durable
  <1>2. jobs[id] \in Jobs /\ jobs \in [Ids -> Jobs \cup {None}] /\ jobs[id].held \in Stagings
    BY <1>1, JobFacts DEF ReceiverOK, JobsOK, Jobs
  <1>3. Works(id)
    <2>1. CASE Ends(id, "failed")
      BY <2>1, <1>1, Steps, EndsFacts
    <2>2. ASSUME NEW held \in Stagings,
                 jobs' = [jobs EXCEPT ![id] = [jobs[id] EXCEPT !.step = "ok", !.held = held]]
          PROVE  Works(id)
      BY <2>2, <1>1, Steps, HeldWorks
    <2>3. CASE Begin(id)
      <3> DEFINE held == [event |-> jobs[id].payload, complete |-> FALSE]
      <3>1. held \in Stagings
        BY <1>2 DEF Jobs, Stagings
      <3>2. CASE jobs[id].held # None
        BY <3>2, <2>3, <2>1 DEF Begin, Ends
      <3>3. CASE jobs[id].held = None
        <4>1. jobs' = [jobs EXCEPT ![id].step = "ok", ![id].held = held]
          BY <3>3, <2>3 DEF Begin
        <4> HIDE DEF held
        <4>2. jobs' = [jobs EXCEPT ![id] = [jobs[id] EXCEPT !.step = "ok", !.held = held]]
          BY <4>1, <1>2
        <4> QED BY <3>1, <4>2, <2>2
      <3> QED BY <3>2, <3>3
    <2>4. CASE Upload(id)
      <3> DEFINE held == [jobs[id].held EXCEPT !.complete = TRUE]
                 fails == jobs[id].held = None \/ jobs[id].held.event # jobs[id].payload
      <3>1. CASE fails
        BY <3>1, <2>4, <2>1 DEF Upload, Ends
      <3>2. CASE ~fails
        <4>1. held \in Stagings
          BY <3>2, <1>2 DEF Stagings
        <4>2. jobs' = [jobs EXCEPT ![id].step = "ok", ![id].held.complete = TRUE]
          BY <3>2, <2>4 DEF Upload
        <4>3. jobs' = [jobs EXCEPT ![id] = [jobs[id] EXCEPT !.step = "ok", !.held = held]]
          BY <4>2, <1>2 DEF Jobs
        <4> HIDE DEF held
        <4> QED BY <4>1, <4>3, <2>2
      <3> QED BY <3>1, <3>2
    <2>5. CASE Abort(id)
      <3> DEFINE fails == jobs[id].held # None /\ jobs[id].held.event # jobs[id].payload
      <3>1. CASE fails
        BY <3>1, <2>5, <2>1 DEF Abort, Ends
      <3>2. CASE ~fails
        <4>1. jobs' = [jobs EXCEPT ![id].step = "ok", ![id].held = None]
          BY <3>2, <2>5 DEF Abort
        <4>2. jobs' = [jobs EXCEPT ![id] = [jobs[id] EXCEPT !.step = "ok", !.held = None]]
          BY <4>1, <1>2
        <4>3. None \in Stagings
          BY DEF Stagings
        <4> QED BY <4>2, <4>3, <2>2
      <3> QED BY <3>1, <3>2
    <2>6. CASE UploadFails(id)
      BY <2>6, <2>1 DEF UploadFails
    <2> QED BY <2>3, <2>4, <2>5, <2>6
  <1>4. Honest(jobs'[id], id)
    BY <1>1, <1>3 DEF Honest, Durable, Works
  <1> QED BY <1>1, <1>3, <1>4, QuietStep

LEMMA CommitWorkers ==
    ASSUME ReceiverOK, NEW id \in Ids,
           \/ CommitRefused(id) \/ Apply(id) \/ Reject(id) \/ ApplyFails(id)
           \/ CommitUncertain(id) \/ Answered(id) \/ Dies(id) \/ Read(id) \/ ReadFails(id)
    PROVE  ReceiverOK'
  <1>1. /\ jobs[id] # None
        /\ UNCHANGED <<up, ledger, staging, deferred, ran, loose>>
    BY DEF CommitRefused, Apply, Reject, ApplyFails, CommitUncertain, Answered, Dies, Read, ReadFails,
           Applying, Working, WorkerLeaves, durable
  <1>2. Honest(jobs[id], id)
    BY <1>1, JobFacts
  <1>3. CASE CommitRefused(id) \/ Reject(id)
    <2>1. /\ Ends(id, "failed") /\ UNCHANGED <<landed, limbo>>
          /\ jobs[id].op = "transfer_commit" /\ jobs[id].step = "running"
      BY <1>3 DEF CommitRefused, Reject, Applying, Working, durable
    <2>2. /\ Works(id) /\ jobs'[id].step = "failed"
      BY <2>1, <1>1, Steps, EndsFacts
    <2>3. Honest(jobs'[id], id)
      BY <2>1, <2>2, <1>2 DEF Honest, Durable
    <2> QED BY <2>1, <2>2, <2>3, QuietStep
  <1>4. CASE ApplyFails(id)
    <2>1. /\ Ends(id, "attempt") /\ UNCHANGED <<landed, limbo>>
          /\ jobs[id].op = "transfer_commit" /\ jobs[id].step = "running"
      BY <1>4 DEF ApplyFails, Applying, Working, durable
    <2>2. /\ Works(id) /\ jobs'[id].step = "attempt"
      BY <2>1, <1>1, Steps, EndsFacts
    <2>3. Honest(jobs'[id], id)
      BY <2>1, <2>2, <1>2 DEF Honest, Durable
    <2> QED BY <2>1, <2>2, <2>3, QuietStep
  <1>5. CASE Apply(id)
    <2>1. Ends(id, "applied") /\ landed' = landed \cup {id} /\ UNCHANGED limbo
      BY <1>5 DEF Apply
    <2>2. Works(id) /\ jobs'[id].step = "applied"
      BY <2>1, <1>1, Steps, EndsFacts
    <2>3. limbo' \subseteq limbo \cup {[id |-> id, event |-> None]}
      BY <2>1
    <2> QED BY <2>1, <2>2, <2>3, CommitStep
  <1>6. CASE CommitUncertain(id)
    <2>1. /\ Ends(id, "uncertain") /\ landed' = landed
          /\ limbo' = limbo \cup {[id |-> id, event |-> jobs[id].event]}
          /\ jobs[id].event # None
      BY <1>6 DEF CommitUncertain, Applying
    <2>2. Works(id) /\ jobs'[id].step = "uncertain" /\ jobs'[id].event = jobs[id].event
      BY <2>1, <1>1, Steps, EndsFacts
    <2> QED BY <2>1, <2>2, CommitStep
  <1>7. CASE Dies(id)
    <2>1. /\ Ends(id, "dead") /\ landed' = landed
          /\ limbo' \subseteq limbo \cup {[id |-> id, event |-> jobs[id].event]}
      BY <1>7 DEF Dies
    <2>2. Works(id) /\ jobs'[id].step = "dead"
      BY <2>1, <1>1, Steps, EndsFacts
    <2> QED BY <2>1, <2>2, CommitStep
  <1>8. CASE Answered(id)
    <2>1. Ends(id, "ok") /\ UNCHANGED <<landed, limbo>>
      BY <1>8 DEF Answered, durable
    <2>2. Works(id) /\ jobs'[id].step = "ok"
      BY <2>1, <1>1, Steps, EndsFacts
    <2>3. Honest(jobs'[id], id)
      BY <2>2 DEF Honest
    <2> QED BY <2>1, <2>2, <2>3, QuietStep
  <1>9. CASE Read(id)
    <2> DEFINE step == Established(jobs[id], jobs[id].payload \in stored)
    <2>1. /\ Ends(id, step) /\ UNCHANGED <<landed, limbo>> /\ jobs[id].step = "reading"
      BY <1>9 DEF Read, durable
    <2>2. step \in {"ok", "unknown", "failed"} /\ (step = "failed" => ~jobs[id].doubt)
      BY DEF Established
    <2> HIDE DEF step
    <2>3. Works(id) /\ jobs'[id].step = step /\ jobs'[id].op = jobs[id].op
      BY <2>1, <2>2, <1>1, Steps, EndsFacts DEF Works
    <2>4. Honest(jobs'[id], id)
      BY <2>1, <2>2, <2>3, <1>2 DEF Honest, Durable
    <2> QED BY <2>1, <2>3, <2>4, QuietStep
  <1>10. CASE ReadFails(id)
    <2>1. Ends(id, "unknown") /\ UNCHANGED <<landed, limbo>>
      BY <1>10 DEF ReadFails, durable
    <2>2. Works(id) /\ jobs'[id].step = "unknown"
      BY <2>1, <1>1, Steps, EndsFacts
    <2>3. Honest(jobs'[id], id)
      BY <2>2 DEF Honest
    <2> QED BY <2>1, <2>2, <2>3, QuietStep
  <1> QED BY <1>3, <1>4, <1>5, <1>6, <1>7, <1>8, <1>9, <1>10

(* A commit that was left open is decided.                                  *)
LEMMA SettleStep ==
    ASSUME ReceiverOK, NEW l \in limbo, Settle(l)
    PROVE  ReceiverOK'
  <1>1. /\ limbo' \subseteq limbo
        /\ landed' \subseteq landed \cup ({l.id} \ {0})
        /\ UNCHANGED <<ledger, staging, jobs, deferred, ran, up, loose>>
    BY DEF Settle, inward
  <1>2. l.id \in 0 .. ledger.highwater /\ ledger.highwater \in 0 .. MaxTasks
    BY DEF ReceiverOK, CommitsOK, LedgerOK, Ledgers
  <1>3. \A i \in Ids : Unharmed(i) => Unharmed(i)'
    BY <1>1 DEF Unharmed
  <1>4. \A i \in landed' : i \in Ids /\ i <= ledger'.highwater
    <2>1. \A i \in landed : i \in Ids /\ i <= ledger.highwater
      BY DEF ReceiverOK, CommitsOK
    <2>2. l.id # 0 => l.id \in Ids /\ l.id <= ledger.highwater
      BY <1>2, MaxTasksAssumption DEF Ids
    <2> QED BY <1>1, <2>1, <2>2
  <1>5. CommitsOK'
    BY <1>1, <1>3, <1>4 DEF ReceiverOK, CommitsOK
  <1>6. FailureIsProven'
    <2>1. \A i \in Ids : Holds(ledger, i) /\ ledger.entries[i].task.op = "transfer_commit"
                         /\ ledger.entries[i].status.state \in {"failed", "cancelled"} => Unharmed(i)
      BY DEF ReceiverOK, FailureIsProven, Unharmed
    <2>2. \A i \in Ids : Holds(ledger, i) /\ ledger.entries[i].task.op = "transfer_commit"
                         /\ ledger.entries[i].status.state \in {"failed", "cancelled"} => Unharmed(i)'
      BY <2>1, <1>3
    <2> QED BY <2>2, <1>1 DEF FailureIsProven, Unharmed
  <1> QED BY <1>1, <1>5, <1>6 DEF ReceiverOK, JobsOK, DeferredOK, StartedOnce, LooseOK
-----------------------------------------------------------------------------
(***************************************************************************)
(* The receiver: frames.                                                   *)
(***************************************************************************)

LEMMA InwardFacts ==
    ASSUME NEW m \in Inward
    PROVE  /\ m.kind \in {"submit", "get", "cancel"}
           /\ m.kind = "submit" => m.task \in Task
           /\ m.kind \in {"get", "cancel"} => m.id \in Ids
  BY DEF Inward

(* Numbers beyond the mark have done nothing yet.                           *)
LEMMA NewNumber ==
    ASSUME ReceiverOK, NEW id \in Ids, id > ledger.highwater
    PROVE  /\ ~Holds(ledger, id) /\ jobs[id] = None /\ ran[id] = 0 /\ Unharmed(id)
           /\ deferred # None => deferred.abort # id
  <1>1. ~Holds(ledger, id)
    BY Unused DEF ReceiverOK
  <1>2. ledger.highwater \in Nat /\ id \in Nat
    BY MaxTasksAssumption DEF ReceiverOK, LedgerOK, Ledgers, Ids
  <1>3. Unharmed(id)
    BY <1>2 DEF ReceiverOK, CommitsOK, Unharmed
  <1> QED BY <1>1, <1>3 DEF ReceiverOK, JobsOK, DeferredOK, StartedOnce, Open

(* A new task has been filed as id; the others are as they were, or have    *)
(* been forgotten after their end.                                          *)
LEMMA NewTask ==
    ASSUME ReceiverOK, NEW id \in Ids, id > ledger.highwater,
           LedgerOK(ledger)', ledger'.highwater = id, Holds(ledger', id),
           \A j \in Ids \ {id} :
               \/ ledger'.entries[j] = ledger.entries[j]
               \/ ledger'.entries[j] = None /\ (Holds(ledger, j) => Terminal(ledger.entries[j].status)),
           jobs' \in [Ids -> Jobs \cup {None}],
           \A i \in Ids \ {id} : jobs'[i] = jobs[i],
           jobs'[id] # None =>
               /\ up /\ Open(ledger', id) /\ ledger'.entries[id].task.op = jobs'[id].op
               /\ jobs'[id].step = "running",
           staging' \in Stagings,
           deferred' = deferred \/ DeferredOK',
           ran' \in [Ids -> Nat], ran'[id] \in {0, 1},
           \A i \in Ids \ {id} : ran'[i] = ran[i],
           UNCHANGED <<up, loose, landed, limbo>>
    PROVE  /\ JobsOK' /\ DeferredOK' /\ StartedOnce' /\ LooseOK' /\ CommitsOK' /\ FailureIsProven'
  <1>1. /\ ~Holds(ledger, id) /\ jobs[id] = None /\ ran[id] = 0 /\ Unharmed(id)
        /\ deferred # None => deferred.abort # id
    BY NewNumber
  <1>2. \A i \in Ids : Open(ledger, i) => Open(ledger', i) /\ ledger'.entries[i] = ledger.entries[i] /\ i # id
    BY <1>1 DEF Open, Holds
  <1>3. JobsOK'
    BY <1>2 DEF ReceiverOK, JobsOK
  <1>4. DeferredOK'
    <2>1. CASE deferred' = deferred
      BY <2>1, <1>2 DEF ReceiverOK, DeferredOK
    <2> QED BY <2>1
  <1>5. /\ ledger.highwater \in Nat /\ id \in Nat /\ Ids \subseteq Nat
    BY MaxTasksAssumption DEF ReceiverOK, LedgerOK, Ledgers, Ids
  <1>6. StartedOnce'
    <2>1. \A i \in Ids : ran'[i] <= 1
      BY DEF ReceiverOK, StartedOnce
    <2>2. \A i \in Ids : i > id => ran'[i] = 0
      BY <1>5 DEF ReceiverOK, StartedOnce
    <2> QED BY <2>1, <2>2 DEF StartedOnce
  <1>7. CommitsOK'
    <2>1. \A i \in landed : i \in Ids /\ i <= id
      BY <1>5 DEF ReceiverOK, CommitsOK
    <2>2. \A l \in limbo : l.id \in 0 .. id /\ l = [id |-> l.id, event |-> l.event]
      BY <1>5 DEF ReceiverOK, CommitsOK
    <2>3. \A i \in Ids \ {id} : jobs'[i] # None => Honest(jobs'[i], i)
      BY DEF ReceiverOK, CommitsOK, Honest
    <2>4. jobs'[id] # None => Honest(jobs'[id], id)
      BY <1>1 DEF Honest
    <2> QED BY <2>1, <2>2, <2>3, <2>4 DEF CommitsOK, Honest, Unharmed
  <1>8. FailureIsProven'
    <2> SUFFICES ASSUME NEW i \in Ids, Holds(ledger', i),
                        ledger'.entries[i].task.op = "transfer_commit",
                        ledger'.entries[i].status.state \in {"failed", "cancelled"}
                 PROVE  Unharmed(i)
      BY DEF FailureIsProven, Unharmed
    <2>1. CASE i = id
      BY <2>1, <1>1
    <2>2. CASE i # id
      BY <2>2 DEF ReceiverOK, FailureIsProven, Unharmed, Holds
    <2> QED BY <2>1, <2>2
  <1>9. LooseOK'
    BY DEF ReceiverOK, LooseOK
  <1> QED BY <1>3, <1>4, <1>6, <1>7, <1>8, <1>9

LEMMA VerdictFacts ==
    ASSUME NEW l \in Ledgers, NEW task \in Task, Verdict(l, task) \in {"start", "busy"}
    PROVE  /\ task.id \in Ids /\ task.id = l.highwater + 1 /\ task.id > l.highwater
           /\ Verdict(l, task) = "start" => Live(l, Slot(task.op)) = {}
  <1>1. task.id \in Ids /\ task.id \in Nat /\ l.highwater \in Nat
    BY MaxTasksAssumption DEF Task, Ids, Ledgers
  <1>2. ~Holds(l, task.id)
    BY DEF Verdict
  <1>3. ~(task.id <= l.highwater)
    BY <1>2 DEF Verdict
  <1>4. task.id = l.highwater + 1
    BY <1>2, <1>3 DEF Verdict
  <1>5. Verdict(l, task) = "start" => Live(l, Slot(task.op)) = {}
    BY <1>2, <1>3, <1>4 DEF Verdict
  <1> QED BY <1>1, <1>3, <1>4, <1>5

(* The ledger a new task leaves: it is open, and alone in its slot.         *)
LEMMA QueuedFacts ==
    ASSUME NEW l, LedgerOK(l), OneLive(l), NEW task \in Task, task.id = l.highwater + 1,
           Live(l, Slot(task.op)) = {}, NEW q, q = Enter(l, task),
           NEW m, NEW id, id = task.id,
           \/ m = Update(q, id, "own")
           \/ m = Update(Update(q, id, "own"), id, "cancellation_pending")
    PROVE  /\ LedgerOK(m) /\ OneLive(m) /\ m.highwater = id
           /\ Open(m, id) /\ m.entries[id].task = task
           /\ \A j \in Ids \ {id} :
                 \/ m.entries[j] = l.entries[j]
                 \/ m.entries[j] = None /\ (Holds(l, j) => Terminal(l.entries[j].status))
  <1> DEFINE r == Update(q, id, "own")
             p == Update(r, id, "cancellation_pending")
  <1>1. id \in Ids
    BY DEF Task
  <1>2. /\ LedgerOK(q) /\ q.highwater = id /\ Open(q, id) /\ q.entries[id].task = task
        /\ \A j \in Ids \ {id} : q.entries[j] = l.entries[j]
    BY EnterFacts
  <1>3. /\ LedgerOK(r) /\ Follows(q, r, id) /\ Open(r, id) /\ r.entries[id].task = task
    BY <1>1, <1>2, UpdateFacts
  <1> HIDE DEF r
  <1>4. /\ LedgerOK(p) /\ Follows(r, p, id) /\ Open(p, id) /\ p.entries[id].task = task
    BY <1>1, <1>3, UpdateFacts
  <1> HIDE DEF p
  <1>5. m = r \/ m = p
    BY DEF r, p
  <1>6. /\ LedgerOK(m) /\ m.highwater = id /\ Open(m, id) /\ m.entries[id].task = task
    BY <1>2, <1>3, <1>4, <1>5 DEF Follows
  <1>7. \A j \in Ids \ {id} :
           \/ r.entries[j] = l.entries[j]
           \/ r.entries[j] = None /\ (Holds(l, j) => Terminal(l.entries[j].status))
    BY <1>2, <1>3 DEF Follows, Holds
  <1>8. \A j \in Ids \ {id} :
           \/ p.entries[j] = l.entries[j]
           \/ p.entries[j] = None /\ (Holds(l, j) => Terminal(l.entries[j].status))
    BY <1>7, <1>4 DEF Follows, Holds
  <1>9. \A j \in Ids \ {id} :
           \/ m.entries[j] = l.entries[j]
           \/ m.entries[j] = None /\ (Holds(l, j) => Terminal(l.entries[j].status))
    BY <1>5, <1>7, <1>8
  <1>10. \A slot : \A i \in Live(m, slot) :
            i \in Live(l, slot) \/ (i = id /\ slot = Slot(task.op))
    BY <1>6, <1>9 DEF Live, Holds
  <1>11. OneLive(m)
    <2> SUFFICES ASSUME NEW slot \in {"transfer", "housekeeping"},
                        NEW i \in Live(m, slot), NEW j \in Live(m, slot)
                 PROVE  i = j
      BY DEF OneLive
    <2>1. CASE slot = Slot(task.op)
      BY <2>1, <1>10
    <2>2. CASE slot # Slot(task.op)
      BY <2>2, <1>10 DEF OneLive
    <2> QED BY <2>1, <2>2
  <1> QED BY <1>6, <1>9, <1>11

LEMMA StartJob ==
    ASSUME NEW task \in Task, staging \in Stagings
    PROVE  /\ Start(task) \in Jobs /\ Start(task).op = task.op /\ Start(task).step = "running"
           /\ Start(task).payload = task.event
  <1> DEFINE event == IF task.op = "transfer_commit" /\ staging # None /\ staging.complete
                      THEN staging.event ELSE None
  <1>1. event \in Events \cup {None}
    BY DEF Stagings
  <1>2. Start(task) = [op |-> task.op, payload |-> task.event, event |-> event,
                       held |-> staging, step |-> "running", doubt |-> FALSE, cancelled |-> FALSE]
    BY DEF Start, Job
  <1> HIDE DEF event
  <1>3. "running" \in Running \cup Ended
    BY DEF Running
  <1> QED BY <1>1, <1>2, <1>3 DEF Jobs, Task

LEMMA StartStep ==
    ASSUME ReceiverOK, NEW task \in Task, Verdict(ledger, task) = "start", up,
           StartTask(task), UNCHANGED <<up, durable>>
    PROVE  ReceiverOK'
  <1> DEFINE id == task.id
             queued == Admitted(ledger, task)
             running == Update(queued, id, "own")
             pending == Update(running, id, "cancellation_pending")
  <1>1. LedgerOK(ledger) /\ OneLive(ledger) /\ ledger \in Ledgers /\ staging \in Stagings
    BY DEF ReceiverOK, LedgerOK, JobsOK
  <1>2. /\ id \in Ids /\ id = ledger.highwater + 1 /\ id > ledger.highwater
        /\ Live(ledger, Slot(task.op)) = {}
    BY <1>1, VerdictFacts
  <1>3. queued = Enter(ledger, task)
    BY DEF Admitted
  <1>4. ledger' \in {running, pending}
    BY DEF StartTask
  <1>5. /\ LedgerOK(ledger)' /\ OneLive(ledger)' /\ ledger'.highwater = id
        /\ Open(ledger', id) /\ ledger'.entries[id].task = task
        /\ \A j \in Ids \ {id} :
              \/ ledger'.entries[j] = ledger.entries[j]
              \/ ledger'.entries[j] = None /\ (Holds(ledger, j) => Terminal(ledger.entries[j].status))
    BY <1>1, <1>2, <1>3, <1>4, QueuedFacts
  <1>6. ran' = [ran EXCEPT ![id] = @ + 1] /\ UNCHANGED <<up, loose, landed, limbo>>
    BY DEF StartTask, durable
  <1>7. jobs[id] = None /\ ran[id] = 0 /\ (deferred # None => deferred.abort # id)
    BY <1>2, NewNumber
  <1>8. ran \in [Ids -> Nat] /\ jobs \in [Ids -> Jobs \cup {None}]
    BY DEF ReceiverOK, StartedOnce, JobsOK
  <1>9. /\ ran' \in [Ids -> Nat] /\ ran'[id] \in {0, 1}
        /\ \A i \in Ids \ {id} : ran'[i] = ran[i]
    BY <1>2, <1>6, <1>7, <1>8
  <1>10. CASE MustWait(running, task)
    <2>1. /\ deferred' = [abort |-> id, event |-> task.event,
                          task |-> CHOOSE i \in ActiveTransfer(running) : TRUE]
          /\ UNCHANGED <<jobs, staging>>
      BY <1>10 DEF StartTask
    <2>2. deferred'.abort = id /\ task.op = "transfer_abort"
      BY <1>10, <2>1 DEF MustWait
    <2> HIDE DEF id, queued, running, pending
    <2>3. DeferredOK'
      BY <1>2, <1>5, <1>7, <2>1, <2>2 DEF DeferredOK
    <2> QED BY <1>1, <1>2, <1>5, <1>6, <1>7, <1>8, <1>9, <2>1, <2>3, NewTask DEF ReceiverOK, Open
  <1>11. CASE ~MustWait(running, task)
    <2>1. /\ jobs' = [jobs EXCEPT ![id] = Start(task)] /\ staging' = None /\ UNCHANGED deferred
      BY <1>11 DEF StartTask
    <2>2. Start(task) \in Jobs /\ Start(task).op = task.op /\ Start(task).step = "running"
      BY <1>1, StartJob
    <2>3. staging' \in Stagings
      BY <2>1 DEF Stagings
    <2> HIDE DEF id, queued, running, pending
    <2>4. /\ jobs' \in [Ids -> Jobs \cup {None}] /\ jobs'[id] = Start(task)
          /\ \A i \in Ids \ {id} : jobs'[i] = jobs[i]
      BY <1>2, <1>8, <2>1, <2>2
    <2>5. jobs'[id] # None =>
               /\ up /\ Open(ledger', id) /\ ledger'.entries[id].task.op = jobs'[id].op
               /\ jobs'[id].step = "running"
      BY <1>5, <2>2, <2>4
    <2> QED BY <1>2, <1>5, <1>6, <1>9, <2>1, <2>3, <2>4, <2>5, NewTask DEF ReceiverOK, Open
  <1> QED BY <1>10, <1>11

LEMMA BusyStep ==
    ASSUME ReceiverOK, NEW task \in Task, Verdict(ledger, task) = "busy",
           ledger' = Admitted(ledger, task), UNCHANGED <<staging, jobs, deferred, ran, up, durable>>
    PROVE  ReceiverOK'
  <1> DEFINE id == task.id
  <1>1. LedgerOK(ledger) /\ OneLive(ledger) /\ ledger \in Ledgers /\ staging \in Stagings
    BY DEF ReceiverOK, LedgerOK, JobsOK
  <1>2. /\ id \in Ids /\ id = ledger.highwater + 1 /\ id > ledger.highwater
    BY <1>1, VerdictFacts
  <1>3. ledger' = EnterBusy(ledger, task)
    BY DEF Admitted
  <1>4. /\ LedgerOK(ledger)' /\ OneLive(ledger)' /\ ledger'.highwater = id
        /\ Holds(ledger', id)
        /\ \A j \in Ids \ {id} :
              \/ ledger'.entries[j] = ledger.entries[j]
              \/ ledger'.entries[j] = None /\ (Holds(ledger, j) => Terminal(ledger.entries[j].status))
    BY <1>1, <1>2, <1>3, EnterBusyFacts
  <1>5. jobs[id] = None /\ ran[id] = 0
    BY <1>2, NewNumber
  <1>6. ran \in [Ids -> Nat] /\ jobs \in [Ids -> Jobs \cup {None}]
    BY DEF ReceiverOK, StartedOnce, JobsOK
  <1>7. UNCHANGED <<up, loose, landed, limbo>>
    BY DEF durable
  <1> HIDE DEF id
  <1> QED BY <1>1, <1>2, <1>4, <1>5, <1>6, <1>7, NewTask DEF ReceiverOK

LEMMA CancelStep ==
    ASSUME ReceiverOK, NEW id \in Ids, TakeCancel(id), UNCHANGED <<up, durable>>
    PROVE  ReceiverOK'
  <1>1. CASE jobs[id] = None
    BY <1>1, SameReceiver DEF TakeCancel, TakeGet
  <1>2. CASE jobs[id] # None
    <2> DEFINE job == jobs[id]
               step == IF Durable(job) \/ job.step \in Ended THEN job.step ELSE "dead"
               j == [job EXCEPT !.cancelled = TRUE, !.step = step]
               m == CancelNoted(ledger, id)
    <2>1. /\ job \in Jobs /\ Open(ledger, id) /\ Honest(job, id)
          /\ ledger.entries[id].task.op = job.op
          /\ staging \in Stagings /\ LedgerOK(ledger) /\ jobs \in [Ids -> Jobs \cup {None}]
      BY <1>2, JobFacts DEF ReceiverOK, JobsOK
    <2>2. step \in Running \cup Ended
      BY <2>1 DEF Jobs, Ended
    <2>3. /\ ledger' = m
          /\ jobs' = [jobs EXCEPT ![id].cancelled = TRUE, ![id].step = step]
          /\ UNCHANGED <<staging, deferred, ran, up, loose, landed, limbo>>
      BY <1>2, <2>1 DEF TakeCancel, durable, Jobs
    <2>4. jobs' = [jobs EXCEPT ![id] = j]
      <3> HIDE DEF step
      <3> QED BY <2>1, <2>3
    <2>5. /\ j \in Jobs /\ j.op = job.op /\ j.event = job.event
          /\ j.doubt = job.doubt /\ j.step = step
      <3> HIDE DEF job, step
      <3> QED BY <2>1, <2>2 DEF Jobs
    <2>6. Honest(j, id)
      <3>1. Durable(j) => Durable(job) /\ step = job.step
        BY <2>5 DEF Durable
      <3> QED BY <3>1, <2>1, <2>5 DEF Honest
    <2>7. /\ LedgerOK(m) /\ Follows(ledger, m, id) /\ Open(m, id)
          /\ m.entries[id].task = ledger.entries[id].task
      BY <2>1, UpdateFacts DEF CancelNoted
    <2> HIDE DEF m, j, step
    <2>8. /\ jobs' \in [Ids -> Jobs \cup {None}] /\ jobs'[id] = j
          /\ \A i \in Ids \ {id} : jobs'[i] = jobs[i]
      BY <2>1, <2>4, <2>5
    <2>9. /\ \A i \in Ids : Open(m, i) =>
                Open(ledger, i) /\ m.entries[i].task = ledger.entries[i].task
          /\ \A i \in Ids \ {id} : Open(ledger, i) => Open(m, i) /\ m.entries[i] = ledger.entries[i]
      BY <2>1, <2>7 DEF Follows, Open, Holds
    <2>10. \A i \in Ids \ {id} : jobs[i] # None => Open(m, i)
      BY <2>9 DEF ReceiverOK, JobsOK
    <2>11. deferred # None => Open(m, deferred.abort)
      BY <2>9, <1>2 DEF ReceiverOK, DeferredOK
    <2>12. LedgerOK(ledger)' /\ OneLive(ledger)' /\ JobsOK' /\ DeferredOK' /\ StartedOnce' /\ LooseOK'
      BY <1>2, <2>1, <2>3, <2>5, <2>7, <2>8, <2>9, <2>10, <2>11, TaskStep DEF Follows
    <2>13. CommitsOK'
      BY <2>3, <2>6, <2>7, <2>8, QuietCommits DEF Follows
    <2>14. FailureIsProven'
      <3> SUFFICES ASSUME NEW i \in Ids, Holds(m, i), m.entries[i].task.op = "transfer_commit",
                          m.entries[i].status.state \in {"failed", "cancelled"}
                   PROVE  Unharmed(i)
        BY <2>3 DEF FailureIsProven, Unharmed
      <3>1. i # id
        BY <2>7 DEF Open, Terminal
      <3>2. m.entries[i] = ledger.entries[i] /\ Holds(ledger, i)
        BY <3>1, <2>7 DEF Follows, Holds
      <3> QED BY <3>2 DEF ReceiverOK, FailureIsProven, Unharmed
    <2> QED BY <2>12, <2>13, <2>14 DEF ReceiverOK
  <1> QED BY <1>1, <1>2

LEMMA TakeStep ==
    ASSUME IInv, Take
    PROVE  IInv'
  <1> DEFINE message == Head(toReceiver)
  <1>1. toReceiver \in Seq(Inward) /\ toReceiver # <<>>
    BY DEF IInv, SenderOK, Take
  <1>2. message \in Inward /\ Tail(toReceiver) \in Seq(Inward)
    BY <1>1
  <1>3. SenderOK'
    BY <1>2 DEF IInv, SenderOK, Take, outward
  <1>4. UNCHANGED <<up, durable>> /\ ReceiverOK /\ up
    BY DEF Take, IInv
  <1> HIDE DEF message
  <1>5. CASE message.kind = "submit"
    <2> SUFFICES ReceiverOK'
      BY <1>3 DEF IInv
    <2> DEFINE task == message.task
               verdict == Verdict(ledger, task)
    <2>1. task \in Task /\ TakeSubmit(task)
      BY <1>2, <1>5, InwardFacts DEF Take, message
    <2> HIDE DEF task
    <2>2. CASE verdict = "start"
      BY <2>1, <2>2, <1>4, StartStep DEF TakeSubmit
    <2>3. CASE verdict = "busy"
      BY <2>1, <2>3, <1>4, BusyStep DEF TakeSubmit
    <2>4. CASE verdict = "replay"
      <3>1. ledger' = ledger /\ UNCHANGED <<staging, jobs, deferred, ran>>
        BY <2>1, <2>4 DEF TakeSubmit, Admitted
      <3> QED BY <3>1, <1>4, SameReceiver DEF inward
    <2>5. CASE verdict \notin {"start", "busy", "replay"}
      BY <2>1, <2>5, <1>4, SameReceiver DEF TakeSubmit
    <2> QED BY <2>2, <2>3, <2>4, <2>5
  <1>6. CASE message.kind = "get"
    <2>1. UNCHANGED inward
      BY <1>6 DEF Take, message, TakeGet
    <2> QED BY <2>1, <1>3, <1>4, SameReceiver DEF IInv
  <1>7. CASE message.kind = "cancel"
    <2>1. message.id \in Ids /\ TakeCancel(message.id)
      BY <1>2, <1>7, InwardFacts DEF Take, message
    <2> QED BY <2>1, <1>3, <1>4, CancelStep DEF IInv
  <1> QED BY <1>2, <1>5, <1>6, <1>7, InwardFacts
-----------------------------------------------------------------------------
(***************************************************************************)
(* The receiver: poll_task_jobs.                                           *)
(***************************************************************************)

LEMMA ReadingFacts ==
    ASSUME NEW job \in Jobs
    PROVE  /\ Reading(job) \in Jobs /\ Reading(job).op = job.op
           /\ Reading(job).step = "reading" /\ Reading(job).doubt = Doubtful(job)
           /\ Reading(job).payload = job.payload
  <1>1. Reading(job) = [op |-> job.op, payload |-> job.payload, event |-> None, held |-> None,
                        step |-> "reading", doubt |-> Doubtful(job), cancelled |-> job.cancelled]
    BY DEF Reading, Job
  <1>2. "reading" \in Running \cup Ended /\ Doubtful(job) \in BOOLEAN /\ None \in Stagings
    BY DEF Running, Doubtful, Stagings
  <1> QED BY <1>1, <1>2 DEF Jobs

(* A commit that must be looked up, or cannot be decided, stays open.       *)
Left(job) == MustRead(job) \/ Undecided(job)

Noted(id) == IF Left(jobs[id]) THEN Unknown(ledger, id) ELSE Finish(ledger, id, Result(jobs[id]))

LEMMA NotedFacts ==
    ASSUME ReceiverOK, NEW id \in Ids, jobs[id] # None
    PROVE  LET next == Noted(id)
           IN /\ LedgerOK(next) /\ Follows(ledger, next, id) /\ Holds(next, id)
              /\ next.entries[id].task = ledger.entries[id].task
              /\ Left(jobs[id]) => Open(next, id)
              /\ ~Left(jobs[id]) =>
                    /\ Terminal(next.entries[id].status)
                    /\ next.entries[id].status.state = "succeeded" <=> Result(jobs[id]) = "succeeded"
  <1> DEFINE result == Result(jobs[id])
  <1>1. Open(ledger, id) /\ LedgerOK(ledger)
    BY JobFacts DEF ReceiverOK
  <1>2. result \in {"succeeded", "cancelled"} \cup Codes
    BY DEF Result, Codes
  <1>3. CASE Left(jobs[id])
    <2>1. Noted(id) = Unknown(ledger, id)
      BY <1>3 DEF Noted
    <2> QED BY <2>1, <1>1, <1>3, UnknownFacts DEF Open
  <1>4. CASE ~Left(jobs[id])
    <2>1. Noted(id) = Finish(ledger, id, result)
      BY <1>4 DEF Noted
    <2> HIDE DEF result
    <2>2. LET m == Finish(ledger, id, result)
          IN /\ LedgerOK(m) /\ Follows(ledger, m, id) /\ Holds(m, id)
             /\ m.entries[id].task = ledger.entries[id].task
             /\ Terminal(m.entries[id].status)
             /\ m.entries[id].status.state = "succeeded" <=> result = "succeeded"
      BY <1>1, <1>2, FinishFacts
    <2> QED BY <2>1, <2>2, <1>4 DEF result
  <1> QED BY <1>3, <1>4

LEMMA PollStep ==
    ASSUME ReceiverOK, NEW id \in Ids, Poll(id)
    PROVE  ReceiverOK'
  <1> DEFINE job == jobs[id]
             open == Left(job)
             result == Result(job)
             next == Noted(id)
             held == IF open THEN staging ELSE Returned(job)
             after == Deferred(next, held)
             moved == IF MustRead(job) THEN Reading(job) ELSE None
  <1>1. /\ job # None /\ job.step \in Ended
        /\ jobs' = [jobs EXCEPT ![id] = moved]
        /\ ledger' = after.ledger /\ staging' = after.staging /\ deferred' = after.deferred
        /\ UNCHANGED <<landed, limbo, loose, up, ran>>
    BY DEF Poll, durable, Noted, Left
  <1>2. /\ job \in Jobs /\ Open(ledger, id) /\ Honest(job, id)
        /\ ledger.entries[id].task.op = job.op
        /\ staging \in Stagings /\ LedgerOK(ledger) /\ jobs \in [Ids -> Jobs \cup {None}]
    BY <1>1, JobFacts DEF ReceiverOK, JobsOK
  <1>3. held \in Stagings
    BY <1>2 DEF Returned, Jobs
  <1>4. moved # None => /\ open /\ moved \in Jobs /\ moved.op = job.op
                        /\ moved.step = "reading" /\ moved.doubt = Doubtful(job)
                        /\ MustRead(job)
    BY <1>2, ReadingFacts DEF Left
  <1>5. /\ LedgerOK(next) /\ Follows(ledger, next, id) /\ Holds(next, id)
        /\ next.entries[id].task = ledger.entries[id].task
        /\ open => Open(next, id)
        /\ ~open => /\ Terminal(next.entries[id].status)
                    /\ next.entries[id].status.state = "succeeded" <=> result = "succeeded"
    BY <1>1, NotedFacts
  <1>6. Durable(job) /\ ~open /\ result # "succeeded" => Unharmed(id)
    <2> SUFFICES ASSUME Durable(job), ~open, result # "succeeded"
                 PROVE  Unharmed(id)
      OBVIOUS
    <2>1. job.step # "ok"
      BY DEF Result
    <2>2. job.step \in {"failed", "attempt"}
      BY <2>1, <1>1, <1>2 DEF Ended, Left, MustRead, Undecided, Honest
    <2> QED BY <2>2, <1>2 DEF Honest
  <1>7. moved # None => Honest(moved, id)
    BY <1>1, <1>2, <1>4 DEF MustRead, Doubtful, Honest, Durable
  <1> HIDE DEF moved, next, held, result, open
  <1>8. /\ \A i \in Ids : Open(next, i) =>
              Open(ledger, i) /\ next.entries[i].task = ledger.entries[i].task
        /\ \A i \in Ids \ {id} : Open(ledger, i) => Open(next, i) /\ next.entries[i] = ledger.entries[i]
    BY <1>2, <1>5 DEF Follows, Open, Holds
  <1>9. deferred # None =>
            /\ deferred.abort \in Ids \ {id} /\ Open(next, deferred.abort)
            /\ next.entries[deferred.abort].task.op = "transfer_abort"
            /\ jobs[deferred.abort] = None
    BY <1>1, <1>8 DEF ReceiverOK, DeferredOK
  <1>10. /\ LedgerOK(after.ledger) /\ after.ledger.highwater = next.highwater
         /\ after.staging \in Stagings
         /\ after.deferred # None => after.deferred = deferred /\ after.ledger = next
         /\ \A i \in Ids : Open(after.ledger, i) =>
               Open(next, i) /\ after.ledger.entries[i] = next.entries[i]
         /\ \A i \in Ids : Open(next, i) /\ ~(deferred # None /\ i = deferred.abort) =>
               after.ledger.entries[i] = next.entries[i]
         /\ \A i \in Ids : Holds(after.ledger, i) =>
               \/ after.ledger.entries[i] = next.entries[i]
               \/ after.ledger.entries[i].task.op = "transfer_abort"
    BY <1>3, <1>5, <1>9, DeferredFacts
  <1> HIDE DEF after
  <1>11. ledger'.highwater = ledger.highwater
    BY <1>1, <1>5, <1>10 DEF Follows
  <1>12. \A i \in Ids : Open(ledger', i) =>
            Open(ledger, i) /\ ledger'.entries[i].task = ledger.entries[i].task
    BY <1>1, <1>8, <1>10
  <1>13. \A i \in Ids : Open(next, i) /\ ~(deferred # None /\ i = deferred.abort) => Open(ledger', i)
    BY <1>1, <1>10 DEF Open, Holds
  <1>14. \A i \in Ids \ {id} : jobs[i] # None => Open(ledger', i)
    BY <1>8, <1>9, <1>13 DEF ReceiverOK, JobsOK
  <1>15. deferred' # None => deferred' = deferred /\ Open(ledger', deferred.abort)
    BY <1>1, <1>9, <1>10
  <1>16. /\ jobs' \in [Ids -> Jobs \cup {None}] /\ jobs'[id] = moved
         /\ \A i \in Ids \ {id} : jobs'[i] = jobs[i]
    BY <1>1, <1>2, <1>4
  <1>17. jobs'[id] # None => Open(ledger', id) /\ jobs'[id].op = jobs[id].op
    BY <1>4, <1>5, <1>9, <1>13, <1>16
  <1>18. LedgerOK(ledger)'
    BY <1>1, <1>10
  <1>19. staging' \in Stagings
    BY <1>1, <1>10
  <1>20. LedgerOK(ledger)' /\ OneLive(ledger)' /\ JobsOK' /\ DeferredOK' /\ StartedOnce' /\ LooseOK'
    <2> HIDE DEF job
    <2> QED BY <1>1, <1>11, <1>12, <1>14, <1>15, <1>16, <1>17, <1>18, <1>19, TaskStep DEF job
  <1>21. CommitsOK'
    BY <1>1, <1>7, <1>11, <1>16, QuietCommits
  <1>22. FailureIsProven'
    <2> SUFFICES ASSUME NEW i \in Ids, Holds(ledger', i),
                        ledger'.entries[i].task.op = "transfer_commit",
                        ledger'.entries[i].status.state \in {"failed", "cancelled"}
                 PROVE  Unharmed(i)
      BY <1>1 DEF FailureIsProven, Unharmed
    <2>1. ledger'.entries[i] = next.entries[i] /\ Holds(next, i)
      BY <1>1, <1>10 DEF Holds
    <2>2. CASE i = id
      <3>1. Durable(job)
        BY <2>1, <2>2, <1>2, <1>5 DEF Durable
      <3>2. ~open
        BY <2>1, <2>2, <1>5 DEF Open, Terminal
      <3>3. result # "succeeded"
        BY <2>1, <2>2, <3>2, <1>5
      <3> QED BY <2>2, <3>1, <3>2, <3>3, <1>6
    <2>3. CASE i # id
      <3>1. next.entries[i] = ledger.entries[i] /\ Holds(ledger, i)
        BY <2>1, <2>3, <1>5 DEF Follows, Holds
      <3> QED BY <2>1, <3>1 DEF ReceiverOK, FailureIsProven, Unharmed
    <2> QED BY <2>2, <2>3
  <1> QED BY <1>20, <1>21, <1>22 DEF ReceiverOK
-----------------------------------------------------------------------------
(***************************************************************************)
(* Sessions.                                                               *)
(***************************************************************************)

LEMMA FreshLedger ==
    /\ LedgerOK(NewLedger) /\ OneLive(NewLedger)
    /\ \A i \in Ids : ~Holds(NewLedger, i)
    /\ NewLedger.highwater = 0
  <1>1. /\ NewLedger.highwater = 0 /\ NewLedger.finished = <<>>
        /\ NewLedger.entries = [i \in Ids |-> None]
        /\ NewLedger \in Ledgers
    BY MaxTasksAssumption DEF NewLedger, Ledgers
  <1>2. \A i \in Ids : ~Holds(NewLedger, i)
    BY <1>1 DEF Holds
  <1>3. \A slot : Live(NewLedger, slot) = {}
    BY <1>2 DEF Live
  <1> QED BY <1>1, <1>2, <1>3 DEF LedgerOK, ForgottenHaveEnded, Filed, OneLive

(* A session that has just ended has nothing left but loose commits.        *)
LEMMA SessionOver ==
    ASSUME IInv, EndSession, LooseOK', limbo' = {[l EXCEPT !.id = 0] : l \in limbo}
    PROVE  IInv'
  <1>1. SenderOK'
    <2>1. sender' = Rest /\ number' = 0 /\ toReceiver' = <<>>
      BY DEF EndSession, Drop
    <2> QED BY <2>1, RestFacts, MaxTasksAssumption DEF IInv
  <1>2. /\ up' = FALSE /\ ledger' = NewLedger /\ staging' = None /\ deferred' = None
        /\ jobs' = [i \in Ids |-> None] /\ ran' = [i \in Ids |-> 0] /\ landed' = {}
    BY DEF EndSession, Drop
  <1>3. JobsOK' /\ DeferredOK' /\ StartedOnce'
    BY <1>2 DEF JobsOK, DeferredOK, StartedOnce, Stagings
  <1>4. \A l \in limbo : [l EXCEPT !.id = 0] = [id |-> 0, event |-> l.event]
    BY DEF IInv, ReceiverOK, CommitsOK
  <1>5. \A l \in limbo' : l.id = 0 /\ l = [id |-> l.id, event |-> l.event]
    BY <1>4
  <1>6. CommitsOK'
    BY <1>2, <1>5, FreshLedger DEF CommitsOK
  <1>7. FailureIsProven'
    BY <1>2, FreshLedger DEF FailureIsProven
  <1> QED BY <1>1, <1>2, <1>3, <1>6, <1>7, FreshLedger DEF IInv, ReceiverOK

(* Two workers cannot both be in their commit.                              *)
LEMMA OneCommit ==
    ASSUME ReceiverOK, NEW i \in Ids, NEW j \in Ids,
           jobs[i] # None, jobs[i].op = "transfer_commit",
           jobs[j] # None, jobs[j].op = "transfer_commit"
    PROVE  i = j
  <1>1. i \in Live(ledger, "transfer") /\ j \in Live(ledger, "transfer")
    BY DEF ReceiverOK, JobsOK, Open, Live, Slot
  <1> QED BY <1>1 DEF ReceiverOK, OneLive

LEMMA LeftWorkers ==
    ASSUME ReceiverOK, LeaveWorkers, up' = FALSE
    PROVE  LooseOK' /\ limbo' = {[l EXCEPT !.id = 0] : l \in limbo}
  <1>1. CASE up
    <2>1. \A i, j \in {k \in Ids : Applying(k)} : i = j
      BY OneCommit DEF Applying, Working
    <2>2. loose' = {jobs[i].event : i \in {k \in Ids : Applying(k)}}
      BY <1>1 DEF LeaveWorkers, ReceiverOK, LooseOK
    <2>3. \A e, f \in loose' : e = f
      BY <2>1, <2>2
    <2> QED BY <2>3 DEF LooseOK, LeaveWorkers
  <1>2. CASE ~up
    <2>1. loose' = loose
      BY <1>2 DEF LeaveWorkers, Applying, Working
    <2> QED BY <2>1 DEF LooseOK, LeaveWorkers, ReceiverOK
  <1> QED BY <1>1, <1>2

LEMMA EndingStep ==
    ASSUME IInv, Cut \/ CrashReceiver \/ CrashSender
    PROVE  IInv'
  <1>1. EndSession /\ up' = FALSE
    BY DEF Cut, CrashReceiver, CrashSender, EndSession, Drop
  <1>2. CASE CrashReceiver
    <2>1. LooseOK' /\ limbo' = {[l EXCEPT !.id = 0] : l \in limbo}
      BY <1>1, <1>2 DEF CrashReceiver, LooseOK
    <2> QED BY <1>1, <2>1, SessionOver
  <1>3. CASE Cut \/ CrashSender
    <2>1. LeaveWorkers
      BY <1>3 DEF Cut, CrashSender
    <2> QED BY <1>1, <2>1, LeftWorkers, SessionOver DEF IInv
  <1> QED BY <1>2, <1>3

LEMMA BetweenSessions ==
    ASSUME IInv, NEW e, Drain(e) \/ DrainUncertain(e) \/ Connect
    PROVE  IInv'
  <1>1. UNCHANGED <<outward, inward, toReceiver, landed>>
    BY DEF Drain, DrainUncertain, Connect, durable
  <1>2. SenderOK'
    BY <1>1, SameSender DEF IInv
  <1>3. /\ LooseOK' /\ (up => up')
    BY DEF Drain, DrainUncertain, Connect, Drained, IInv, ReceiverOK, LooseOK, durable
  <1>4. limbo' \subseteq limbo \cup {[id |-> 0, event |-> e]}
    BY DEF Drain, DrainUncertain, Connect, durable
  <1>5. \A i \in Ids : Unharmed(i) => Unharmed(i)'
    BY <1>1, <1>4 DEF Unharmed, Ids
  <1>6. CommitsOK'
    <2>1. 0 \in 0 .. ledger.highwater
      BY DEF IInv, ReceiverOK, LedgerOK, Ledgers
    <2>2. \A l \in limbo' : l.id \in 0 .. ledger.highwater /\ l = [id |-> l.id, event |-> l.event]
      BY <2>1, <1>4 DEF IInv, ReceiverOK, CommitsOK
    <2> QED BY <2>2, <1>1, <1>5 DEF IInv, ReceiverOK, CommitsOK, inward
  <1>7. FailureIsProven'
    <2>1. \A i \in Ids : Holds(ledger, i) /\ ledger.entries[i].task.op = "transfer_commit"
                         /\ ledger.entries[i].status.state \in {"failed", "cancelled"} => Unharmed(i)'
      BY <1>5 DEF IInv, ReceiverOK, FailureIsProven, Unharmed
    <2> QED BY <2>1, <1>1 DEF FailureIsProven, Unharmed, inward
  <1>8. JobsOK' /\ DeferredOK' /\ StartedOnce' /\ LedgerOK(ledger)' /\ OneLive(ledger)'
    BY <1>1, <1>3 DEF IInv, ReceiverOK, JobsOK, DeferredOK, StartedOnce, inward
  <1> QED BY <1>2, <1>3, <1>6, <1>7, <1>8 DEF IInv, ReceiverOK
-----------------------------------------------------------------------------
(***************************************************************************)
(* The invariant, and what follows from it.                                *)
(***************************************************************************)

LEMMA InitInv == Init => IInv
  <1> SUFFICES ASSUME Init PROVE IInv
    OBVIOUS
  <1>1. SenderOK
    <2>1. /\ sender.stage = "idle" /\ sender.event = None
          /\ sender.view = None /\ sender.early = FALSE
      BY DEF Init, Rest
    <2> QED BY <2>1, MaxTasksAssumption DEF Init, SenderOK, Stages, Rest
  <1>2. LedgerOK(ledger) /\ OneLive(ledger) /\ FailureIsProven
    BY FreshLedger DEF Init, FailureIsProven
  <1>3. JobsOK /\ DeferredOK /\ StartedOnce /\ LooseOK /\ CommitsOK
    BY DEF Init, JobsOK, DeferredOK, StartedOnce, LooseOK, CommitsOK, Stagings
  <1> QED BY <1>1, <1>2, <1>3 DEF IInv, ReceiverOK

LEMMA NextInv == IInv /\ [Next]_vars => IInv'
  <1> SUFFICES ASSUME IInv, [Next]_vars PROVE IInv'
    OBVIOUS
  <1>1. SenderOK /\ ReceiverOK /\ LedgerOK(ledger)
    BY DEF IInv, ReceiverOK
  <1>2. ASSUME UNCHANGED <<inward, durable, up>>, SenderOK' PROVE IInv'
    BY <1>1, <1>2, SameReceiver DEF IInv
  <1>3. ASSUME UNCHANGED <<outward, toReceiver>>, ReceiverOK' PROVE IInv'
    BY <1>1, <1>3, SameSender DEF IInv
  <1>4. CASE UNCHANGED vars
    BY <1>4, <1>2, <1>1, SameSender DEF vars
  <1>5. ASSUME NEW e \in Events, Deliver(e) PROVE IInv'
    BY <1>5, <1>1, <1>2, SendFacts DEF Deliver
  <1>6. ASSUME NEW e \in Events, PreparationFails(e) PROVE IInv'
    BY <1>6, <1>1, <1>2 DEF PreparationFails, SenderOK
  <1>7. ASSUME NEW e \in Events, Drain(e) \/ DrainUncertain(e) PROVE IInv'
    BY <1>7, BetweenSessions
  <1>8. ASSUME NEW id \in Ids, Worker(id) PROVE IInv'
    <2>1. UNCHANGED <<outward, toReceiver>>
      BY <1>8 DEF Worker, Begin, Upload, Abort, CommitRefused, Apply, Answered, Read, Poll, WorkerLeaves
    <2>2. ReceiverOK'
      BY <1>8, <1>1, StagingWorkers, CommitWorkers, PollStep DEF Worker
    <2> QED BY <2>1, <2>2, <1>3
  <1>9. ASSUME NEW id \in Ids, Failure(id) PROVE IInv'
    <2>1. UNCHANGED <<outward, toReceiver>>
      BY <1>9 DEF Failure, UploadFails, Reject, ApplyFails, CommitUncertain, Dies, ReadFails, WorkerLeaves
    <2>2. ReceiverOK'
      BY <1>9, <1>1, StagingWorkers, CommitWorkers DEF Failure
    <2> QED BY <2>1, <2>2, <1>3
  <1>10. ASSUME NEW id \in Ids, Repeat(id) PROVE IInv'
    BY <1>10, <1>1, <1>2, RepeatFacts DEF Repeat
  <1>11. CASE Hear
    BY <1>11, <1>1, <1>2, HearFacts DEF Hear
  <1>12. CASE CancelTask
    BY <1>12, <1>1, <1>2, CancelFacts DEF CancelTask
  <1>13. CASE TurnEarly
    BY <1>13, <1>1, <1>2, EarlyFacts DEF TurnEarly
  <1>14. CASE Retry
    BY <1>14, <1>1, <1>2 DEF Retry, SenderOK
  <1>15. CASE Take
    BY <1>15, TakeStep
  <1>16. ASSUME NEW l \in limbo, Settle(l) PROVE IInv'
    BY <1>16, <1>1, <1>3, SettleStep DEF Settle
  <1>17. CASE Cut \/ CrashReceiver \/ CrashSender
    BY <1>17, EndingStep
  <1>18. CASE Connect
    BY <1>18, BetweenSessions
  <1> QED BY <1>4, <1>5, <1>6, <1>7, <1>8, <1>9, <1>10, <1>11, <1>12, <1>13, <1>14, <1>15,
             <1>16, <1>17, <1>18 DEF Next

THEOREM Invariant == Spec => []IInv
  BY InitInv, NextInv, PTL DEF Spec

(* No task of a session is started twice: its number is used up by its      *)
(* first submission, even after the ledger has forgotten the task.          *)
THEOREM TaskStartsOnce == Spec => []StartsOnce
  <1>1. IInv => StartsOnce
    BY DEF IInv, ReceiverOK, StartedOnce, StartsOnce
  <1> QED BY <1>1, Invariant, PTL

(* poll_task_jobs and the deferred abort always find the task they report   *)
(* on, open: a task is forgotten only after its end, and ends only once.    *)
THEOREM EveryReportFindsItsTask == Spec => []ReportsFindTheirTask
  <1>1. IInv => ReportsFindTheirTask
    BY DEF IInv, ReceiverOK, JobsOK, DeferredOK, ReportsFindTheirTask, Open
  <1> QED BY <1>1, Invariant, PTL

(* Two transactions for transfers never run at a time: within a session a   *)
(* commit holds the transfer slot, and no session begins before the commit  *)
(* worker of the one before has ended.                                      *)
THEOREM AppliesOneAtATime == Spec => []OneApplyAtATime
  <1>1. ASSUME IInv PROVE OneApplyAtATime
    <2>1. ReceiverOK
      BY <1>1 DEF IInv
    <2>2. Cardinality({}) = 0 /\ \A x : Cardinality({x}) = 1
      BY FS_EmptySet, FS_Singleton
    <2>3. CASE up
      <3>1. loose = {}
        BY <2>1, <2>3 DEF ReceiverOK, LooseOK
      <3>2. \A i, j \in Commits("running") : i = j
        BY <2>1, OneCommit DEF Commits, Durable
      <3>3. Commits("running") = {} \/ \E i : Commits("running") = {i}
        BY <3>2
      <3>4. Cardinality(Commits("running")) \in {0, 1}
        BY <3>3, <2>2
      <3> QED BY <3>1, <3>4, <2>2 DEF OneApplyAtATime
    <2>4. CASE ~up
      <3>1. Commits("running") = {}
        BY <2>1, <2>4 DEF ReceiverOK, JobsOK, Commits
      <3>2. loose = {} \/ \E e : loose = {e}
        BY <2>1 DEF ReceiverOK, LooseOK
      <3>3. Cardinality(loose) \in {0, 1}
        BY <3>2, <2>2
      <3> QED BY <3>1, <3>3, <2>2 DEF OneApplyAtATime
    <2> QED BY <2>3, <2>4
  <1>2. IInv => OneApplyAtATime
    BY <1>1
  <1> QED BY <1>2, Invariant, PTL

(* A commit that was reported as failed has not taken effect and never      *)
(* will: only a rollback, or a receipt that is missing after a failure that *)
(* came before the commit, is reported so.                                  *)
THEOREM FailuresAreProven == Spec => []FailureIsProven
  <1>1. IInv => FailureIsProven
    BY DEF IInv, ReceiverOK
  <1> QED BY <1>1, Invariant, PTL
=============================================================================
