------------------------ MODULE OrgOperations_proofs ------------------------
(***************************************************************************)
(* What the operation-id ledger makes of commands that are delivered many  *)
(* times, late and after later ones: for every policy, any items, agents,  *)
(* leases and operation ids, and any number of requests under one id.      *)
(***************************************************************************)
EXTENDS OrgOperations, OrgLeases_proofs

(* A command with a proof names a lease that was issued, as it was issued. *)
Grounded(r) ==
    r.command # "claim" =>
        /\ r.lease \in DOMAIN leases
        /\ leases[r.lease].item = r.item
        /\ leases[r.lease].kind = r.kind

SentOK ==
    /\ sent \in [Ops -> SUBSET Requests]
    /\ \A op \in Ops : \A r \in sent[op] : Grounded(r)

Records == [request : Requests, result : LeaseIds \cup {"done"}]

LedgerOK ==
    /\ ledger \in [DOMAIN ledger -> Records]
    /\ \A o \in DOMAIN ledger :
          ledger[o].result \in LeaseIds => ledger[o].result \in DOMAIN leases

(* What has rewritten the document did so at a revision that is over.      *)
WrittenBefore ==
    /\ revision \in Nat
    /\ \A o \in DOMAIN ledger :
          WritesDocument(ledger[o].request) => ledger[o].request.seen < revision

(* An answer that reports success repeats what the ledger holds.           *)
Recorded(m) ==
    /\ m.op \in DOMAIN ledger
    /\ m = [op |-> m.op, request |-> ledger[m.op].request, result |-> ledger[m.op].result]

(* A request that was answered "stale" is not in the ledger, and its lease *)
(* will never be active again, so it can not get there.                    *)
Dead(m) ==
    /\ m.op \in DOMAIN ledger => ledger[m.op].request # m.request
    /\ m.request.command # "claim"
    /\ m.request.lease \in DOMAIN leases \ ActiveLeases

AnswersOK ==
    \A m \in answers : IF m.result = "stale" THEN Dead(m) ELSE Recorded(m)

OpIInv ==
    /\ IInv
    /\ SentOK /\ LedgerOK /\ WrittenBefore /\ AnswersOK
    /\ EveryLeaseIsAnswered /\ NoLostUpdate

-----------------------------------------------------------------------------
(* What a step of OrgLeases leaves as it was.                              *)

(* The columns that say whose a lease is are never written again.          *)
LEMMA RowsKept ==
    ASSUME IInv, [Next]_vars, NEW l \in DOMAIN leases
    PROVE  /\ l \in DOMAIN leases'
           /\ leases'[l].item = leases[l].item
           /\ leases'[l].kind = leases[l].kind
           /\ leases'[l].actor = leases[l].actor
<1>1. leases \in [DOMAIN leases -> LeaseRows] /\ leases[l] \in LeaseRows
  BY DEF IInv, TypeOK
<1>2. CASE KeepsTables
  BY <1>2 DEF KeepsTables
<1>3. ASSUME NEW m \in DOMAIN leases, Closes(m) \/ ReleasesReview(m) \/ Renews(m)
      PROVE  /\ l \in DOMAIN leases'
             /\ leases'[l].item = leases[l].item
             /\ leases'[l].kind = leases[l].kind
             /\ leases'[l].actor = leases[l].actor
  <2>1. CASE Closes(m)
    BY <1>1, <2>1 DEF Closes, CloseLease, LeaseRows
  <2>2. CASE ReleasesReview(m)
    BY <1>1, <2>2 DEF ReleasesReview, LeaseRows
  <2>3. CASE Renews(m)
    BY <1>1, <2>3 DEF Renews, LeaseRows
  <2> QED BY <1>3, <2>1, <2>2, <2>3
<1>4. CASE Expires
  BY <1>1, <1>4 DEF Expires, ExpireLeases, LeaseRows
<1>5. ASSUME NEW i \in Items, NEW a \in Actors, NEW m \in LeaseIds \ DOMAIN leases,
             Starts(i, a, m) \/ Restarts(i, a, m) \/ Reviews(i, a, m)
      PROVE  /\ l \in DOMAIN leases'
             /\ leases'[l].item = leases[l].item
             /\ leases'[l].kind = leases[l].kind
             /\ leases'[l].actor = leases[l].actor
  <2>1. PICK old, kind, n : IssueLease(i, a, kind, n, m, old)
    BY <1>5 DEF Starts, Restarts, Reviews
  <2>2. leases'[l] \in {leases[l], [leases[l] EXCEPT !.end = "lease_expiry"]}
    BY <2>1 DEF IssueLease
  <2>3. l \in DOMAIN leases'
    BY <2>1 DEF IssueLease
  <2> QED BY <1>1, <2>2, <2>3 DEF LeaseRows
<1> QED BY <1>2, <1>3, <1>4, <1>5, NextIsTableStep DEF TableStep

LEMMA GroundedStays ==
    ASSUME IInv, [Next]_vars, NEW r, Grounded(r)
    PROVE  Grounded(r)'
  BY RowsKept DEF Grounded

(* A lease that is not active never will be.                               *)
LEMMA InactiveStays ==
    ASSUME IInv, [Next]_vars, NEW l \in DOMAIN leases \ ActiveLeases
    PROVE  l \in DOMAIN leases' \ ActiveLeases'
<1>1. leases[l].end # "open" \/ ~Unexpired(l)
  BY DEF ActiveLeases
<1> QED BY <1>1, LapsedStep

LEMMA ClosingIssuesNothing ==
    ASSUME NEW i, NEW l, ClosesLeaseOf(i, l)
    PROVE  DOMAIN leases' = DOMAIN leases
  BY DEF ClosesLeaseOf, Closes, CloseLease, ReleasesReview, Renews

-----------------------------------------------------------------------------
(* What an executed command does.                                          *)

(* A claim issues the lease it answers, to the actor that asked.           *)
LEMMA ClaimFacts ==
    ASSUME IInv, NEW r \in Requests, NEW result \in LeaseIds \cup {"done"},
           StartClaim(r, result)
    PROVE  /\ Next
           /\ result \in LeaseIds \ DOMAIN leases
           /\ DOMAIN leases' = DOMAIN leases \cup {result}
           /\ leases'[result].actor = r.actor
<1>1. r.item \in Items /\ r.actor \in Actors
  BY DEF Requests
<1>2. PICK kind, n, old : IssueLease(r.item, r.actor, kind, n, result, old)
  BY DEF StartClaim, Claim, Reclaim, ClaimReview
<1>3. result \in LeaseIds \ DOMAIN leases
  BY <1>2 DEF IssueLease
<1>4. Next
  BY <1>1, <1>3 DEF StartClaim, Next, StructuredNext, Claims
<1> QED BY <1>2, <1>3, <1>4 DEF IssueLease

(* Any other command acts under the active lease that it names.            *)
LEMMA FencedFacts ==
    ASSUME IInv, NEW r \in Requests, Grounded(r), r.command # "claim",
           \/ SubmitResult(r)
           \/ ReleaseItem(r)
           \/ \E target \in States : Approve(r.item, r.lease, target)
    PROVE  /\ Next
           /\ DOMAIN leases' = DOMAIN leases
           /\ r.lease \in ActiveLeases
<1>1. r.item \in Items /\ r.lease \in DOMAIN leases
  BY DEF Requests, Grounded
<1>2. ReleaseState \in States /\ state[r.item] \in States
  BY <1>1, PolicyAssumption DEF ValidPolicy, IInv, TypeOK
<1>3. \/ RequestReview(r.item, r.lease)
      \/ \E target \in States : \/ ReleaseExecution(r.item, r.lease, target)
                                \/ ReleaseReview(r.item, r.lease, target)
                                \/ Complete(r.item, r.lease, target)
                                \/ Approve(r.item, r.lease, target)
  BY <1>2 DEF SubmitResult, ReleaseItem
<1>4. Next
  BY <1>1, <1>3 DEF Next, StructuredNext, Fenced
<1>5. ClosesLeaseOf(r.item, r.lease)
  BY <1>1, <1>3, FencedSteps
<1> QED BY <1>1, <1>4, <1>5, ClosingIssuesNothing DEF ClosesLeaseOf, ActiveLeases

(* The two cases of a command that takes effect.                           *)
Issued(r, result) ==
    /\ r.command = "claim"
    /\ result \in LeaseIds \ DOMAIN leases
    /\ DOMAIN leases' = DOMAIN leases \cup {result}
    /\ leases'[result].actor = r.actor

ActedOn(r, result) ==
    /\ r.command # "claim" /\ result = "done"
    /\ DOMAIN leases' = DOMAIN leases
    /\ r.lease \in ActiveLeases

LEMMA ExecuteFacts ==
    ASSUME IInv, NEW r \in Requests, Grounded(r), NEW result \in LeaseIds \cup {"done"},
           Execute(r, result)
    PROVE  /\ Next
           /\ r.seen = revision
           /\ revision' = IF WritesDocument(r) THEN revision + 1 ELSE revision
           /\ Issued(r, result) \/ ActedOn(r, result)
<1>1. CASE r.command = "claim"
  <2>1. StartClaim(r, result)
    BY <1>1 DEF Execute
  <2> QED BY <1>1, <2>1, ClaimFacts DEF Execute, Issued
<1>2. CASE r.command # "claim"
  <2>1. /\ result = "done"
        /\ \/ SubmitResult(r)
           \/ ReleaseItem(r)
           \/ \E target \in States : Approve(r.item, r.lease, target)
    BY <1>2 DEF Execute
  <2> QED BY <1>2, <2>1, FencedFacts DEF Execute, ActedOn
<1> QED BY <1>1, <1>2

-----------------------------------------------------------------------------
(* Steps that run no command to its end: the ledger stays as it is.        *)

Quiet ==
    /\ [Next]_vars
    /\ DOMAIN leases' = DOMAIN leases
    /\ UNCHANGED <<revision, ledger>>

LEMMA BookkeepIsQuiet ==
    ASSUME NEW i \in Items, BookkeepExpired(i)
    PROVE  Next /\ DOMAIN leases' = DOMAIN leases
<1>1. Next
  BY DEF Next, StructuredNext, Unfenced
<1> QED BY <1>1 DEF BookkeepExpired, ExpireLeases

LEMMA ElsewhereIsQuiet ==
    ASSUME IInv, Elsewhere
    PROVE  Quiet
<1>1. CASE Tick
  BY <1>1 DEF Tick, Elsewhere, Quiet, Next, StructuredNext
<1>2. CASE ArchiveWorkspace
  BY <1>2 DEF ArchiveWorkspace, ExpireLeases, Elsewhere, Quiet, Next, StructuredNext, Archival
<1>3. ASSUME NEW i \in Items, NEW l \in DOMAIN leases, NEW kind \in LeaseKinds,
             Heartbeat(i, l, kind)
      PROVE  Quiet
  <2>1. Next
    BY <1>3 DEF Next, StructuredNext, Fenced
  <2>2. DOMAIN leases' = DOMAIN leases
    BY <1>3 DEF Heartbeat
  <2> QED BY <2>1, <2>2 DEF Elsewhere, Quiet
<1> QED BY <1>1, <1>2, <1>3 DEF Elsewhere

(* What is about the ledger and the leases only survives a quiet step.     *)
LEMMA QuietKeeps ==
    ASSUME OpIInv, Quiet
    PROVE  IInv' /\ LedgerOK' /\ WrittenBefore' /\ EveryLeaseIsAnswered' /\ NoLostUpdate'
<1>1. IInv'
  BY NextIInv DEF OpIInv, Quiet
<1>2. LedgerOK'
  BY DEF OpIInv, Quiet, LedgerOK
<1>3. WrittenBefore'
  BY DEF OpIInv, Quiet, WrittenBefore, WritesDocument
<1>4. EveryLeaseIsAnswered'
  <2> SUFFICES ASSUME NEW l \in DOMAIN leases
               PROVE  \E op \in DOMAIN ledger :
                         /\ ledger[op].result = l
                         /\ ledger[op].request.command = "claim"
                         /\ ledger[op].request.actor = leases'[l].actor
                         /\ \A other \in DOMAIN ledger \ {op} : ledger[other].result # l
    BY DEF Quiet, EveryLeaseIsAnswered
  <2>1. leases'[l].actor = leases[l].actor
    BY RowsKept DEF OpIInv, Quiet
  <2> QED BY <2>1 DEF OpIInv, EveryLeaseIsAnswered
<1>5. NoLostUpdate'
  BY DEF OpIInv, Quiet, NoLostUpdate, WritesDocument
<1> QED BY <1>1, <1>2, <1>3, <1>4, <1>5

LEMMA SentStays ==
    ASSUME IInv, SentOK, [Next]_vars, UNCHANGED sent
    PROVE  SentOK'
  BY GroundedStays DEF SentOK

(* A dead request stays dead while the ledger takes in another.            *)
LEMMA DeadStays ==
    ASSUME IInv, [Next]_vars, NEW m, Dead(m), UNCHANGED ledger
    PROVE  Dead(m)'
  BY InactiveStays DEF Dead

(* The answers given before, over a quiet step.                            *)
LEMMA AnswersStay ==
    ASSUME OpIInv, Quiet, NEW m \in answers
    PROVE  IF m.result = "stale" THEN Dead(m)' ELSE Recorded(m)'
<1>1. CASE m.result = "stale"
  BY <1>1, DeadStays DEF OpIInv, AnswersOK, Quiet
<1>2. CASE m.result # "stale"
  BY <1>2 DEF OpIInv, AnswersOK, Quiet, Recorded
<1> QED BY <1>1, <1>2

-----------------------------------------------------------------------------
(* The invariant, action by action.                                        *)

LEMMA SendKeeps ==
    ASSUME OpIInv, NEW op \in Ops, NEW r \in Requests, Send(op, r)
    PROVE  OpIInv'
<1>1. Quiet
  BY DEF Send, Quiet, vars
<1>2. Grounded(r)
  <2>1. CASE r.command # "claim"
    <3>1. r.lease \in DOMAIN leases
      BY <2>1 DEF Send
    <3>2. r = [r EXCEPT !.item = leases[r.lease].item,
                        !.actor = leases[r.lease].actor,
                        !.kind = leases[r.lease].kind]
      BY <2>1 DEF Send
    <3>3. r.item = leases[r.lease].item /\ r.kind = leases[r.lease].kind
      BY <3>2 DEF Requests
    <3> QED BY <3>1, <3>3 DEF Grounded
  <2> QED BY <2>1 DEF Grounded
<1>3. sent' = [sent EXCEPT ![op] = @ \cup {r}]
  BY DEF Send
<1>4. SentOK'
  <2>1. sent' \in [Ops -> SUBSET Requests]
    BY <1>3 DEF OpIInv, SentOK
  <2>2. ASSUME NEW o \in Ops, NEW q \in sent'[o]
        PROVE  Grounded(q)
    BY <1>2, <1>3, <2>2 DEF OpIInv, SentOK
  <2>3. \A q : Grounded(q) => Grounded(q)'
    BY <1>1, GroundedStays DEF OpIInv, Quiet
  <2> QED BY <2>1, <2>2, <2>3 DEF SentOK
<1>5. AnswersOK'
  BY <1>1, AnswersStay DEF Send, AnswersOK
<1> QED BY <1>1, <1>4, <1>5, QuietKeeps DEF OpIInv

(* One more answer, and nothing else of the ledger.                        *)
LEMMA QuietAnswerKeeps ==
    ASSUME OpIInv, Quiet, UNCHANGED sent, NEW op, NEW r, NEW result,
           Answer(op, r, result),
           LET m == [op |-> op, request |-> r, result |-> result]
           IN  IF result = "stale" THEN Dead(m)' ELSE Recorded(m)'
    PROVE  OpIInv'
<1> DEFINE n == [op |-> op, request |-> r, result |-> result]
<1>1. answers' = answers \cup {n} /\ n.result = result
  BY DEF Answer
<1>2. AnswersOK'
  BY <1>1, AnswersStay DEF AnswersOK
<1>3. SentOK'
  BY SentStays DEF OpIInv, Quiet
<1> QED BY <1>2, <1>3, QuietKeeps DEF OpIInv

LEMMA ReplayKeeps ==
    ASSUME OpIInv, NEW op \in Ops, NEW r \in sent[op], Replay(op, r)
    PROVE  OpIInv'
<1>1. PICK result : result = ledger[op].result
  OBVIOUS
<1> DEFINE m == [op |-> op, request |-> r, result |-> result]
<1>2. Quiet /\ UNCHANGED sent /\ Answer(op, r, result)
  BY <1>1 DEF Replay, Quiet, vars
<1>3. result # "stale"
  BY <1>1, OperationAssumption DEF Replay, OpIInv, LedgerOK, Records
<1>4. Recorded(m)'
  BY <1>1 DEF Replay, Recorded
<1> QED BY <1>2, <1>3, <1>4, QuietAnswerKeeps

(* Told "stale": either way the lease of the request is not active, and    *)
(* the request is not in the ledger.                                       *)
LEMMA StaleKeeps ==
    ASSUME OpIInv, NEW op \in Ops, NEW r \in sent[op],
           PerformStale(op, r) \/ RefuseStale(op, r)
    PROVE  OpIInv'
<1> DEFINE m == [op |-> op, request |-> r, result |-> "stale"]
<1>1. /\ op \notin DOMAIN ledger /\ r.command # "claim"
      /\ Answer(op, r, "stale") /\ UNCHANGED <<revision, sent, ledger>>
  BY DEF PerformStale, RefuseStale
<1>2. /\ r \in Requests /\ r.item \in Items /\ r.lease \in DOMAIN leases
      /\ leases[r.lease].item = r.item /\ leases[r.lease].kind = r.kind
  BY <1>1 DEF OpIInv, SentOK, Grounded, Requests
<1>3. Quiet
  <2>1. CASE PerformStale(op, r)
    BY <1>1, <1>2, <2>1, BookkeepIsQuiet DEF PerformStale, Quiet
  <2>2. CASE RefuseStale(op, r)
    BY <2>2 DEF RefuseStale, Quiet, vars
  <2> QED BY <2>1, <2>2
<1>4. r.lease \in DOMAIN leases \ ActiveLeases
  <2>1. CASE PerformStale(op, r)
    <3>1. \A l \in OpenLeases(r.item) : ~Unexpired(l)
      BY <2>1 DEF PerformStale, BookkeepExpired, HasActive
    <3> QED BY <1>2, <3>1 DEF OpenLeases, ActiveLeases
  <2>2. CASE RefuseStale(op, r)
    BY <1>2, <2>2 DEF RefuseStale, ProofHolds, ActiveLeases
  <2> QED BY <2>1, <2>2
<1>5. r.lease \in DOMAIN leases' \ ActiveLeases'
  BY <1>3, <1>4, InactiveStays DEF OpIInv, Quiet
<1>6. Dead(m)'
  BY <1>1, <1>5 DEF Dead
<1> QED BY <1>1, <1>3, <1>6, QuietAnswerKeeps

LEMMA ElsewhereKeeps ==
    ASSUME OpIInv, Elsewhere
    PROVE  OpIInv'
<1>1. Quiet
  BY ElsewhereIsQuiet DEF OpIInv
<1>2. SentOK'
  BY <1>1, SentStays DEF OpIInv, Quiet, Elsewhere
<1>3. AnswersOK'
  BY <1>1, AnswersStay DEF Elsewhere, AnswersOK
<1> QED BY <1>1, <1>2, <1>3, QuietKeeps DEF OpIInv

(* A command takes effect: what is recorded under its id is new, and is    *)
(* all that is new.                                                        *)
LEMMA PerformKeeps ==
    ASSUME OpIInv, NEW op \in Ops, NEW r \in sent[op], Perform(op, r)
    PROVE  OpIInv'
<1>1. PICK result \in LeaseIds \cup {"done"} :
         Execute(r, result) /\ Record(op, r, result) /\ Answer(op, r, result)
  BY DEF Perform
<1>2. op \notin DOMAIN ledger /\ UNCHANGED sent
  BY DEF Perform
<1>3. r \in Requests /\ Grounded(r)
  BY DEF OpIInv, SentOK
<1>4. /\ Next /\ r.seen = revision
      /\ revision' = IF WritesDocument(r) THEN revision + 1 ELSE revision
      /\ Issued(r, result) \/ ActedOn(r, result)
  BY <1>1, <1>3, ExecuteFacts DEF OpIInv
<1>5. /\ DOMAIN ledger' = DOMAIN ledger \cup {op}
      /\ ledger' = [o \in DOMAIN ledger' |-> ledger'[o]]
      /\ ledger'[op] = [request |-> r, result |-> result]
      /\ ledger'[op].request = r /\ ledger'[op].result = result
      /\ \A o \in DOMAIN ledger : ledger'[o] = ledger[o]
  BY <1>1, <1>2 DEF Record
<1>6. "done" \notin LeaseIds /\ result # "stale"
  BY OperationAssumption
<1>7. IInv'
  BY <1>4, NextIInv DEF OpIInv
<1>8. SentOK'
  BY <1>2, <1>4, SentStays DEF OpIInv
<1>9. DOMAIN leases \subseteq DOMAIN leases'
  BY <1>4 DEF Issued, ActedOn
<1>10. LedgerOK'
  <2>1. [request |-> r, result |-> result] \in Records
    BY <1>3 DEF Records
  <2>2. \A o \in DOMAIN ledger' : ledger'[o] \in Records
    BY <1>5, <2>1 DEF OpIInv, LedgerOK
  <2>3. result \in LeaseIds => result \in DOMAIN leases'
    BY <1>4, <1>6 DEF Issued, ActedOn
  <2>4. \A o \in DOMAIN ledger' :
           ledger'[o].result \in LeaseIds => ledger'[o].result \in DOMAIN leases'
    BY <1>5, <1>9, <2>3 DEF OpIInv, LedgerOK
  <2>5. ledger' \in [DOMAIN ledger' -> Records]
    BY <1>5, <2>2
  <2> QED BY <2>4, <2>5 DEF LedgerOK
<1>11. WrittenBefore'
  <2>1. revision \in Nat
    BY DEF OpIInv, WrittenBefore
  <2>2. revision' \in Nat /\ revision <= revision'
    BY <1>4, <2>1
  <2>3. WritesDocument(r) => r.seen < revision'
    BY <1>4, <2>1
  <2>4. ASSUME NEW o \in DOMAIN ledger, WritesDocument(ledger[o].request)
        PROVE  ledger[o].request.seen < revision'
    <3>1. ledger[o].request.seen < revision /\ ledger[o].request.seen \in Nat
      BY <2>4 DEF OpIInv, WrittenBefore, LedgerOK, Records, Requests
    <3> QED BY <2>1, <2>2, <3>1
  <2> QED BY <1>5, <2>2, <2>3, <2>4 DEF WrittenBefore, WritesDocument
<1>12. AnswersOK'
  <2> DEFINE n == [op |-> op, request |-> r, result |-> result]
  <2>1. answers' = answers \cup {n}
    BY <1>1 DEF Answer
  <2>2. Recorded(n)'
    BY <1>5 DEF Recorded
  <2>3. ASSUME NEW m \in answers, m.result # "stale"
        PROVE  Recorded(m)'
    BY <1>5, <2>3 DEF OpIInv, AnswersOK, Recorded
  <2>4. ASSUME NEW m \in answers, m.result = "stale"
        PROVE  Dead(m)'
    <3>1. Dead(m)
      BY <2>4 DEF OpIInv, AnswersOK
    <3>2. m.request # r
      BY <1>4, <3>1 DEF Dead, Issued, ActedOn
    <3>3. m.request.lease \in DOMAIN leases' \ ActiveLeases'
      BY <1>4, <3>1, InactiveStays DEF Dead, OpIInv
    <3> QED BY <1>5, <3>1, <3>2, <3>3 DEF Dead
  <2> QED BY <1>6, <2>1, <2>2, <2>3, <2>4 DEF AnswersOK
<1>13. EveryLeaseIsAnswered'
  <2> SUFFICES ASSUME NEW l \in DOMAIN leases'
               PROVE  \E o \in DOMAIN ledger' :
                         /\ ledger'[o].result = l
                         /\ ledger'[o].request.command = "claim"
                         /\ ledger'[o].request.actor = leases'[l].actor
                         /\ \A other \in DOMAIN ledger' \ {o} : ledger'[other].result # l
    BY DEF EveryLeaseIsAnswered
  <2>1. CASE l \in DOMAIN leases
    <3>1. PICK o \in DOMAIN ledger :
             /\ ledger[o].result = l
             /\ ledger[o].request.command = "claim"
             /\ ledger[o].request.actor = leases[l].actor
             /\ \A other \in DOMAIN ledger \ {o} : ledger[other].result # l
      BY <2>1 DEF OpIInv, EveryLeaseIsAnswered
    <3>2. leases'[l].actor = leases[l].actor
      BY <1>4, <2>1, RowsKept DEF OpIInv
    <3>3. l \in LeaseIds
      BY <2>1 DEF OpIInv, IInv, TypeOK
    <3>4. result # l
      BY <1>4, <1>6, <2>1, <3>3 DEF Issued, ActedOn
    <3> QED BY <1>2, <1>5, <3>1, <3>2, <3>4
  <2>2. CASE l \notin DOMAIN leases
    <3>1. Issued(r, result) /\ l = result
      BY <1>4, <2>2 DEF Issued, ActedOn
    <3>2. \A other \in DOMAIN ledger : ledger[other].result # l
      BY <2>2, <3>1 DEF OpIInv, LedgerOK, Issued
    <3> QED BY <1>2, <1>5, <3>1, <3>2 DEF Issued
  <2> QED BY <2>1, <2>2
<1>14. NoLostUpdate'
  <2>1. revision \in Nat
    BY DEF OpIInv, WrittenBefore
  <2>2. ASSUME NEW o \in DOMAIN ledger, WritesDocument(ledger[o].request)
        PROVE  ledger[o].request.seen # r.seen
    BY <1>4, <2>1, <2>2 DEF OpIInv, WrittenBefore
  <2> SUFFICES ASSUME NEW o \in DOMAIN ledger', NEW p \in DOMAIN ledger', o # p,
                      WritesDocument(ledger'[o].request), WritesDocument(ledger'[p].request)
               PROVE  ledger'[o].request.seen # ledger'[p].request.seen
    BY DEF NoLostUpdate, WritesDocument
  <2>3. CASE o = op
    BY <1>5, <2>2, <2>3
  <2>4. CASE p = op
    BY <1>5, <2>2, <2>4
  <2>5. CASE o # op /\ p # op
    BY <1>5, <2>5 DEF OpIInv, NoLostUpdate
  <2> QED BY <2>3, <2>4, <2>5
<1> QED BY <1>7, <1>8, <1>10, <1>11, <1>12, <1>13, <1>14 DEF OpIInv

-----------------------------------------------------------------------------
LEMMA OpInitIInv ==
    ASSUME OpInit
    PROVE  OpIInv
<1>1. /\ Init /\ revision = 1 /\ answers = {} /\ DOMAIN ledger = {}
      /\ sent = [op \in Ops |-> {}] /\ ledger = [o \in DOMAIN ledger |-> ledger[o]]
  BY DEF OpInit, StructuredInit
<1>2. DOMAIN leases = {}
  BY <1>1 DEF Init
<1>3. IInv
  BY <1>1, InitIInv
<1>4. SentOK
  BY <1>1 DEF SentOK
<1>5. LedgerOK /\ WrittenBefore /\ AnswersOK /\ NoLostUpdate
  BY <1>1 DEF LedgerOK, WrittenBefore, AnswersOK, NoLostUpdate
<1>6. EveryLeaseIsAnswered
  BY <1>2 DEF EveryLeaseIsAnswered
<1> QED BY <1>3, <1>4, <1>5, <1>6 DEF OpIInv

LEMMA UnchangedKeeps ==
    ASSUME OpIInv, UNCHANGED opVars
    PROVE  OpIInv'
<1>1. Quiet /\ UNCHANGED <<sent, answers>>
  BY DEF opVars, vars, Quiet
<1>2. SentOK'
  BY <1>1, SentStays DEF OpIInv, Quiet
<1>3. AnswersOK'
  BY <1>1, AnswersStay DEF AnswersOK
<1> QED BY <1>1, <1>2, <1>3, QuietKeeps DEF OpIInv

LEMMA OpNextIInv ==
    ASSUME OpIInv, [OpNext]_opVars
    PROVE  OpIInv'
<1>1. ASSUME NEW op \in Ops, NEW c \in Commands, NEW i \in Items, NEW a \in Actors,
             NEW kind \in LeaseKinds, NEW l \in DOMAIN leases \cup {NoLease},
             Send(op, [command |-> c, item |-> i, actor |-> a, kind |-> kind,
                       lease |-> l, seen |-> revision])
      PROVE  OpIInv'
  <2>1. DOMAIN leases \subseteq LeaseIds /\ revision \in Nat
    BY DEF OpIInv, IInv, TypeOK, WrittenBefore
  <2>2. [command |-> c, item |-> i, actor |-> a, kind |-> kind,
         lease |-> l, seen |-> revision] \in Requests
    BY <2>1 DEF Requests
  <2> QED BY <1>1, <2>2, SendKeeps
<1>2. ASSUME NEW op \in Ops, NEW r \in sent[op],
             Replay(op, r) \/ Perform(op, r) \/ PerformStale(op, r) \/ RefuseStale(op, r)
      PROVE  OpIInv'
  BY <1>2, ReplayKeeps, PerformKeeps, StaleKeeps
<1>3. CASE Elsewhere
  BY <1>3, ElsewhereKeeps
<1>4. CASE UNCHANGED opVars
  BY <1>4, UnchangedKeeps
<1> QED BY <1>1, <1>2, <1>3, <1>4 DEF OpNext, Deliver

THEOREM OpInvariance == OpSpec => []OpIInv
<1>1. OpInit => OpIInv
  BY OpInitIInv
<1>2. OpIInv /\ [OpNext]_opVars => OpIInv'
  BY OpNextIInv
<1> QED BY <1>1, <1>2, PTL DEF OpSpec

(* A lease occupies the workspace only if its claim is in the ledger, under *)
(* one id and for the actor that holds it: a lost reply can be asked again. *)
THEOREM LeasesAreAnswered == OpSpec => []EveryLeaseIsAnswered
<1>1. OpIInv => EveryLeaseIsAnswered
  BY DEF OpIInv
<1> QED BY <1>1, OpInvariance, PTL

(* However often a command is delivered, and whatever else is sent under   *)
(* its id, all answers that report success are the same one.               *)
THEOREM AnswersAlwaysAgree == OpSpec => []AnswersAgree
<1>1. OpIInv => AnswersAgree
  BY DEF OpIInv, AnswersOK, Recorded, AnswersAgree
<1> QED BY <1>1, OpInvariance, PTL

(* A request that was answered "stale" never takes effect afterwards.      *)
THEOREM StaleStaysStale == OpSpec => []StaleIsFinal
<1>1. ASSUME OpIInv PROVE StaleIsFinal
  <2> SUFFICES ASSUME NEW m \in answers, NEW n \in answers, m.result = "stale",
                      n.op = m.op, n.request = m.request, n.result # "stale"
               PROVE  FALSE
    BY DEF StaleIsFinal
  <2>1. Dead(m) /\ Recorded(n)
    BY <1>1 DEF OpIInv, AnswersOK
  <2>2. n.request = ledger[n.op].request
    BY <2>1 DEF Recorded
  <2> QED BY <2>1, <2>2 DEF Dead, Recorded
<1> QED BY <1>1, OpInvariance, PTL

(* Of the commands written against one revision of a document, at most one *)
(* that rewrites it takes effect.                                          *)
THEOREM UpdatesAreNeverLost == OpSpec => []NoLostUpdate
<1>1. OpIInv => NoLostUpdate
  BY DEF OpIInv
<1> QED BY <1>1, OpInvariance, PTL
=============================================================================
