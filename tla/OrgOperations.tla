--------------------------- MODULE OrgOperations ---------------------------
(***************************************************************************)
(* The operation-id ledger around the workflow commands of OrgLeases       *)
(* (note-pipelines/src/org/mutation.rs, and the copies of it in claim_item *)
(* and release_claim).  A client sends a command under an operation id and *)
(* resends it until it sees an answer, so a command may be delivered many  *)
(* times, late, and after later ones; a reply may be lost.                 *)
(*                                                                         *)
(* One delivery is one transaction: look the id up, run the command at the *)
(* document revision its sender saw, and insert the result under the id.   *)
(***************************************************************************)
EXTENDS OrgLeases

CONSTANTS
    Ops,        \* operation ids of one workspace
    MaxSent     \* bound on different requests sent under one id

ASSUME OperationAssumption ==
    /\ MaxSent \in Nat
    /\ "done" \notin LeaseIds /\ "stale" \notin LeaseIds

VARIABLES
    revision,   \* revision of the document that holds the items
    sent,       \* the requests ever sent under each operation id
    ledger,     \* org_operations: request (its fingerprint) and result by id
    answers     \* history: every result and every "stale" ever answered

opVars == <<vars, revision, sent, ledger, answers>>

Commands == {"claim", "submit", "release", "approve"}

Requests ==
    [command : Commands, item : Items, actor : Actors, kind : LeaseKinds,
     lease : LeaseIds \cup {NoLease}, seen : Nat]

(* Where release_claim sends an item when the request names no state.      *)
ReleaseItem(r) ==
    IF r.kind = "execution" THEN ReleaseExecution(r.item, r.lease, ReleaseState)
                            ELSE ReleaseReview(r.item, r.lease, state[r.item])

StartClaim(r, l) ==
    \/ r.kind = "execution" /\ (Claim(r.item, r.actor, l) \/ Reclaim(r.item, r.actor, l))
    \/ r.kind = "review" /\ ClaimReview(r.item, r.actor, l)

SubmitResult(r) ==
    \/ r.item \in ReviewItems /\ RequestReview(r.item, r.lease)
    \/ \E target \in States : Complete(r.item, r.lease, target)

(* Whether the command wrote the document, and so moved its revision on.   *)
WritesDocument(r) == r.command \in {"submit", "approve"} \/ r.kind = "execution"

(* Mutant: the revision the request names is not compared.                  *)
ExecuteAnyRevision(r, result) ==
    /\ \/ r.command = "claim" /\ StartClaim(r, result)
       \/ r.command = "submit" /\ result = "done" /\ SubmitResult(r)
       \/ r.command = "release" /\ result = "done" /\ ReleaseItem(r)
       \/ /\ r.command = "approve" /\ result = "done"
          /\ \E target \in States : Approve(r.item, r.lease, target)
    /\ revision' = IF WritesDocument(r) THEN revision + 1 ELSE revision

(* The command itself, answering result.                                   *)
Execute(r, result) ==
    /\ r.seen = revision
    /\ \/ r.command = "claim" /\ StartClaim(r, result)
       \/ r.command = "submit" /\ result = "done" /\ SubmitResult(r)
       \/ r.command = "release" /\ result = "done" /\ ReleaseItem(r)
       \/ /\ r.command = "approve" /\ result = "done"
          /\ \E target \in States : Approve(r.item, r.lease, target)
    /\ revision' = IF WritesDocument(r) THEN revision + 1 ELSE revision

(* Mutant: the result is not stored.                                       *)
RecordNothing(op, r, result) == UNCHANGED ledger

Record(op, r, result) ==
    ledger' = [o \in DOMAIN ledger \cup {op} |->
        IF o = op THEN [request |-> r, result |-> result] ELSE ledger[o]]

Answer(op, r, result) ==
    answers' = answers \cup {[op |-> op, request |-> r, result |-> result]}

-----------------------------------------------------------------------------
OpInit ==
    /\ StructuredInit
    /\ revision = 1
    /\ sent = [op \in Ops |-> {}]
    /\ ledger = [op \in {} |-> {}]
    /\ answers = {}

(* A client reads the document and sends a command about it, with the      *)
(* proof it was given; it may reuse an id for something else.              *)
Send(op, r) ==
    /\ Cardinality(sent[op]) < MaxSent
    /\ r \notin sent[op]
    /\ r.seen = revision
    /\ IF r.command = "claim" THEN r.lease = NoLease
       ELSE /\ r.lease \in DOMAIN leases
            /\ r = [r EXCEPT !.item = leases[r.lease].item,
                             !.actor = leases[r.lease].actor,
                             !.kind = leases[r.lease].kind]
    /\ sent' = [sent EXCEPT ![op] = @ \cup {r}]
    /\ UNCHANGED <<vars, revision, ledger, answers>>

(* Mutant: the id alone is looked up.                                       *)
ReplayById(op, r) ==
    /\ op \in DOMAIN ledger
    /\ Answer(op, r, ledger[op].result)
    /\ UNCHANGED <<vars, revision, sent, ledger>>

(* The id was used before: the stored result, if it is the same request.   *)
Replay(op, r) ==
    /\ op \in DOMAIN ledger
    /\ ledger[op].request = r
    /\ Answer(op, r, ledger[op].result)
    /\ UNCHANGED <<vars, revision, sent, ledger>>

Perform(op, r) ==
    /\ op \notin DOMAIN ledger
    /\ \E result \in LeaseIds \cup {"done"} :
          /\ Execute(r, result)
          /\ Record(op, r, result)
          /\ Answer(op, r, result)
    /\ UNCHANGED sent

(* A command with a proof meets an expired lease on its item: the expiry   *)
(* is committed, the id is not recorded and the answer is "stale".         *)
PerformStale(op, r) ==
    /\ op \notin DOMAIN ledger
    /\ r.command # "claim"
    /\ BookkeepExpired(r.item)
    /\ Answer(op, r, "stale")
    /\ UNCHANGED <<revision, sent, ledger>>

(* Mutant: the proof is checked before the ledger is read.                  *)
RefuseBeforeReplay(op, r) ==
    /\ r.command # "claim"
    /\ Writable
    /\ ExpiredOpen(r.item, "execution") \cup ExpiredOpen(r.item, "review") = {}
    /\ ~ProofHolds(r.item, r.lease, r.kind)
    /\ Answer(op, r, "stale")
    /\ UNCHANGED <<vars, revision, sent, ledger>>

(* The proof does not hold: rolled back, and the answer is "stale" too.    *)
RefuseStale(op, r) ==
    /\ op \notin DOMAIN ledger
    /\ r.command # "claim"
    /\ Writable
    /\ ExpiredOpen(r.item, "execution") \cup ExpiredOpen(r.item, "review") = {}
    /\ ~ProofHolds(r.item, r.lease, r.kind)
    /\ Answer(op, r, "stale")
    /\ UNCHANGED <<vars, revision, sent, ledger>>

Deliver == \E op \in Ops : \E r \in sent[op] :
    Replay(op, r) \/ Perform(op, r) \/ PerformStale(op, r) \/ RefuseStale(op, r)

(* Time, renewals and workspace archival need no operation id here.        *)
Elsewhere ==
    /\ \/ Tick
       \/ ArchiveWorkspace
       \/ \E i \in Items, l \in DOMAIN leases, kind \in LeaseKinds : Heartbeat(i, l, kind)
    /\ UNCHANGED <<revision, sent, ledger, answers>>

OpNext ==
    \/ \E op \in Ops, c \in Commands, i \in Items, a \in Actors, kind \in LeaseKinds,
          l \in DOMAIN leases \cup {NoLease} :
          Send(op, [command |-> c, item |-> i, actor |-> a, kind |-> kind,
                    lease |-> l, seen |-> revision])
    \/ Deliver
    \/ Elsewhere

OpSpec == OpInit /\ [][OpNext]_opVars

-----------------------------------------------------------------------------
(* Every lease ever issued is the recorded result of exactly one claim: a  *)
(* client that lost the reply can always ask again and learn its token, so *)
(* no lease occupies the workspace unknown to everyone.                    *)
EveryLeaseIsAnswered ==
    \A l \in DOMAIN leases : \E op \in DOMAIN ledger :
        /\ ledger[op].result = l
        /\ ledger[op].request.command = "claim"
        /\ ledger[op].request.actor = leases[l].actor
        /\ \A other \in DOMAIN ledger \ {op} : ledger[other].result # l

(* However often and late a command is delivered, its effect happened once *)
(* and every answer that reports success reports that same effect.         *)
AnswersAgree ==
    \A m, n \in answers :
        m.op = n.op /\ "stale" \notin {m.result, n.result} => m = n

(* A client told "stale" may start over: that request, still somewhere in  *)
(* the network, never takes effect afterwards.                             *)
StaleIsFinal ==
    \A m \in answers : m.result = "stale" =>
        ~ \E n \in answers : n.op = m.op /\ n.request = m.request /\ n.result # "stale"

(* No lost update: of the commands written against one revision of the     *)
(* document, at most one that rewrites it takes effect.                    *)
NoLostUpdate ==
    \A o, p \in DOMAIN ledger :
        /\ o # p
        /\ WritesDocument(ledger[o].request) /\ WritesDocument(ledger[p].request)
        => ledger[o].request.seen # ledger[p].request.seen
=============================================================================
