----------------------------- MODULE OrgLeases -----------------------------
(***************************************************************************)
(* Work items of one Org document, the attempts made at them and the       *)
(* leases that fence those attempts (note-pipelines/src/org).              *)
(*                                                                         *)
(* Every command runs in one immediate storage transaction and reads the   *)
(* clock inside it, so each command is one action; a command that is       *)
(* refused rolls back and is no step.  The operation-id ledger around the  *)
(* commands is in OrgOperations.                                           *)
(*                                                                         *)
(* A lease row is created once, under a fresh id and fencing token, and    *)
(* never deleted.  A proof (lease id, token, kind, actor) is the lease id: *)
(* its token, kind and actor are those of that row.  Requests name the     *)
(* item and the proof separately, as the commands do.                      *)
(***************************************************************************)
EXTENDS OrgPolicy, Sequences

CONSTANTS
    Items, Actors, Nobody,
    LeaseIds, NoLease,
    ReviewItems,     \* items that need review, by property or by type
    Plans,           \* the plans an edit may give an item (see plan)
    MaxTime          \* bound on the clock

ASSUME ModelAssumption ==
    /\ IsFiniteSet(LeaseIds)
    /\ NoLease \notin LeaseIds
    /\ Nobody \notin Actors
    /\ ReviewItems \subseteq Items
    /\ Plans \subseteq [needs : SUBSET Items, start : Nat]
    /\ MaxTime \in Nat

VARIABLES
    now,         \* the injected Org clock
    state,       \* projected workflow state of each item
    assignee,    \* ASSIGNEE property of each item, or Nobody
    plan,        \* each item's prerequisites and scheduled instant (0: none)
    attempts,    \* org_attempts: the statuses of each item, by attempt number
    leases,      \* org_leases: a row for every lease id issued
    archived,    \* "no", "document" or "workspace"
    presented    \* history: the proof carried by the last command that committed

vars == <<now, state, assignee, plan, attempts, leases, archived, presented>>

LeaseKinds == {"execution", "review"}

AttemptStatuses ==
    {"running", "submitted", "completed", "failed", "cancelled", "expired"}

Terminal == AttemptStatuses \ {"running", "submitted"}

EndReasons ==
    {"release", "completion", "review_request", "approval", "rejection",
     "cancellation", "failure", "block", "reassignment", "lease_expiry"}

LeaseRows ==
    [item : Items, attempt : Nat \ {0}, kind : LeaseKinds, actor : Actors,
     expires : Nat, end : EndReasons \cup {"open"}]

-----------------------------------------------------------------------------
(* What a transaction reads.                                               *)

OpenLeases(i) ==
    {l \in DOMAIN leases : leases[l].item = i /\ leases[l].end = "open"}

Unexpired(l) == leases[l].expires > now

ActiveLeases ==
    {l \in DOMAIN leases : leases[l].end = "open" /\ Unexpired(l)}

(* Mutant: only execution leases protect an item.                           *)
HasActiveExecution(i) ==
    \E l \in OpenLeases(i) : leases[l].kind = "execution" /\ Unexpired(l)

HasActive(i) == \E l \in OpenLeases(i) : Unexpired(l)

ExpiredOpen(i, kind) ==
    {l \in OpenLeases(i) : leases[l].kind = kind /\ ~Unexpired(l)}

(* Mutant: the limit is compared before the new lease is counted.           *)
CapacityOffByOne == Cardinality(ActiveLeases) <= ConcurrencyLimit

CapacityLeft == Cardinality(ActiveLeases) < ConcurrencyLimit

LastStatus(i) ==
    IF attempts[i] = <<>> THEN "none" ELSE attempts[i][Len(attempts[i])]

DependenciesDone(i) ==
    \A j \in plan[i].needs : state[j] \in SuccessfulStates

(* validate_dependencies: no item is its own prerequisite, at any distance. *)
Acyclic(p) == \A S \in SUBSET Items \ {{}} : \E i \in S : p[i].needs \cap S = {}

Allowed(i, to, approved) ==
    TransitionAllowed(state[i], to, i \in ReviewItems, approved, DependenciesDone(i))

Writable == archived = "no"

(* Mutant: an expired lease is honoured.                                   *)
LapsedProofHolds(i, l, kind) ==
    /\ l \in DOMAIN leases
    /\ leases[l].item = i
    /\ leases[l].kind = kind
    /\ leases[l].end = "open"

(* The proof of a lease-bound command on item i: the row is the item's, of *)
(* the kind claimed for it, still open and not expired.                    *)
ProofHolds(i, l, kind) ==
    /\ l \in DOMAIN leases
    /\ leases[l].item = i
    /\ leases[l].kind = kind
    /\ leases[l].end = "open"
    /\ Unexpired(l)

-----------------------------------------------------------------------------
(* What a transaction writes.                                              *)

(* close_org_lease with update_org_attempt: the attempt behind the lease   *)
(* must have the expected status, or the whole command is refused.         *)
CloseLease(l, reason, expected, status) ==
    LET row == leases[l] IN
    /\ row.attempt \in DOMAIN attempts[row.item]
    /\ attempts[row.item][row.attempt] = expected
    /\ leases' = [leases EXCEPT ![l].end = reason]
    /\ attempts' = [attempts EXCEPT ![row.item][row.attempt] = status]

(* Mutants: the lease is closed and its attempt forgotten; a submitted      *)
(* attempt expires with the review lease on it.                             *)
ExpireLeasesOnly(ls) ==
    /\ leases' = [l \in DOMAIN leases |->
          IF l \in ls THEN [leases[l] EXCEPT !.end = "lease_expiry"]
                      ELSE leases[l]]
    /\ UNCHANGED attempts

ExpireSubmittedToo(ls) ==
    /\ leases' = [l \in DOMAIN leases |->
          IF l \in ls THEN [leases[l] EXCEPT !.end = "lease_expiry"]
                      ELSE leases[l]]
    /\ attempts' = [i \in Items |-> [n \in DOMAIN attempts[i] |->
          IF \E l \in ls : leases[l].item = i /\ leases[l].attempt = n
          THEN "expired" ELSE attempts[i][n]]]

(* bookkeep_expired_lease on a set of leases (one, or all of a workspace): *)
(* an execution attempt expires with its lease, a submitted one does not.  *)
ExpireLeases(ls) ==
    /\ \A l \in ls : leases[l].kind = "execution" =>
          /\ leases[l].attempt \in DOMAIN attempts[leases[l].item]
          /\ attempts[leases[l].item][leases[l].attempt] = "running"
    /\ leases' = [l \in DOMAIN leases |->
          IF l \in ls THEN [leases[l] EXCEPT !.end = "lease_expiry"]
                      ELSE leases[l]]
    /\ attempts' = [i \in Items |-> [n \in DOMAIN attempts[i] |->
          IF \E l \in ls : /\ leases[l].kind = "execution"
                           /\ leases[l].item = i
                           /\ leases[l].attempt = n
          THEN "expired" ELSE attempts[i][n]]]

(* insert_org_lease_if_capacity under a fresh id, after the expired lease  *)
(* old (or NoLease) has been closed in the same transaction.               *)
IssueLease(i, a, kind, attempt, l, old) ==
    /\ l \in LeaseIds \ DOMAIN leases
    /\ CapacityLeft
    /\ leases' = [k \in DOMAIN leases \cup {l} |->
          IF k = l
          THEN [item |-> i, attempt |-> attempt, kind |-> kind, actor |-> a,
                expires |-> now + LeaseDuration, end |-> "open"]
          ELSE IF k = old THEN [leases[k] EXCEPT !.end = "lease_expiry"]
          ELSE leases[k]]

(* Conditions shared by every claim (evaluate_readiness).                  *)
Claimable(i, a) ==
    /\ Writable
    /\ DependenciesDone(i)
    /\ plan[i].start <= now
    /\ CapacityLeft
    /\ MayClaim(assignee[i], a, Nobody)

(* Mutant: the first attempt is not counted.                                *)
BudgetOffByOne(i) == Len(attempts[i]) <= MaxAttempts

BudgetLeft(i) == Len(attempts[i]) < MaxAttempts

SetState(i, to) == state' = [state EXCEPT ![i] = to]

-----------------------------------------------------------------------------
Init ==
    /\ now = 0
    /\ state \in [Items -> States]
    /\ plan \in [Items -> Plans] /\ Acyclic(plan)
    /\ assignee \in [Items -> Actors \cup {Nobody}]
    /\ attempts = [i \in Items |-> <<>>]
    /\ leases = [l \in {} |-> {}]
    /\ archived = "no"
    /\ presented = NoLease

(* Wall-clock time passes between commands; it does not run backwards.     *)
Tick ==
    /\ now < MaxTime
    /\ now' = now + 1
    /\ presented' = NoLease
    /\ UNCHANGED <<state, assignee, plan, attempts, leases, archived>>

(* claim_item, execution queue, no lease on the item: a new attempt runs.  *)
Claim(i, a, l) ==
    /\ Claimable(i, a) /\ BudgetLeft(i)
    /\ OpenLeases(i) = {}
    /\ state[i] \in ExecutableStates
    /\ LastStatus(i) \in Terminal \cup {"none"}
    /\ Allowed(i, RunningState, FALSE)
    /\ IssueLease(i, a, "execution", Len(attempts[i]) + 1, l, NoLease)
    /\ attempts' = [attempts EXCEPT ![i] = Append(@, "running")]
    /\ SetState(i, RunningState)
    /\ presented' = NoLease
    /\ UNCHANGED <<now, assignee, plan, archived>>

(* claim_item on running work whose execution lease expired: the old       *)
(* attempt is closed, the item passes through the recovery state back to   *)
(* running and a new attempt starts, all in one transaction.               *)
Reclaim(i, a, l) ==
    /\ Claimable(i, a) /\ BudgetLeft(i)
    /\ state[i] = RunningState
    /\ LastStatus(i) = "running"
    /\ Allowed(i, RecoveryState, FALSE)
    /\ TransitionAllowed(RecoveryState, RunningState, i \in ReviewItems, FALSE, TRUE)
    /\ \E old \in ExpiredOpen(i, "execution") :
          LET n == leases[old].attempt IN
          /\ n \in DOMAIN attempts[i] /\ attempts[i][n] = "running"
          /\ IssueLease(i, a, "execution", Len(attempts[i]) + 1, l, old)
          /\ attempts' = [attempts EXCEPT ![i] =
                Append([@ EXCEPT ![n] = "expired"], "running")]
    /\ presented' = NoLease
    /\ UNCHANGED <<now, state, assignee, plan, archived>>

(* claim_item, review queue: an expired review lease is closed first; the  *)
(* submitted attempt and the state stay as they are.                       *)
ClaimReview(i, a, l) ==
    /\ Claimable(i, a)
    /\ state[i] = ReviewState
    /\ LastStatus(i) = "submitted"
    /\ \E old \in ExpiredOpen(i, "review") \cup {NoLease} :
          /\ OpenLeases(i) \subseteq {old}
          /\ IssueLease(i, a, "review", Len(attempts[i]), l, old)
    /\ presented' = NoLease
    /\ UNCHANGED <<now, state, assignee, plan, attempts, archived>>

(* retry_item: failed work whose last attempt is over runs again.          *)
Retry(i, a, l) ==
    /\ Claimable(i, a) /\ BudgetLeft(i)
    /\ OpenLeases(i) = {}
    /\ state[i] = FailedState
    /\ LastStatus(i) \in Terminal
    /\ Allowed(i, RunningState, FALSE)
    /\ IssueLease(i, a, "execution", Len(attempts[i]) + 1, l, NoLease)
    /\ attempts' = [attempts EXCEPT ![i] = Append(@, "running")]
    /\ SetState(i, RunningState)
    /\ presented' = NoLease
    /\ UNCHANGED <<now, assignee, plan, archived>>

(* heartbeat_claim: the lease is renewed from now.  It reads no document.  *)
Heartbeat(i, l, kind) ==
    /\ archived # "workspace"
    /\ ProofHolds(i, l, kind)
    /\ leases[l].expires <= now + LeaseDuration
    /\ leases' = [leases EXCEPT ![l].expires = now + LeaseDuration]
    /\ presented' = l
    /\ UNCHANGED <<now, state, assignee, plan, attempts, archived>>

(* release_claim of an execution lease, to the release state or another.   *)
ReleaseExecution(i, l, target) ==
    /\ Writable
    /\ ProofHolds(i, l, "execution")
    /\ target \notin SuccessfulStates \cup {RunningState, ReviewState}
    /\ Allowed(i, target, FALSE)
    /\ leases[l].attempt \in DOMAIN attempts[i]
    /\ CloseLease(l, "release", attempts[i][leases[l].attempt], "cancelled")
    /\ SetState(i, target)
    /\ presented' = l
    /\ UNCHANGED <<now, assignee, plan, archived>>

(* release_claim of a review lease: without a new state the submission     *)
(* waits for another reviewer, otherwise it is over.                       *)
ReleaseReview(i, l, target) ==
    /\ Writable
    /\ ProofHolds(i, l, "review")
    /\ \/ /\ target = state[i]
          /\ leases' = [leases EXCEPT ![l].end = "release"]
          /\ UNCHANGED <<state, attempts>>
       \/ /\ target # state[i]
          /\ target \notin SuccessfulStates \cup {RunningState}
          /\ Allowed(i, target, FALSE)
          /\ leases[l].attempt \in DOMAIN attempts[i]
          /\ LET status == attempts[i][leases[l].attempt] IN
             CloseLease(l, "release", status,
                IF target = ReviewState THEN status
                ELSE IF target = CancelledState THEN "cancelled" ELSE "failed")
          /\ SetState(i, target)
    /\ presented' = l
    /\ UNCHANGED <<now, assignee, plan, archived>>

(* submit_result of work that needs review, and request_review of any.     *)
RequestReview(i, l) ==
    /\ Writable
    /\ ProofHolds(i, l, "execution")
    /\ Allowed(i, ReviewState, FALSE)
    /\ CloseLease(l, "review_request", "running", "submitted")
    /\ SetState(i, ReviewState)
    /\ presented' = l
    /\ UNCHANGED <<now, assignee, plan, archived>>

(* The successful state a completion goes to must be the only one allowed. *)
UniqueSuccess(i, target, approved) ==
    {s \in SuccessfulStates : Allowed(i, s, approved)} = {target}

(* submit_result of work that needs no review.                             *)
Complete(i, l, target) ==
    /\ Writable
    /\ i \notin ReviewItems
    /\ ProofHolds(i, l, "execution")
    /\ UniqueSuccess(i, target, FALSE)
    /\ CloseLease(l, "completion", "running", "completed")
    /\ SetState(i, target)
    /\ presented' = l
    /\ UNCHANGED <<now, assignee, plan, archived>>

(* approve_item. *)
Approve(i, l, target) ==
    /\ Writable
    /\ ProofHolds(i, l, "review")
    /\ UniqueSuccess(i, target, TRUE)
    /\ CloseLease(l, "approval", "submitted", "completed")
    /\ SetState(i, target)
    /\ presented' = l
    /\ UNCHANGED <<now, assignee, plan, archived>>

(* reject_item. *)
Reject(i, l) ==
    /\ Writable
    /\ ProofHolds(i, l, "review")
    /\ Allowed(i, ReviewRejectionState, FALSE)
    /\ CloseLease(l, "rejection", "submitted", "failed")
    /\ SetState(i, ReviewRejectionState)
    /\ presented' = l
    /\ UNCHANGED <<now, assignee, plan, archived>>

(* transition_item without a proof: only where no lease guards the item.   *)
TransitionUnleased(i, target) ==
    /\ Writable
    /\ OpenLeases(i) = {}
    /\ state[i] \notin {RunningState, ReviewState}
    /\ Allowed(i, target, FALSE)
    /\ SetState(i, target)
    /\ presented' = NoLease
    /\ UNCHANGED <<now, assignee, plan, attempts, leases, archived>>

(* transition_item with a proof.  A plain move leaves the lease open.      *)
TransitionLeased(i, l, kind, target) ==
    LET lifecycle == Lifecycle(state[i], target) IN
    /\ Writable
    /\ ProofHolds(i, l, kind)
    /\ ReviewExit(state[i], lifecycle)
    /\ Allowed(i, target, lifecycle = "approval")
    /\ IF ClosesLease(lifecycle)
       THEN CloseLease(l, lifecycle,
               AttemptBefore(lifecycle, state[i] = ReviewState),
               AttemptAfter(lifecycle))
       ELSE UNCHANGED <<leases, attempts>>
    /\ SetState(i, target)
    /\ presented' = l
    /\ UNCHANGED <<now, assignee, plan, archived>>

(* assign_item with no active lease: an expired one is closed on the way.  *)
Assign(i, who) ==
    /\ Writable
    /\ who # assignee[i]
    /\ ~HasActive(i)
    /\ ExpireLeases(OpenLeases(i))
    /\ assignee' = [assignee EXCEPT ![i] = who]
    /\ presented' = NoLease
    /\ UNCHANGED <<now, state, plan, archived>>

(* assign_item under an active lease ends that lease and its attempt.      *)
RecoveryOf(kind) == IF kind = "execution" THEN ReleaseState ELSE ReviewRejectionState

Reassign(i, who, l, kind) ==
    /\ Writable
    /\ who # assignee[i]
    /\ ProofHolds(i, l, kind)
    /\ Allowed(i, RecoveryOf(kind), FALSE)
    /\ CloseLease(l, "reassignment",
          IF kind = "execution" THEN "running" ELSE "submitted", "cancelled")
    /\ SetState(i, RecoveryOf(kind))
    /\ assignee' = [assignee EXCEPT ![i] = who]
    /\ presented' = l
    /\ UNCHANGED <<now, plan, archived>>

(* schedule_item, add_dependency and remove_dependency edit one field of   *)
(* an item's plan; under an active lease they need its proof, otherwise    *)
(* an expired lease is closed on the way.                                  *)
(* Mutant: an edit is only kept from making an item wait for itself.        *)
SetPlanNotOnItself(i, p) ==
    /\ plan' = [plan EXCEPT ![i] = p]
    /\ i \notin p.needs

SetPlan(i, p) ==
    /\ plan' = [plan EXCEPT ![i] = p]
    /\ Acyclic(plan')

OneFieldEdit(old, p) ==
    \/ p.start # old.start /\ p.needs = old.needs
    \/ p.start = old.start /\ \E j \in Items :
          \/ j \notin old.needs /\ p.needs = old.needs \cup {j}
          \/ j \in old.needs /\ p.needs = old.needs \ {j}

EditPlanUnleased(i, p) ==
    /\ Writable
    /\ OneFieldEdit(plan[i], p)
    /\ ~HasActive(i)
    /\ SetPlan(i, p)
    /\ ExpireLeases(OpenLeases(i))
    /\ presented' = NoLease
    /\ UNCHANGED <<now, state, assignee, archived>>

EditPlanLeased(i, p, l, kind) ==
    /\ Writable
    /\ OneFieldEdit(plan[i], p)
    /\ ProofHolds(i, l, kind)
    /\ SetPlan(i, p)
    /\ presented' = l
    /\ UNCHANGED <<now, state, assignee, attempts, leases, archived>>

(* Any other command on an item whose lease has expired.  Release, submit, *)
(* request_review, approve, reject, transition and retry then only close   *)
(* the lease, commit that and answer "stale"; link_note and the like close *)
(* it and edit text this module leaves out.                                *)
BookkeepExpired(i) ==
    /\ Writable
    /\ OpenLeases(i) # {} /\ ~HasActive(i)
    /\ ExpireLeases(OpenLeases(i))
    /\ presented' = NoLease
    /\ UNCHANGED <<now, state, assignee, plan, archived>>

(* What a raw import may do to one item: the state change is judged by its *)
(* edge alone (validate_raw_state_changes).                                *)
RawChange(i, target, who, p) ==
    LET lifecycle == Lifecycle(state[i], target) IN
    /\ Writable
    /\ <<target, who, p>> # <<state[i], assignee[i], plan[i]>>
    /\ target # state[i] =>
          /\ ReviewExit(state[i], lifecycle)
          /\ Allowed(i, target, lifecycle = "approval")
    /\ SetState(i, target)
    /\ assignee' = [assignee EXCEPT ![i] = who]
    /\ SetPlan(i, p)
    /\ UNCHANGED <<now, archived>>

(* Raw import touching an item with no active lease.                       *)
RawImportUnleased(i, target, who, p) ==
    /\ ~HasActive(i)
    /\ RawChange(i, target, who, p)
    /\ ExpireLeases(OpenLeases(i))
    /\ presented' = NoLease

(* Raw import touching an actively leased item: it needs the proof, and    *)
(* reassigning the item needs its recovery state.                          *)
RawImportLeased(i, target, who, p, l, kind) ==
    LET lifecycle == Lifecycle(state[i], target)
        closes == target # state[i] /\ ClosesLease(lifecycle)
    IN
    /\ ProofHolds(i, l, kind)
    /\ RawChange(i, target, who, p)
    /\ \/ /\ who # assignee[i]
          /\ target = RecoveryOf(kind)
          /\ CloseLease(l, "reassignment",
                IF kind = "execution" THEN "running" ELSE "submitted", "cancelled")
       \/ /\ who = assignee[i]
          /\ closes
          /\ CloseLease(l, lifecycle,
                AttemptBefore(lifecycle, state[i] = ReviewState),
                AttemptAfter(lifecycle))
       \/ /\ who = assignee[i]
          /\ ~closes
          /\ UNCHANGED <<leases, attempts>>
    /\ presented' = l

(* Mutant: the document is archived under its workers.                      *)
ArchiveRegardless ==
    /\ archived = "no"
    /\ archived' = "document"
    /\ presented' = NoLease
    /\ UNCHANGED <<now, state, assignee, plan, attempts, leases>>

(* archive_document is refused under an active lease and leaves expired    *)
(* ones open; restore_document makes the same rows live again.             *)
ArchiveDocument ==
    /\ archived = "no"
    /\ \A i \in Items : ~HasActive(i)
    /\ archived' = "document"
    /\ presented' = NoLease
    /\ UNCHANGED <<now, state, assignee, plan, attempts, leases>>

RestoreDocument ==
    /\ archived = "document"
    /\ archived' = "no"
    /\ presented' = NoLease
    /\ UNCHANGED <<now, state, assignee, plan, attempts, leases>>

(* archive_workspace closes every expired lease first; an active one       *)
(* refuses the archive, but what was closed stays closed.                  *)
ArchiveWorkspace ==
    LET expired == {l \in DOMAIN leases : leases[l].end = "open" /\ ~Unexpired(l)} IN
    /\ archived # "workspace"
    /\ ActiveLeases = {} \/ expired # {}
    /\ ExpireLeases(expired)
    /\ archived' = IF ActiveLeases = {} THEN "workspace" ELSE archived
    /\ presented' = NoLease
    /\ UNCHANGED <<now, state, assignee, plan>>

-----------------------------------------------------------------------------
Claims == \E i \in Items, a \in Actors, l \in LeaseIds :
    Claim(i, a, l) \/ Reclaim(i, a, l) \/ ClaimReview(i, a, l) \/ Retry(i, a, l)

(* Commands that carry a lease proof. *)
Fenced == \E i \in Items, l \in DOMAIN leases :
    \/ RequestReview(i, l)
    \/ Reject(i, l)
    \/ \E kind \in LeaseKinds : Heartbeat(i, l, kind)
    \/ \E target \in States :
          \/ ReleaseExecution(i, l, target)
          \/ ReleaseReview(i, l, target)
          \/ Complete(i, l, target)
          \/ Approve(i, l, target)
          \/ \E kind \in LeaseKinds : TransitionLeased(i, l, kind, target)
    \/ \E who \in Actors \cup {Nobody}, kind \in LeaseKinds : Reassign(i, who, l, kind)
    \/ \E p \in Plans, kind \in LeaseKinds : EditPlanLeased(i, p, l, kind)

Unfenced == \E i \in Items :
    \/ BookkeepExpired(i)
    \/ \E target \in States : TransitionUnleased(i, target)
    \/ \E who \in Actors \cup {Nobody} : Assign(i, who)
    \/ \E p \in Plans : EditPlanUnleased(i, p)

RawImport ==
    \E i \in Items, target \in States, who \in Actors \cup {Nobody}, p \in Plans :
        \/ RawImportUnleased(i, target, who, p)
        \/ \E l \in DOMAIN leases, kind \in LeaseKinds :
              RawImportLeased(i, target, who, p, l, kind)

Archival == ArchiveDocument \/ RestoreDocument \/ ArchiveWorkspace

StructuredNext == Tick \/ Claims \/ Fenced \/ Unfenced \/ Archival

Next == StructuredNext \/ RawImport

Spec == Init /\ [][Next]_vars

(* The same system, its items created by create_item and its documents     *)
(* never imported or replaced as raw text.                                 *)
StructuredInit ==
    Init /\ state \in [Items -> {InitialState} \cup ExecutableStates]

StructuredSpec == StructuredInit /\ [][StructuredNext]_vars

-----------------------------------------------------------------------------
TypeOK ==
    /\ now \in Nat
    /\ state \in [Items -> States]
    /\ assignee \in [Items -> Actors \cup {Nobody}]
    /\ plan \in [Items -> Plans]
    /\ attempts \in [Items -> Seq(AttemptStatuses)]
    /\ DOMAIN leases \subseteq LeaseIds
    /\ leases \in [DOMAIN leases -> LeaseRows]
    /\ archived \in {"no", "document", "workspace"}
    /\ presented \in LeaseIds \cup {NoLease}

(* No item is ever held twice: two open leases are on two items.           *)
OneOwner ==
    \A l, m \in DOMAIN leases :
        /\ leases[l].end = "open" /\ leases[m].end = "open"
        /\ leases[l].item = leases[m].item
        => l = m

(* An open lease stands for the item's last attempt, which runs under an   *)
(* execution lease and waits for its verdict under a review lease: the     *)
(* lease row and the attempt row, written by different statements of every *)
(* command, never disagree.                                                *)
LeaseMatchesAttempt ==
    \A l \in DOMAIN leases : leases[l].end = "open" =>
        LET i == leases[l].item IN
        /\ leases[l].attempt = Len(attempts[i])
        /\ attempts[i][leases[l].attempt] =
              IF leases[l].kind = "execution" THEN "running" ELSE "submitted"

(* Only the last attempt of an item can still be running or submitted, and *)
(* a running one is held by an open execution lease: no command leaves an  *)
(* attempt running that nobody can finish.                                 *)
LiveAttemptsAreOwned ==
    \A i \in Items : \A n \in DOMAIN attempts[i] :
        /\ n < Len(attempts[i]) => attempts[i][n] \in Terminal
        /\ attempts[i][n] = "running" =>
              \E l \in OpenLeases(i) : leases[l].kind = "execution"

OwnershipConsistent == OneOwner /\ LeaseMatchesAttempt /\ LiveAttemptsAreOwned

(* The workspace limit bounds the active leases of both kinds, whatever    *)
(* expired leases are still open when a claim counts them.                 *)
CapacityRespected == Cardinality(ActiveLeases) <= ConcurrencyLimit

(* Claims, reclaims and retries together stay within the retry budget.     *)
RetryBudgetRespected == \A i \in Items : Len(attempts[i]) <= MaxAttempts

(* Nothing is held by an agent while its document or workspace is archived *)
(* (archive_document closes no lease, so an expired one may stay open).    *)
ArchivedHoldsNothing == archived # "no" => ActiveLeases = {}

(* The audit trail agrees with itself: a closed lease's end reason and the *)
(* status of its attempt tell the same story.                              *)
OutcomesOf(kind, reason) ==
    CASE reason \in {"completion", "approval"}    -> {"completed"}
      [] reason \in {"rejection", "failure"}      -> {"failed"}
      [] reason \in {"reassignment", "cancellation", "block"} -> {"cancelled"}
      [] reason = "review_request"  -> AttemptStatuses \ {"running", "expired"}
      [] reason = "release"      -> IF kind = "execution" THEN {"cancelled"}
                                    ELSE AttemptStatuses \ {"running", "expired"}
      [] reason = "lease_expiry" -> IF kind = "execution" THEN {"expired"}
                                    ELSE AttemptStatuses \ {"running", "expired"}

ReasonMatchesOutcome ==
    \A l \in DOMAIN leases : leases[l].end # "open" =>
        attempts[leases[l].item][leases[l].attempt]
            \in OutcomesOf(leases[l].kind, leases[l].end)

(* Successful work was earned: its last attempt completed and, where       *)
(* review is required, a review lease on that attempt ended in approval.   *)
(* Holds of the structured commands under a policy with SuccessIsDistinct. *)
CompletionIsEarned ==
    \A i \in Items : state[i] \in SuccessfulStates =>
        /\ LastStatus(i) = "completed"
        /\ i \in ReviewItems => \E l \in DOMAIN leases :
              /\ leases[l].item = i /\ leases[l].attempt = Len(attempts[i])
              /\ leases[l].kind = "review" /\ leases[l].end = "approval"

(* The queue never waits on itself: while work is unfinished, some         *)
(* unfinished item has all its prerequisites done, whatever dependency     *)
(* edits and imports of any items came before.                             *)
SomeItemIsUnblocked ==
    (\E i \in Items : state[i] \notin SuccessfulStates) =>
        \E i \in Items : state[i] \notin SuccessfulStates /\ DependenciesDone(i)

(* Work whose attempt expired can be picked up again: with budget left, no *)
(* dependency, schedule or capacity in the way and the document writable,  *)
(* some actor's claim is accepted (docs/org-module-design.md section 3.6). *)
ClaimReady(i, a) ==
    /\ Claimable(i, a)
    /\ \/ state[i] \in ExecutableStates /\ OpenLeases(i) = {}
       \/ state[i] = RunningState /\ ExpiredOpen(i, "execution") # {}

ExpiredWorkIsRecoverable ==
    \A i \in Items :
        /\ Writable /\ BudgetLeft(i) /\ DependenciesDone(i) /\ CapacityLeft
        /\ plan[i].start <= now
        /\ state[i] = RunningState
        /\ LastStatus(i) = "expired" \/ ExpiredOpen(i, "execution") # {}
        => \E a \in Actors : assignee[i] \in {Nobody, a} /\ ClaimReady(i, a)

-----------------------------------------------------------------------------
(* A step that touches an item under an active lease, its lease row, its   *)
(* attempts, state, assignee or plan, carries the proof of that very lease.*)
OnlyTheHolderActs ==
    [][\A i \in Items : \A l \in OpenLeases(i) :
        Unexpired(l) /\ ( \/ leases'[l] # leases[l]
                          \/ attempts'[i] # attempts[i]
                          \/ state'[i] # state[i]
                          \/ assignee'[i] # assignee[i]
                          \/ plan'[i] # plan[i] )
        => presented' = l]_vars

(* A token that has lapsed or whose lease has ended is worthless forever:  *)
(* no renewal, replay or restore revives it.                               *)
LapsedStaysLapsed ==
    [][\A l \in DOMAIN leases :
        leases[l].end # "open" \/ ~Unexpired(l)
        => /\ l \in DOMAIN leases'
           /\ l \notin ActiveLeases'
           /\ leases[l].end # "open" => leases'[l] = leases[l]]_vars

(* Attempts are an append-only history: none is dropped or renumbered, a   *)
(* finished one is never rewritten, a submitted one only gets its verdict. *)
AttemptHistoryIsFinal ==
    [][\A i \in Items : \A n \in DOMAIN attempts[i] :
        /\ n \in DOMAIN attempts'[i]
        /\ attempts[i][n] \in Terminal => attempts'[i][n] = attempts[i][n]
        /\ attempts[i][n] = "submitted" =>
              attempts'[i][n] \in {"submitted", "completed", "failed", "cancelled"}]_vars

(* Review-required work becomes successful only by the verdict of the      *)
(* reviewer that holds it (PRD: import obeys the same review rules).       *)
ReviewIsNotBypassed ==
    [][\A i \in ReviewItems :
        state[i] \notin SuccessfulStates /\ state'[i] \in SuccessfulStates
        => /\ presented' \in OpenLeases(i)
           /\ leases[presented'].kind = "review"]_vars
=============================================================================
