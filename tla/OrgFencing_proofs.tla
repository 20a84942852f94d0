------------------------- MODULE OrgFencing_proofs -------------------------
(* OrgLeases implements FencedWork, for every policy and every instance.   *)
EXTENDS OrgFencing, OrgLeases_proofs

ActiveOn(j) == {l \in OpenLeases(j) : Unexpired(l)}

-----------------------------------------------------------------------------
(* The holder of an item is its one active lease, before and after a step. *)

LEMMA HolderNone ==
    ASSUME NEW j, ActiveOn(j) = {}
    PROVE  HolderOf(j) = NoLease
BY DEF HolderOf, HasActive, ActiveOn

LEMMA HolderNoneNext ==
    ASSUME NEW j, ActiveOn(j)' = {}
    PROVE  HolderOf(j)' = NoLease
BY DEF HolderOf, HasActive, ActiveOn

LEMMA HolderActive ==
    ASSUME IInv, NEW j, NEW l \in ActiveOn(j)
    PROVE  HolderOf(j) = l /\ ActiveOn(j) = {l} /\ l \in LeaseIds /\ l # NoLease
<1>1. ActiveOn(j) = {l}
  BY DEF ActiveOn, OpenLeases, IInv, OwnershipConsistent, OneOwner
<1>2. \A m \in OpenLeases(j) : Unexpired(m) <=> m = l
  BY <1>1 DEF ActiveOn
<1>3. HolderOf(j) = l
  BY <1>2 DEF HolderOf, HasActive, ActiveOn
<1> QED BY <1>1, <1>3, ModelAssumption DEF ActiveOn, OpenLeases, IInv, TypeOK

LEMMA HolderActiveNext ==
    ASSUME IInv', NEW j, NEW l, l \in ActiveOn(j)'
    PROVE  HolderOf(j)' = l
<1>1. ActiveOn(j)' = {l}
  BY DEF ActiveOn, OpenLeases, IInv, OwnershipConsistent, OneOwner
<1>2. \A m \in OpenLeases(j)' : Unexpired(m)' <=> m = l
  BY <1>1 DEF ActiveOn
<1> QED BY <1>2 DEF HolderOf, HasActive, ActiveOn

LEMMA HolderFollows ==
    ASSUME IInv, IInv', NEW j, ActiveOn(j)' = ActiveOn(j)
    PROVE  HolderOf(j)' = HolderOf(j)
<1>1. CASE ActiveOn(j) = {}
  BY <1>1, HolderNone, HolderNoneNext
<1>2. ASSUME NEW l \in ActiveOn(j)
      PROVE  HolderOf(j)' = HolderOf(j)
  BY HolderActive, HolderActiveNext
<1> QED BY <1>1, <1>2

-----------------------------------------------------------------------------
(* Which leases are active on an item after each kind of table step.       *)

LEMMA ClosesActive ==
    ASSUME IInv, NEW l \in DOMAIN leases, NEW i, leases[l].end = "open", leases[l].item = i,
           Unexpired(l), Closes(l) \/ ReleasesReview(l)
    PROVE  ActiveOn(i)' = {} /\ \A j : j # i => ActiveOn(j)' = ActiveOn(j)
<1>1. leases \in [DOMAIN leases -> LeaseRows]
  BY DEF IInv, TypeOK
<1>2. PICK reason \in EndReasons : leases' = [leases EXCEPT ![l].end = reason]
  BY DEF Closes, CloseLease, ReleasesReview, EndReasons
<1>3. now' = now /\ reason # "open"
  BY DEF Closes, ReleasesReview, EndReasons
<1>4. /\ DOMAIN leases' = DOMAIN leases
      /\ \A m \in DOMAIN leases :
           /\ leases'[m].item = leases[m].item
           /\ leases'[m].expires = leases[m].expires
           /\ leases'[m].end = IF m = l THEN reason ELSE leases[m].end
  BY <1>1, <1>2 DEF LeaseRows
<1>5. \A m \in OpenLeases(i) : m = l
  BY DEF OpenLeases, IInv, OwnershipConsistent, OneOwner
<1> QED BY <1>3, <1>4, <1>5 DEF ActiveOn, OpenLeases, Unexpired

LEMMA RenewsActive ==
    ASSUME IInv, NEW l \in DOMAIN leases, leases[l].end = "open", Unexpired(l), Renews(l)
    PROVE  \A j : ActiveOn(j)' = ActiveOn(j)
<1>1. leases \in [DOMAIN leases -> LeaseRows] /\ now \in Nat
  BY DEF IInv, TypeOK
<1>2. now + LeaseDuration > now
  BY <1>1, PolicyAssumption DEF ValidPolicy
<1>3. /\ DOMAIN leases' = DOMAIN leases /\ now' = now
      /\ \A m \in DOMAIN leases :
           /\ leases'[m].item = leases[m].item
           /\ leases'[m].end = leases[m].end
           /\ leases'[m].expires = IF m = l THEN now + LeaseDuration ELSE leases[m].expires
  BY <1>1 DEF Renews, LeaseRows
<1> QED BY <1>2, <1>3 DEF ActiveOn, OpenLeases, Unexpired

LEMMA ExpiresActive ==
    ASSUME IInv, Expires
    PROVE  \A j : ActiveOn(j)' = ActiveOn(j)
<1>1. leases \in [DOMAIN leases -> LeaseRows]
  BY DEF IInv, TypeOK
<1>2. PICK ls \in SUBSET DOMAIN leases :
          /\ \A l \in ls : ~Unexpired(l)
          /\ ExpireLeases(ls)
  BY DEF Expires
<1>3. /\ DOMAIN leases' = DOMAIN leases /\ now' = now
      /\ \A m \in DOMAIN leases :
           /\ leases'[m].item = leases[m].item
           /\ leases'[m].expires = leases[m].expires
           /\ leases'[m].end = IF m \in ls THEN "lease_expiry" ELSE leases[m].end
  BY <1>1, <1>2 DEF Expires, ExpireLeases, LeaseRows
<1> QED BY <1>2, <1>3 DEF ActiveOn, OpenLeases, Unexpired

Issues(i, l) ==
    /\ now' = now /\ CapacityLeft
    /\ \E old \in OpenLeases(i) \cup {NoLease} :
          /\ OpenLeases(i) \subseteq {old}
          /\ old \in OpenLeases(i) => ~Unexpired(old)
          /\ \E a, kind, n : IssueLease(i, a, kind, n, l, old)

LEMMA IssuesActive ==
    ASSUME IInv, NEW i, NEW l, Issues(i, l)
    PROVE  /\ ActiveOn(i) = {} /\ ActiveOn(i)' = {l}
           /\ l \in LeaseIds \ DOMAIN leases /\ DOMAIN leases' = DOMAIN leases \cup {l}
           /\ \A j : j # i => ActiveOn(j)' = ActiveOn(j)
<1>1. leases \in [DOMAIN leases -> LeaseRows] /\ now \in Nat /\ NoLease \notin DOMAIN leases
  BY ModelAssumption DEF IInv, TypeOK
<1>2. now + LeaseDuration > now
  BY <1>1, PolicyAssumption DEF ValidPolicy
<1>3. PICK old \in OpenLeases(i) \cup {NoLease} :
          /\ OpenLeases(i) \subseteq {old}
          /\ old \in OpenLeases(i) => ~Unexpired(old)
          /\ \E a, kind, n : IssueLease(i, a, kind, n, l, old)
  BY DEF Issues
<1>4. /\ DOMAIN leases' = DOMAIN leases \cup {l} /\ l \in LeaseIds \ DOMAIN leases
      /\ leases'[l].item = i /\ leases'[l].end = "open"
      /\ leases'[l].expires = now + LeaseDuration
      /\ \A m \in DOMAIN leases :
           /\ leases'[m].item = leases[m].item
           /\ leases'[m].expires = leases[m].expires
           /\ leases'[m].end = IF m = old THEN "lease_expiry" ELSE leases[m].end
  BY <1>1, <1>3 DEF IssueLease, LeaseRows
<1>5. now' = now
  BY DEF Issues
<1>6. \A j : j # i => old \notin OpenLeases(j)
  BY <1>1, <1>3 DEF OpenLeases
<1>7. ActiveOn(i) = {}
  BY <1>3 DEF ActiveOn
<1>8. ActiveOn(i)' = {l}
  BY <1>2, <1>3, <1>4, <1>5 DEF ActiveOn, OpenLeases, Unexpired
<1>9. \A j : j # i => ActiveOn(j)' = ActiveOn(j)
  BY <1>4, <1>5, <1>6 DEF ActiveOn, OpenLeases, Unexpired
<1> QED BY <1>4, <1>7, <1>8, <1>9

-----------------------------------------------------------------------------
(* What a step means for the promise: work by the holder of an item, a     *)
(* fresh hold, or a step that leaves every held item alone.                *)

Content(j) == <<state[j], assignee[j], plan[j], attempts[j]>>

HolderStep(i, l) ==
    /\ l \in DOMAIN leases /\ leases[l].end = "open" /\ leases[l].item = i /\ Unexpired(l)
    /\ presented' = l /\ UNCHANGED archived
    /\ \A j \in Items \ {i} : Content(j)' = Content(j)
    /\ \/ Closes(l) \/ ReleasesReview(l) \/ Renews(l)
       \/ UNCHANGED <<leases, now>>

ClaimStep(i, l) ==
    /\ archived = "no" /\ UNCHANGED archived /\ presented' = NoLease
    /\ \A j \in Items \ {i} : Content(j)' = Content(j)
    /\ Issues(i, l)

FreeStep ==
    /\ presented' = NoLease
    /\ archived' \in {"no", "document", "workspace"}
    /\ archived' # archived => ActiveLeases = {}
    /\ \A j \in Items : HasActive(j) => Content(j)' = Content(j)
    /\ Expires \/ UNCHANGED <<leases, now>>

LapseStep ==
    /\ now' = now + 1 /\ presented' = NoLease
    /\ UNCHANGED <<state, assignee, plan, attempts, leases, archived>>

PromiseStep ==
    \/ UNCHANGED vars \/ LapseStep \/ FreeStep
    \/ \E i \in Items, l \in DOMAIN leases : HolderStep(i, l)
    \/ \E i \in Items, l \in LeaseIds : ClaimStep(i, l)

LEMMA ContentOfOthers ==
    ASSUME IInv, NEW i \in Items, NEW to, NEW who, NEW p, NEW s,
           state' = [state EXCEPT ![i] = to] \/ state' = state,
           assignee' = [assignee EXCEPT ![i] = who] \/ assignee' = assignee,
           plan' = [plan EXCEPT ![i] = p] \/ plan' = plan,
           attempts' = [attempts EXCEPT ![i] = s] \/ attempts' = attempts
    PROVE  \A j \in Items \ {i} : Content(j)' = Content(j)
BY DEF Content, IInv, TypeOK

LEMMA ClaimsAreClaimSteps ==
    ASSUME IInv, NEW i \in Items, NEW a \in Actors, NEW l \in LeaseIds,
           Claim(i, a, l) \/ Reclaim(i, a, l) \/ ClaimReview(i, a, l) \/ Retry(i, a, l)
    PROVE  ClaimStep(i, l)
<1>1. /\ archived = "no" /\ UNCHANGED archived /\ presented' = NoLease
      /\ now' = now /\ CapacityLeft
  BY DEF Claim, Reclaim, ClaimReview, Retry, Claimable, Writable
<1>2. \A j \in Items \ {i} : Content(j)' = Content(j)
  <2>1. CASE Claim(i, a, l)
    BY <2>1, ContentOfOthers DEF Claim, SetState
  <2>2. CASE Reclaim(i, a, l)
    BY <2>2, ContentOfOthers DEF Reclaim
  <2>3. CASE ClaimReview(i, a, l)
    BY <2>3, ContentOfOthers DEF ClaimReview
  <2>4. CASE Retry(i, a, l)
    BY <2>4, ContentOfOthers DEF Retry, SetState
  <2> QED BY <2>1, <2>2, <2>3, <2>4
<1>3. Issues(i, l)
  <2>1. CASE Claim(i, a, l) \/ Retry(i, a, l)
    BY <1>1, <2>1 DEF Claim, Retry, Issues
  <2>2. CASE Reclaim(i, a, l)
    <3>1. PICK old \in ExpiredOpen(i, "execution") : \E n : IssueLease(i, a, "execution", n, l, old)
      BY <2>2 DEF Reclaim
    <3>2. OpenLeases(i) \subseteq {old}
      BY DEF ExpiredOpen, OpenLeases, IInv, OwnershipConsistent, OneOwner
    <3> QED BY <1>1, <3>1, <3>2 DEF Issues, ExpiredOpen
  <2>3. CASE ClaimReview(i, a, l)
    <3>1. PICK old \in ExpiredOpen(i, "review") \cup {NoLease} :
            /\ OpenLeases(i) \subseteq {old}
            /\ \E n : IssueLease(i, a, "review", n, l, old)
      BY <2>3 DEF ClaimReview
    <3>2. NoLease \notin OpenLeases(i)
      BY ModelAssumption DEF OpenLeases, IInv, TypeOK
    <3> QED BY <1>1, <3>1, <3>2 DEF Issues, ExpiredOpen
  <2> QED BY <2>1, <2>2, <2>3
<1> QED BY <1>1, <1>2, <1>3 DEF ClaimStep

-----------------------------------------------------------------------------
(* Commands and imports that carry a proof are work by its holder.         *)

TouchesOnly(i) ==
    \A j \in Items \ {i} :
        state'[j] = state[j] /\ assignee'[j] = assignee[j] /\ plan'[j] = plan[j]

LEMMA HoldersWork ==
    ASSUME IInv, NEW i \in Items, NEW l \in DOMAIN leases, NEW kind, ProofHolds(i, l, kind),
           presented' = l, UNCHANGED <<now, archived>>, TouchesOnly(i),
           ClosesLeaseOf(i, l) \/ UNCHANGED <<leases, attempts>>
    PROVE  HolderStep(i, l)
<1>1. \A j \in Items \ {i} : attempts'[j] = attempts[j]
  <2>1. CASE \E reason, expected, status : CloseLease(l, reason, expected, status)
    BY <2>1 DEF CloseLease, ProofHolds, IInv, TypeOK
  <2>2. CASE attempts' = attempts
    BY <2>2
  <2> QED BY <2>1, <2>2 DEF ClosesLeaseOf, Closes, ReleasesReview, Renews
<1>2. \A j \in Items \ {i} : Content(j)' = Content(j)
  BY <1>1 DEF TouchesOnly, Content
<1> QED BY <1>2 DEF HolderStep, ProofHolds, ClosesLeaseOf

LEMMA FencedAreHolderSteps ==
    ASSUME IInv, Fenced
    PROVE  \E i \in Items, l \in DOMAIN leases : HolderStep(i, l)
<1> PICK i \in Items, l \in DOMAIN leases :
      \/ RequestReview(i, l)
      \/ Reject(i, l)
      \/ \E kind \in LeaseKinds : Heartbeat(i, l, kind)
      \/ \E target \in States :
            \/ ReleaseExecution(i, l, target)
            \/ ReleaseReview(i, l, target)
            \/ Complete(i, l, target)
            \/ Approve(i, l, target)
            \/ \E kind \in LeaseKinds : TransitionLeased(i, l, kind, target)
      \/ \E who \in Actors \cup {Nobody}, kind \in LeaseKinds : Reassign(i, who, l, kind)
      \/ \E p \in Plans, kind \in LeaseKinds : EditPlanLeased(i, p, l, kind)
  BY DEF Fenced
<1> USE HoldersWork
<1>1. CASE \/ RequestReview(i, l) \/ Reject(i, l)
          \/ \E target \in States : ReleaseExecution(i, l, target) \/ Complete(i, l, target)
                                       \/ Approve(i, l, target)
  <2>1. /\ ProofHolds(i, l, "execution") \/ ProofHolds(i, l, "review")
        /\ presented' = l /\ UNCHANGED <<now, archived>>
        /\ \E to : SetState(i, to)
        /\ UNCHANGED <<assignee, plan>>
    BY <1>1 DEF RequestReview, Reject, ReleaseExecution, Complete, Approve
  <2>2. TouchesOnly(i)
    BY <2>1 DEF TouchesOnly, SetState, IInv, TypeOK
  <2>3. ClosesLeaseOf(i, l)
    BY <1>1, FencedSteps
  <2> QED BY <2>1, <2>2, <2>3
<1>2. ASSUME NEW kind \in LeaseKinds, Heartbeat(i, l, kind)
      PROVE  HolderStep(i, l)
  <2>1. /\ ProofHolds(i, l, kind) /\ presented' = l
        /\ UNCHANGED <<now, archived, state, assignee, plan>>
    BY <1>2 DEF Heartbeat
  <2>2. ClosesLeaseOf(i, l)
    BY <1>2, FencedSteps
  <2> QED BY <2>1, <2>2 DEF TouchesOnly
<1>3. ASSUME NEW target \in States, ReleaseReview(i, l, target)
      PROVE  HolderStep(i, l)
  <2>1. /\ ProofHolds(i, l, "review") /\ presented' = l
        /\ UNCHANGED <<now, archived, assignee, plan>>
        /\ UNCHANGED state \/ SetState(i, target)
    BY <1>3 DEF ReleaseReview
  <2>2. TouchesOnly(i)
    BY <2>1 DEF TouchesOnly, SetState, IInv, TypeOK
  <2>3. ClosesLeaseOf(i, l)
    BY <1>3, FencedSteps
  <2> QED BY <2>1, <2>2, <2>3
<1>4. ASSUME NEW kind \in LeaseKinds, NEW target \in States, TransitionLeased(i, l, kind, target)
      PROVE  HolderStep(i, l)
  <2>1. /\ ProofHolds(i, l, kind) /\ presented' = l
        /\ UNCHANGED <<now, archived, assignee, plan>> /\ SetState(i, target)
    BY <1>4 DEF TransitionLeased
  <2>2. TouchesOnly(i)
    BY <2>1 DEF TouchesOnly, SetState, IInv, TypeOK
  <2>3. ClosesLeaseOf(i, l) \/ KeepsTables
    BY <1>4, TransitionStep
  <2> QED BY <2>1, <2>2, <2>3 DEF KeepsTables
<1>5. ASSUME NEW who \in Actors \cup {Nobody}, NEW kind \in LeaseKinds, Reassign(i, who, l, kind)
      PROVE  HolderStep(i, l)
  <2>1. /\ ProofHolds(i, l, kind) /\ presented' = l
        /\ UNCHANGED <<now, archived, plan>> /\ SetState(i, RecoveryOf(kind))
        /\ assignee' = [assignee EXCEPT ![i] = who]
    BY <1>5 DEF Reassign
  <2>2. TouchesOnly(i)
    BY <2>1 DEF TouchesOnly, SetState, IInv, TypeOK
  <2>3. ClosesLeaseOf(i, l)
    BY <1>5, ReassignStep
  <2> QED BY <2>1, <2>2, <2>3
<1>6. ASSUME NEW p \in Plans, NEW kind \in LeaseKinds, EditPlanLeased(i, p, l, kind)
      PROVE  HolderStep(i, l)
  <2>1. /\ ProofHolds(i, l, kind) /\ presented' = l
        /\ UNCHANGED <<now, archived, state, assignee, leases, attempts>>
        /\ plan' = [plan EXCEPT ![i] = p]
    BY <1>6 DEF EditPlanLeased, SetPlan
  <2>2. TouchesOnly(i)
    BY <2>1 DEF TouchesOnly, IInv, TypeOK
  <2> QED BY <2>1, <2>2
<1> QED BY <1>1, <1>2, <1>3, <1>4, <1>5, <1>6

LEMMA RawImportTouches ==
    ASSUME IInv, NEW i \in Items, NEW target, NEW who, NEW p, RawChange(i, target, who, p)
    PROVE  TouchesOnly(i) /\ UNCHANGED <<now, archived>>
BY DEF RawChange, SetState, SetPlan, TouchesOnly, IInv, TypeOK

LEMMA LeasedImportsAreHolderSteps ==
    ASSUME IInv, NEW i \in Items, NEW l \in DOMAIN leases, NEW kind \in LeaseKinds,
           NEW target \in States, NEW who, NEW p \in Plans,
           RawImportLeased(i, target, who, p, l, kind)
    PROVE  HolderStep(i, l)
<1>1. ProofHolds(i, l, kind) /\ presented' = l /\ RawChange(i, target, who, p)
  BY DEF RawImportLeased
<1>2. TouchesOnly(i) /\ UNCHANGED <<now, archived>>
  BY <1>1, RawImportTouches
<1>3. ClosesLeaseOf(i, l) \/ KeepsTables
  BY RawImportStep
<1> QED BY <1>1, <1>2, <1>3, HoldersWork DEF KeepsTables

-----------------------------------------------------------------------------
(* Commands and imports without a proof leave every held item alone.       *)

LEMMA ExpiryContent ==
    ASSUME IInv, NEW ls \in SUBSET DOMAIN leases, ExpireLeases(ls),
           \A l \in ls : leases[l].end = "open" /\ ~Unexpired(l)
    PROVE  \A j \in Items : HasActive(j) => attempts'[j] = attempts[j]
<1> SUFFICES ASSUME NEW j \in Items, HasActive(j)
             PROVE  attempts'[j] = attempts[j]
  OBVIOUS
<1>1. PICK m \in OpenLeases(j) : Unexpired(m)
  BY DEF HasActive
<1>2. \A l \in ls : leases[l].item # j
  BY <1>1 DEF OpenLeases, IInv, OwnershipConsistent, OneOwner
<1>3. attempts'[j] = [n \in DOMAIN attempts[j] |-> attempts[j][n]]
  BY <1>2 DEF ExpireLeases
<1>4. attempts[j] \in Seq(AttemptStatuses)
  BY DEF IInv, TypeOK
<1> QED BY <1>3, <1>4

LEMMA TendingIsFree ==
    ASSUME IInv, NEW i \in Items, ~HasActive(i), TouchesOnly(i), presented' = NoLease,
           UNCHANGED <<now, archived>>,
           ExpireLeases(OpenLeases(i)) \/ UNCHANGED <<leases, attempts>>
    PROVE  FreeStep
<1>1. archived \in {"no", "document", "workspace"}
  BY DEF IInv, TypeOK
<1>2. CASE UNCHANGED <<leases, attempts>>
  BY <1>1, <1>2 DEF FreeStep, TouchesOnly, Content
<1>3. CASE ExpireLeases(OpenLeases(i))
  <2>1. Expires
    BY <1>3, ExpiryStep
  <2>2. \A j \in Items : HasActive(j) => attempts'[j] = attempts[j]
    BY <1>3, ExpiryContent DEF OpenLeases, HasActive
  <2> QED BY <1>1, <2>1, <2>2 DEF FreeStep, TouchesOnly, Content
<1> QED BY <1>2, <1>3

LEMMA UnfencedAreFree ==
    ASSUME IInv, Unfenced
    PROVE  FreeStep
<1> PICK i \in Items :
      \/ BookkeepExpired(i)
      \/ \E target \in States : TransitionUnleased(i, target)
      \/ \E who \in Actors \cup {Nobody} : Assign(i, who)
      \/ \E p \in Plans : EditPlanUnleased(i, p)
  BY DEF Unfenced
<1>1. /\ presented' = NoLease /\ UNCHANGED <<now, archived>>
      /\ ExpireLeases(OpenLeases(i)) \/ UNCHANGED <<leases, attempts>>
  BY DEF BookkeepExpired, TransitionUnleased, Assign, EditPlanUnleased
<1>2. ~HasActive(i)
  BY DEF BookkeepExpired, TransitionUnleased, Assign, EditPlanUnleased, HasActive
<1>3. TouchesOnly(i)
  BY DEF BookkeepExpired, TransitionUnleased, Assign, EditPlanUnleased, TouchesOnly,
         SetState, SetPlan, IInv, TypeOK
<1> QED BY <1>1, <1>2, <1>3, TendingIsFree

LEMMA FreeImports ==
    ASSUME IInv, NEW i \in Items, NEW target, NEW who, NEW p,
           RawImportUnleased(i, target, who, p)
    PROVE  FreeStep
BY RawImportTouches, TendingIsFree DEF RawImportUnleased

LEMMA ArchivalIsFree ==
    ASSUME IInv, ArchivedHoldsNothing, Archival
    PROVE  FreeStep
<1>1. archived \in {"no", "document", "workspace"}
  BY DEF IInv, TypeOK
<1>2. CASE ArchiveDocument
  <2>1. ActiveLeases = {}
    <3> SUFFICES ASSUME NEW l \in ActiveLeases PROVE FALSE
      OBVIOUS
    <3>1. leases[l].item \in Items
      BY OpenLeaseAttempt DEF ActiveLeases
    <3> QED BY <1>2, <3>1 DEF ArchiveDocument, HasActive, OpenLeases, ActiveLeases
  <2> QED BY <1>2, <2>1 DEF ArchiveDocument, FreeStep, Content
<1>3. CASE RestoreDocument
  BY <1>3 DEF RestoreDocument, FreeStep, Content, ArchivedHoldsNothing
<1>4. CASE ArchiveWorkspace
  <2> DEFINE expired == {l \in DOMAIN leases : leases[l].end = "open" /\ ~Unexpired(l)}
  <2>1. expired \in SUBSET DOMAIN leases /\ \A l \in expired : leases[l].end = "open" /\ ~Unexpired(l)
    OBVIOUS
  <2>2. /\ ExpireLeases(expired) /\ presented' = NoLease
        /\ UNCHANGED <<now, state, assignee, plan>>
        /\ archived' = IF ActiveLeases = {} THEN "workspace" ELSE archived
    BY <1>4 DEF ArchiveWorkspace
  <2> HIDE DEF expired
  <2>3. \A j \in Items : HasActive(j) => attempts'[j] = attempts[j]
    BY <2>1, <2>2, ExpiryContent
  <2>4. Expires
    BY <2>1, <2>2 DEF Expires
  <2> QED BY <1>1, <2>2, <2>3, <2>4 DEF FreeStep, Content
<1> QED BY <1>2, <1>3, <1>4 DEF Archival

-----------------------------------------------------------------------------
(* Every step is one of these.                                             *)

LEMMA NextIsPromiseStep ==
    ASSUME IInv, ArchivedHoldsNothing, [Next]_vars
    PROVE  PromiseStep
<1>1. CASE UNCHANGED vars
  BY <1>1 DEF PromiseStep
<1>2. CASE Tick
  BY <1>2 DEF Tick, LapseStep, PromiseStep
<1>3. CASE Claims
  BY <1>3, ClaimsAreClaimSteps DEF Claims, PromiseStep
<1>4. CASE Fenced
  BY <1>4, FencedAreHolderSteps DEF PromiseStep
<1>5. CASE Unfenced
  BY <1>5, UnfencedAreFree DEF PromiseStep
<1>6. CASE Archival
  BY <1>6, ArchivalIsFree DEF PromiseStep
<1>7. CASE RawImport
  BY <1>7, FreeImports, LeasedImportsAreHolderSteps DEF RawImport, PromiseStep
<1> QED BY <1>1, <1>2, <1>3, <1>4, <1>5, <1>6, <1>7 DEF Next, StructuredNext

LEMMA FreeActive ==
    ASSUME IInv, FreeStep
    PROVE  \A j : ActiveOn(j)' = ActiveOn(j)
<1>1. CASE Expires
  BY <1>1, ExpiresActive
<1>2. CASE UNCHANGED <<leases, now>>
  BY <1>2 DEF ActiveOn, OpenLeases, Unexpired
<1> QED BY <1>1, <1>2 DEF FreeStep

LEMMA LapseActive ==
    ASSUME IInv, LapseStep
    PROVE  \A j : ActiveOn(j)' \subseteq ActiveOn(j)
<1>1. now \in Nat /\ \A l \in DOMAIN leases : leases[l].expires \in Nat
  BY DEF IInv, TypeOK, LeaseRows
<1> QED BY <1>1 DEF LapseStep, ActiveOn, OpenLeases, Unexpired

-----------------------------------------------------------------------------
(* Nothing is held while the document or the workspace is archived.        *)

LEMMA NextArchived ==
    ASSUME IInv, ArchivedHoldsNothing, [Next]_vars
    PROVE  ArchivedHoldsNothing'
<1>1. CASE UNCHANGED vars
  BY <1>1 DEF vars, ArchivedHoldsNothing, ActiveLeases, Unexpired
<1>2. CASE LapseStep
  <2>1. \A l \in ActiveLeases' : l \in ActiveLeases
    BY <1>2, LapseActive DEF ActiveLeases, ActiveOn, OpenLeases, LapseStep
  <2> QED BY <1>2, <2>1 DEF LapseStep, ArchivedHoldsNothing
<1>3. CASE FreeStep
  <2>1. \A l \in ActiveLeases' : \E j : l \in ActiveOn(j)'
    BY DEF ActiveLeases, ActiveOn, OpenLeases
  <2>2. \A l \in ActiveLeases' : l \in ActiveLeases
    BY <1>3, <2>1, FreeActive DEF ActiveLeases, ActiveOn, OpenLeases
  <2> QED BY <1>3, <2>2 DEF FreeStep, ArchivedHoldsNothing
<1>4. ASSUME NEW i \in Items, NEW l \in DOMAIN leases, HolderStep(i, l)
      PROVE  ArchivedHoldsNothing'
  BY <1>4 DEF HolderStep, ArchivedHoldsNothing, ActiveLeases
<1>5. ASSUME NEW i \in Items, NEW l \in LeaseIds, ClaimStep(i, l)
      PROVE  ArchivedHoldsNothing'
  BY <1>5 DEF ClaimStep, ArchivedHoldsNothing
<1> QED BY <1>1, <1>2, <1>3, <1>4, <1>5, NextIsPromiseStep DEF PromiseStep

(* No archive, restore or workspace archive leaves an agent holding work,  *)
(* although archive_document closes no lease.                              *)
THEOREM ArchivedCorrect == Spec => []ArchivedHoldsNothing
<1>1. Init => ArchivedHoldsNothing
  BY DEF Init, ArchivedHoldsNothing
<1>2. IInv /\ ArchivedHoldsNothing /\ [Next]_vars => ArchivedHoldsNothing'
  BY NextArchived
<1> QED BY <1>1, <1>2, Invariance, PTL DEF Spec

-----------------------------------------------------------------------------
(* Fencing, as an action property.                                         *)

LEMMA ContentParts ==
    ASSUME NEW j, Content(j)' = Content(j)
    PROVE  /\ state'[j] = state[j] /\ assignee'[j] = assignee[j]
           /\ plan'[j] = plan[j] /\ attempts'[j] = attempts[j]
BY DEF Content

LEMMA HolderActsStep ==
    ASSUME IInv, ArchivedHoldsNothing, [Next]_vars,
           NEW i \in Items, NEW l \in OpenLeases(i), Unexpired(l), presented' # l
    PROVE  /\ leases'[l] = leases[l] /\ attempts'[i] = attempts[i]
           /\ state'[i] = state[i] /\ assignee'[i] = assignee[i] /\ plan'[i] = plan[i]
<1>1. /\ l \in DOMAIN leases /\ leases[l].item = i /\ leases[l].end = "open"
      /\ l \in ActiveOn(i) /\ HasActive(i)
  BY DEF OpenLeases, ActiveOn, HasActive
<1>2. SUFFICES leases'[l] = leases[l] /\ Content(i)' = Content(i)
  BY ContentParts
<1>3. CASE UNCHANGED vars \/ LapseStep
  BY <1>3 DEF vars, LapseStep, Content
<1>4. CASE FreeStep
  <2>1. leases'[l] = leases[l]
    BY <1>1, <1>4 DEF FreeStep, Expires, ExpireLeases
  <2> QED BY <1>1, <1>4, <2>1 DEF FreeStep
<1>5. ASSUME NEW j \in Items, NEW m \in DOMAIN leases, HolderStep(j, m)
      PROVE  leases'[l] = leases[l] /\ Content(i)' = Content(i)
  <2>1. m # l /\ leases[m].end = "open" /\ leases[m].item = j
    BY <1>5 DEF HolderStep
  <2>2. j # i
    BY <1>1, <2>1 DEF IInv, OwnershipConsistent, OneOwner
  <2>3. leases'[l] = leases[l]
    BY <1>1, <1>5, <2>1 DEF HolderStep, Closes, CloseLease, ReleasesReview, Renews
  <2> QED BY <1>5, <2>2, <2>3 DEF HolderStep
<1>6. ASSUME NEW j \in Items, NEW m \in LeaseIds, ClaimStep(j, m)
      PROVE  leases'[l] = leases[l] /\ Content(i)' = Content(i)
  <2>1. Issues(j, m)
    BY <1>6 DEF ClaimStep
  <2>2. ActiveOn(j) = {}
    BY <2>1, IssuesActive
  <2>3. j # i
    BY <1>1, <2>2
  <2>4. PICK old \in OpenLeases(j) \cup {NoLease} : \E a, kind, n : IssueLease(j, a, kind, n, m, old)
    BY <2>1 DEF Issues
  <2>5. l # old
    BY <1>1, <2>3, ModelAssumption DEF OpenLeases, IInv, TypeOK
  <2>6. leases'[l] = leases[l]
    BY <1>1, <2>4, <2>5 DEF IssueLease
  <2> QED BY <1>6, <2>3, <2>6 DEF ClaimStep
<1> QED BY <1>3, <1>4, <1>5, <1>6, NextIsPromiseStep DEF PromiseStep

(* Work under an active lease, its lease row, attempts, state, assignee and*)
(* plan, is touched only by a command that presents that very lease.       *)
THEOREM OnlyTheHolder == Spec => OnlyTheHolderActs
<1>1. IInv /\ ArchivedHoldsNothing /\ [Next]_vars =>
        [\A i \in Items : \A l \in OpenLeases(i) :
            Unexpired(l) /\ ( \/ leases'[l] # leases[l]
                              \/ attempts'[i] # attempts[i]
                              \/ state'[i] # state[i]
                              \/ assignee'[i] # assignee[i]
                              \/ plan'[i] # plan[i] )
            => presented' = l]_vars
  BY HolderActsStep
<1> QED BY <1>1, Invariance, ArchivedCorrect, PTL DEF Spec, OnlyTheHolderActs

-----------------------------------------------------------------------------
(* The refinement: every step is one the promise allows, or a stutter.     *)

LEMMA LeaseOfHeld ==
    ASSUME IInv, NEW i \in Items, HolderOf(i) # NoLease
    PROVE  HolderOf(i) \in ActiveOn(i)
<1>1. ActiveOn(i) # {}
  BY HolderNone
<1> QED BY <1>1, HolderActive

(* Items held are no more than leases active.                              *)
LEMMA HeldWithinLimit ==
    ASSUME IInv, CapacityLeft
    PROVE  Cardinality(Fencing!Held) < ConcurrencyLimit
<1> DEFINE H == Fencing!Held
           h == [i \in H |-> HolderOf(i)]
<1>1. H = {i \in Items : HolderOf(i) # NoLease}
  BY DEF Fencing!Held
<1>2. \A i \in H : HolderOf(i) \in ActiveOn(i)
  BY <1>1, LeaseOfHeld
<1>3. h \in [H -> ActiveLeases]
  BY <1>2 DEF ActiveOn, OpenLeases, ActiveLeases
<1>4. \A i, j \in H : h[i] = h[j] => i = j
  BY <1>2 DEF ActiveOn, OpenLeases
<1>5. h \in Injection(H, ActiveLeases)
  BY <1>3, <1>4 DEF Injection, IsInjective
<1>6. IsFiniteSet(ActiveLeases)
  <2>1. ActiveLeases \in SUBSET LeaseIds
    BY DEF ActiveLeases, IInv, TypeOK
  <2> QED BY <2>1, ModelAssumption, FS_Subset
<1> HIDE DEF h, H
<1>7. IsFiniteSet(H) /\ Cardinality(H) <= Cardinality(ActiveLeases)
  BY <1>5, <1>6, FS_Injection
<1>8. Cardinality(H) \in Nat /\ Cardinality(ActiveLeases) \in Nat
  BY <1>6, <1>7, FS_CardinalityType
<1> QED BY <1>7, <1>8, PolicyAssumption DEF CapacityLeft, ValidPolicy, H

LEMMA HolderStepIsWork ==
    ASSUME IInv, IInv', ArchivedHoldsNothing,
           NEW i \in Items, NEW l \in DOMAIN leases, HolderStep(i, l)
    PROVE  Fencing!Work(i)
<1>1. l \in ActiveOn(i) /\ archived = "no"
  BY DEF HolderStep, ActiveOn, OpenLeases, ArchivedHoldsNothing, ActiveLeases
<1>2. HolderOf(i) = l /\ l # NoLease
  BY <1>1, HolderActive
<1>3. \A j \in Items \ {i} : HolderOf(j)' = HolderOf(j)
  <2>1. CASE UNCHANGED <<leases, now>>
    BY <2>1 DEF HolderOf, HasActive, OpenLeases, Unexpired
  <2>2. CASE Closes(l) \/ ReleasesReview(l)
    BY <2>2, ClosesActive, HolderFollows DEF HolderStep
  <2>3. CASE Renews(l)
    BY <2>3, RenewsActive, HolderFollows DEF HolderStep
  <2> QED BY <2>1, <2>2, <2>3 DEF HolderStep
<1>4. HolderOf(i)' \in {HolderOf(i), NoLease}
  <2>1. CASE UNCHANGED <<leases, now>>
    BY <2>1 DEF HolderOf, HasActive, OpenLeases, Unexpired
  <2>2. CASE Closes(l) \/ ReleasesReview(l)
    BY <2>2, ClosesActive, HolderNoneNext DEF HolderStep
  <2>3. CASE Renews(l)
    BY <2>3, RenewsActive, HolderFollows DEF HolderStep
  <2> QED BY <2>1, <2>2, <2>3 DEF HolderStep
<1>5. DOMAIN leases' = DOMAIN leases
  BY DEF HolderStep, Closes, CloseLease, ReleasesReview, Renews
<1>6. [j \in Items |-> HolderOf(j)]' \in
         {[j \in Items |-> HolderOf(j)], [[j \in Items |-> HolderOf(j)] EXCEPT ![i] = NoLease]}
  BY <1>3, <1>4
<1>7. Fencing!OnlyTouches(i)
  BY DEF HolderStep, Fencing!OnlyTouches, Content
<1> QED BY <1>1, <1>2, <1>5, <1>6, <1>7 DEF Fencing!Work, HolderStep

LEMMA ClaimStepIsAcquire ==
    ASSUME IInv, IInv', NEW i \in Items, NEW l \in LeaseIds, ClaimStep(i, l)
    PROVE  Fencing!Acquire(i, l)
<1>1. Issues(i, l) /\ CapacityLeft
  BY DEF ClaimStep, Issues
<1>2. /\ ActiveOn(i) = {} /\ ActiveOn(i)' = {l}
      /\ l \notin DOMAIN leases /\ DOMAIN leases' = DOMAIN leases \cup {l}
      /\ \A j : j # i => ActiveOn(j)' = ActiveOn(j)
  BY <1>1, IssuesActive
<1>3. HolderOf(i) = NoLease /\ HolderOf(i)' = l
  BY <1>2, HolderNone, HolderActiveNext
<1>4. \A j \in Items \ {i} : HolderOf(j)' = HolderOf(j)
  BY <1>2, HolderFollows
<1>5. [j \in Items |-> HolderOf(j)]' = [[j \in Items |-> HolderOf(j)] EXCEPT ![i] = l]
  BY <1>3, <1>4
<1>6. Fencing!Cardinality(Fencing!Held) < ConcurrencyLimit
  <2>1. Fencing!Cardinality(Fencing!Held) = Cardinality(Fencing!Held)
    BY DEF Fencing!Cardinality, Cardinality
  <2> QED BY <1>1, <2>1, HeldWithinLimit
<1>7. Fencing!OnlyTouches(i)
  BY DEF ClaimStep, Fencing!OnlyTouches, Content
<1>8. (archived # "no")' = (archived # "no") /\ ~(archived # "no") /\ presented' = NoLease
  BY DEF ClaimStep
<1>9. [j \in Items |-> HolderOf(j)][i] = NoLease
  BY <1>3
<1> QED BY <1>2, <1>5, <1>6, <1>7, <1>8, <1>9 DEF Fencing!Acquire

LEMMA LapseStepIsLapse ==
    ASSUME IInv, IInv', LapseStep
    PROVE  Fencing!Lapse
<1>1. \A j \in Items : HolderOf(j)' \in {HolderOf(j), NoLease}
  <2> TAKE j \in Items
  <2>1. CASE ActiveOn(j)' = {}
    BY <2>1, HolderNoneNext
  <2>2. ASSUME NEW l, l \in ActiveOn(j)'
        PROVE  HolderOf(j)' = HolderOf(j)
    BY <2>2, LapseActive, HolderActive, HolderActiveNext
  <2> QED BY <2>1, <2>2
<1> QED BY <1>1 DEF Fencing!Lapse, LapseStep

LEMMA FreeStepIsTendOrFreeze ==
    ASSUME IInv, IInv', ArchivedHoldsNothing, FreeStep
    PROVE  Fencing!Tend \/ Fencing!Freeze
<1>1. \A j \in Items : HolderOf(j)' = HolderOf(j)
  BY FreeActive, HolderFollows
<1>2. [j \in Items |-> HolderOf(j)]' = [j \in Items |-> HolderOf(j)]
  BY <1>1
<1>3. DOMAIN leases' = DOMAIN leases
  BY DEF FreeStep, Expires, ExpireLeases
<1>4. Fencing!Held = {i \in Items : HolderOf(i) # NoLease}
  BY DEF Fencing!Held
<1>5. CASE archived' = archived
  <2>1. \A i \in Fencing!Held : Content(i)' = Content(i)
    BY <1>4, LeaseOfHeld DEF FreeStep, ActiveOn, HasActive
  <2>2. \A i \in Fencing!Held :
           [j \in Items |-> Content(j)]'[i] = [j \in Items |-> Content(j)][i]
    BY <1>4, <2>1
  <2> QED BY <1>2, <1>3, <1>5, <2>2 DEF Fencing!Tend, FreeStep, Content
<1>6. CASE archived' # archived
  <2>1. Fencing!Held = {}
    BY <1>4, <1>6, LeaseOfHeld DEF FreeStep, ActiveOn, OpenLeases, ActiveLeases
  <2> QED BY <1>2, <1>3, <2>1 DEF Fencing!Freeze, FreeStep
<1> QED BY <1>5, <1>6

LEMMA NextRefines ==
    ASSUME IInv, IInv', ArchivedHoldsNothing, [Next]_vars
    PROVE  [Fencing!Next]_(Fencing!vars)
<1>1. CASE UNCHANGED vars
  BY <1>1 DEF vars, Fencing!vars, HolderOf, HasActive, OpenLeases, Unexpired
<1>2. CASE LapseStep
  BY <1>2, LapseStepIsLapse DEF Fencing!Next
<1>3. CASE FreeStep
  BY <1>3, FreeStepIsTendOrFreeze DEF Fencing!Next
<1>4. ASSUME NEW i \in Items, NEW l \in DOMAIN leases, HolderStep(i, l)
      PROVE  Fencing!Next
  BY <1>4, HolderStepIsWork DEF Fencing!Next
<1>5. ASSUME NEW i \in Items, NEW l \in LeaseIds, ClaimStep(i, l)
      PROVE  Fencing!Next
  BY <1>5, ClaimStepIsAcquire DEF Fencing!Next
<1> QED BY <1>1, <1>2, <1>3, <1>4, <1>5, NextIsPromiseStep DEF PromiseStep

LEMMA InitRefines ==
    ASSUME Init
    PROVE  Fencing!Init
<1>1. DOMAIN leases = {} /\ archived = "no" /\ presented = NoLease
  BY DEF Init
<1>2. \A i \in Items : HolderOf(i) = NoLease
  BY <1>1 DEF HolderOf, HasActive, OpenLeases
<1> QED BY <1>1, <1>2 DEF Fencing!Init

(* The lease machinery keeps the fencing promise: for every policy, any    *)
(* number of items, agents, leases and any bound on the clock, each        *)
(* behaviour of OrgLeases is one of FencedWork.                            *)
THEOREM Refinement == Spec => ImplementsFencedWork
<1>1. Init => Fencing!Init
  BY InitRefines
<1>2. IInv /\ IInv' /\ ArchivedHoldsNothing /\ [Next]_vars => [Fencing!Next]_(Fencing!vars)
  BY NextRefines
<1> QED
  BY <1>1, <1>2, Invariance, ArchivedCorrect, PTL DEF Spec, ImplementsFencedWork, Fencing!Spec
=============================================================================
