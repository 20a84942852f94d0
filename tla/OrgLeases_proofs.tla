-------------------------- MODULE OrgLeases_proofs --------------------------
(* Theorems about OrgLeases, for every policy that validate_policy accepts *)
(* and any items, actors, lease ids, plans and clock bound.                *)
EXTENDS OrgLeases, TLAPS, FiniteSetTheorems

-----------------------------------------------------------------------------
(* What the writes of a transaction make of the tables.                    *)

(* What an attempt may become when its lease is closed.                    *)
Verdicts == {"submitted", "completed", "failed", "cancelled"}

LeasesOK == DOMAIN leases \subseteq LeaseIds /\ leases \in [DOMAIN leases -> LeaseRows]
AttemptsOK == attempts \in [Items -> Seq(AttemptStatuses)]

(* Which statuses of an attempt go with an end reason.                     *)
LEMMA Stories ==
    ASSUME NEW kind
    PROVE  /\ "completed" \in OutcomesOf(kind, "completion")
           /\ "completed" \in OutcomesOf(kind, "approval")
           /\ "failed" \in OutcomesOf(kind, "rejection")
           /\ "failed" \in OutcomesOf(kind, "failure")
           /\ "cancelled" \in OutcomesOf(kind, "reassignment")
           /\ "cancelled" \in OutcomesOf(kind, "cancellation")
           /\ "cancelled" \in OutcomesOf(kind, "block")
           /\ "cancelled" \in OutcomesOf(kind, "release")
           /\ OutcomesOf(kind, "review_request") = Verdicts
           /\ kind # "execution" => OutcomesOf(kind, "release") = Verdicts
           /\ kind # "execution" => OutcomesOf(kind, "lease_expiry") = Verdicts
           /\ kind = "execution" => OutcomesOf(kind, "lease_expiry") = {"expired"}
BY DEF OutcomesOf, AttemptStatuses, Verdicts

(* A closing lifecycle is an end reason and decides an attempt status.     *)
LEMMA LifecycleType ==
    ASSUME NEW from, NEW to, ClosesLease(Lifecycle(from, to))
    PROVE  /\ Lifecycle(from, to) \in EndReasons
           /\ AttemptAfter(Lifecycle(from, to)) \in Verdicts
           /\ \A kind : AttemptAfter(Lifecycle(from, to))
                           \in OutcomesOf(kind, Lifecycle(from, to))
<1> DEFINE c == Lifecycle(from, to)
<1>1. c \in {"approval", "rejection", "cancellation", "review_request", "failure",
             "block", "unblock", "completion", "transition"}
  BY DEF Lifecycle
<1>2. c \in {"approval", "rejection", "cancellation", "review_request", "failure",
             "block", "completion"}
  BY <1>1 DEF ClosesLease
<1> HIDE DEF c
<1>3. AttemptAfter(c) \in Verdicts
  BY <1>2 DEF AttemptAfter, Verdicts
<1>4. ASSUME NEW kind PROVE AttemptAfter(c) \in OutcomesOf(kind, c)
  <2>1. CASE c \in {"approval", "completion"}
    BY <2>1, Stories DEF AttemptAfter
  <2>2. CASE c \in {"rejection", "failure"}
    BY <2>2, Stories DEF AttemptAfter
  <2>3. CASE c \in {"cancellation", "block"}
    BY <2>3, Stories DEF AttemptAfter
  <2>4. CASE c = "review_request"
    BY <2>4, Stories DEF AttemptAfter, Verdicts
  <2> QED BY <1>2, <2>1, <2>2, <2>3, <2>4
<1> QED
  BY <1>2, <1>3, <1>4 DEF EndReasons, c

LEMMA CloseLeaseType ==
    ASSUME LeasesOK, AttemptsOK, NEW l \in DOMAIN leases, NEW reason \in EndReasons,
           NEW expected, NEW status \in AttemptStatuses,
           CloseLease(l, reason, expected, status)
    PROVE  LeasesOK' /\ AttemptsOK'
<1> DEFINE row == leases[l]
<1>1. row \in LeaseRows /\ row.item \in Items /\ row.attempt \in Nat \ {0}
  BY DEF LeasesOK, LeaseRows
<1>2. [row EXCEPT !.end = reason] \in LeaseRows
  BY <1>1 DEF LeaseRows
<1>3. LeasesOK'
  BY <1>2 DEF CloseLease, LeasesOK
<1>4. [attempts[row.item] EXCEPT ![row.attempt] = status] \in Seq(AttemptStatuses)
  BY <1>1 DEF AttemptsOK, CloseLease
<1>5. AttemptsOK'
  BY <1>1, <1>4 DEF CloseLease, AttemptsOK
<1> QED BY <1>3, <1>5

LEMMA ExpireLeasesType ==
    ASSUME LeasesOK, AttemptsOK, NEW ls, ExpireLeases(ls)
    PROVE  LeasesOK' /\ AttemptsOK'
<1>1. LeasesOK'
  <2>1. \A l \in DOMAIN leases : [leases[l] EXCEPT !.end = "lease_expiry"] \in LeaseRows
    BY DEF LeasesOK, LeaseRows, EndReasons
  <2> QED BY <2>1 DEF ExpireLeases, LeasesOK
<1>2. AttemptsOK'
  <2> DEFINE gone(i, n) == \E l \in ls : /\ leases[l].kind = "execution"
                                         /\ leases[l].item = i
                                         /\ leases[l].attempt = n
  <2>1. attempts' = [i \in Items |-> [n \in DOMAIN attempts[i] |->
                        IF gone(i, n) THEN "expired" ELSE attempts[i][n]]]
    BY DEF ExpireLeases
  <2> HIDE DEF gone
  <2>2. ASSUME NEW i \in Items
        PROVE  [n \in DOMAIN attempts[i] |->
                  IF gone(i, n) THEN "expired" ELSE attempts[i][n]] \in Seq(AttemptStatuses)
    <3>1. attempts[i] \in Seq(AttemptStatuses)
      BY DEF AttemptsOK
    <3>2. Len(attempts[i]) \in Nat /\ DOMAIN attempts[i] = 1 .. Len(attempts[i])
      BY <3>1
    <3>3. \A n \in 1 .. Len(attempts[i]) :
             (IF gone(i, n) THEN "expired" ELSE attempts[i][n]) \in AttemptStatuses
      BY <3>1 DEF AttemptStatuses
    <3> QED BY <3>2, <3>3
  <2> QED BY <2>1, <2>2 DEF AttemptsOK
<1> QED BY <1>1, <1>2

LEMMA IssueLeaseType ==
    ASSUME LeasesOK, now \in Nat, NEW i \in Items, NEW a \in Actors, NEW kind \in LeaseKinds,
           NEW n \in Nat \ {0}, NEW l, NEW old, IssueLease(i, a, kind, n, l, old)
    PROVE  LeasesOK'
<1>1. now + LeaseDuration \in Nat
  BY PolicyAssumption DEF ValidPolicy
<1>2. [item |-> i, attempt |-> n, kind |-> kind, actor |-> a,
       expires |-> now + LeaseDuration, end |-> "open"] \in LeaseRows
  BY <1>1 DEF LeaseRows
<1>3. \A k \in DOMAIN leases : [leases[k] EXCEPT !.end = "lease_expiry"] \in LeaseRows
  BY DEF LeasesOK, LeaseRows, EndReasons
<1> QED BY <1>2, <1>3 DEF IssueLease, LeasesOK

LEMMA AppendType ==
    ASSUME AttemptsOK, NEW i \in Items, NEW s \in Seq(AttemptStatuses),
           attempts' = [attempts EXCEPT ![i] = Append(s, "running")]
    PROVE  AttemptsOK'
<1>1. Append(s, "running") \in Seq(AttemptStatuses)
  BY DEF AttemptStatuses
<1> QED BY <1>1 DEF AttemptsOK

-----------------------------------------------------------------------------
(* The inductive invariant of this module.  Ownership needs the types, and *)
(* the types need nothing more; they are proved together.                  *)
IInv == TypeOK /\ OwnershipConsistent

(* The attempt behind an open lease is the last one of its item.           *)
LEMMA OpenLeaseAttempt ==
    ASSUME IInv, NEW l \in DOMAIN leases, leases[l].end = "open"
    PROVE  /\ leases[l].item \in Items
           /\ leases[l].attempt \in Nat \ {0}
           /\ leases[l].attempt = Len(attempts[leases[l].item])
           /\ leases[l].attempt \in DOMAIN attempts[leases[l].item]
           /\ leases[l].kind \in LeaseKinds
           /\ attempts[leases[l].item] \in Seq(AttemptStatuses)
           /\ attempts[leases[l].item][leases[l].attempt] =
                 IF leases[l].kind = "execution" THEN "running" ELSE "submitted"
<1>1. leases[l] \in LeaseRows
  BY DEF IInv, TypeOK
<1>2. leases[l].item \in Items /\ leases[l].attempt \in Nat \ {0} /\ leases[l].kind \in LeaseKinds
  BY <1>1 DEF LeaseRows
<1>3. attempts[leases[l].item] \in Seq(AttemptStatuses)
  BY <1>2 DEF IInv, TypeOK
<1>4. leases[l].attempt = Len(attempts[leases[l].item])
  BY DEF IInv, OwnershipConsistent, LeaseMatchesAttempt
<1>5. attempts[leases[l].item][leases[l].attempt] =
          IF leases[l].kind = "execution" THEN "running" ELSE "submitted"
  BY DEF IInv, OwnershipConsistent, LeaseMatchesAttempt
<1> QED BY <1>2, <1>3, <1>4, <1>5

(* What one step does to the lease and attempt tables.                     *)
KeepsTables == UNCHANGED <<leases, attempts>> /\ now' \in {now, now + 1}

Closes(l) ==
    /\ presented' = l /\ now' = now
    /\ \E reason \in EndReasons, expected \in AttemptStatuses,
          status \in Verdicts :
             /\ status \in OutcomesOf(leases[l].kind, reason)
             /\ CloseLease(l, reason, expected, status)

ReleasesReview(l) ==
    /\ presented' = l /\ now' = now
    /\ leases[l].kind = "review"
    /\ leases' = [leases EXCEPT ![l].end = "release"]
    /\ attempts' = attempts

Renews(l) ==
    /\ presented' = l /\ now' = now
    /\ leases' = [leases EXCEPT ![l].expires = now + LeaseDuration]
    /\ attempts' = attempts

Expires ==
    /\ now' = now
    /\ \E ls \in SUBSET DOMAIN leases :
          /\ \A l \in ls : leases[l].end = "open" /\ ~Unexpired(l)
          /\ ExpireLeases(ls)

Starts(i, a, l) ==
    /\ now' = now
    /\ OpenLeases(i) = {} /\ BudgetLeft(i)
    /\ LastStatus(i) \in Terminal \cup {"none"}
    /\ IssueLease(i, a, "execution", Len(attempts[i]) + 1, l, NoLease)
    /\ attempts' = [attempts EXCEPT ![i] = Append(@, "running")]

Restarts(i, a, l) ==
    /\ now' = now /\ BudgetLeft(i)
    /\ \E old \in ExpiredOpen(i, "execution") :
          /\ IssueLease(i, a, "execution", Len(attempts[i]) + 1, l, old)
          /\ attempts' = [attempts EXCEPT ![i] =
                Append([@ EXCEPT ![leases[old].attempt] = "expired"], "running")]

Reviews(i, a, l) ==
    /\ now' = now
    /\ LastStatus(i) = "submitted"
    /\ \E old \in ExpiredOpen(i, "review") \cup {NoLease} :
          /\ OpenLeases(i) \subseteq {old}
          /\ IssueLease(i, a, "review", Len(attempts[i]), l, old)
    /\ attempts' = attempts

TableStep ==
    \/ KeepsTables
    \/ \E i \in Items, l \in DOMAIN leases :
          /\ leases[l].end = "open" /\ leases[l].item = i /\ Unexpired(l)
          /\ Closes(l) \/ ReleasesReview(l) \/ Renews(l)
    \/ Expires
    \/ \E i \in Items, a \in Actors, l \in LeaseIds \ DOMAIN leases :
          Starts(i, a, l) \/ Restarts(i, a, l) \/ Reviews(i, a, l)

-----------------------------------------------------------------------------
(* Each kind of table step keeps the tables typed and ownership consistent.*)

Tables == LeasesOK /\ AttemptsOK /\ OwnershipConsistent

LEMMA ClosesKeeps ==
    ASSUME IInv, NEW l \in DOMAIN leases, leases[l].end = "open", Closes(l)
    PROVE  Tables'
<1> DEFINE i == leases[l].item
           n == leases[l].attempt
<1>1. PICK reason \in EndReasons, expected \in AttemptStatuses,
           status \in Verdicts :
          CloseLease(l, reason, expected, status)
  BY DEF Closes
<1>2. /\ i \in Items /\ n = Len(attempts[i]) /\ n \in DOMAIN attempts[i]
      /\ attempts[i] \in Seq(AttemptStatuses)
  BY OpenLeaseAttempt
<1>3. LeasesOK /\ AttemptsOK
  BY DEF IInv, TypeOK, LeasesOK, AttemptsOK
<1>4. LeasesOK' /\ AttemptsOK'
  BY <1>1, <1>3, CloseLeaseType DEF Verdicts, AttemptStatuses
<1>5. /\ DOMAIN leases' = DOMAIN leases
      /\ \A m \in DOMAIN leases :
            /\ leases'[m].item = leases[m].item
            /\ leases'[m].kind = leases[m].kind
            /\ leases'[m].attempt = leases[m].attempt
            /\ leases'[m].end = IF m = l THEN reason ELSE leases[m].end
  BY <1>1, <1>3 DEF CloseLease, LeasesOK, LeaseRows
<1>6. reason # "open"
  BY DEF EndReasons
<1>7. \A j \in Items :
          /\ Len(attempts'[j]) = Len(attempts[j])
          /\ DOMAIN attempts'[j] = DOMAIN attempts[j]
          /\ \A k \in DOMAIN attempts[j] :
                attempts'[j][k] = IF j = i /\ k = n THEN status ELSE attempts[j][k]
  BY <1>1, <1>2, <1>3 DEF CloseLease, AttemptsOK
<1>8. OneOwner'
  BY <1>5, <1>6 DEF IInv, OwnershipConsistent, OneOwner
<1>9. LeaseMatchesAttempt'
  <2> SUFFICES ASSUME NEW m \in DOMAIN leases', leases'[m].end = "open"
               PROVE  /\ leases'[m].attempt = Len(attempts'[leases'[m].item])
                      /\ attempts'[leases'[m].item][leases'[m].attempt] =
                           IF leases'[m].kind = "execution" THEN "running" ELSE "submitted"
    BY DEF LeaseMatchesAttempt
  <2>1. m \in DOMAIN leases /\ m # l /\ leases[m].end = "open"
    BY <1>5, <1>6
  <2>2. leases[m].item # i
    BY <2>1 DEF IInv, OwnershipConsistent, OneOwner
  <2> QED BY <1>5, <1>7, <2>1, <2>2, OpenLeaseAttempt
<1>10. LiveAttemptsAreOwned'
  <2> SUFFICES ASSUME NEW j \in Items, NEW k \in DOMAIN attempts'[j]
               PROVE  /\ k < Len(attempts'[j]) => attempts'[j][k] \in Terminal
                      /\ attempts'[j][k] = "running" =>
                           \E m \in OpenLeases(j)' : leases'[m].kind = "execution"
    BY DEF LiveAttemptsAreOwned
  <2>1. k \in DOMAIN attempts[j] /\ (k < Len(attempts[j]) => attempts[j][k] \in Terminal)
    BY <1>7 DEF IInv, OwnershipConsistent, LiveAttemptsAreOwned
  <2>2. k < Len(attempts'[j]) => attempts'[j][k] \in Terminal
    BY <1>2, <1>7, <2>1
  <2>3. ASSUME attempts'[j][k] = "running"
        PROVE  \E m \in OpenLeases(j)' : leases'[m].kind = "execution"
    <3>1. attempts[j][k] = "running" /\ ~(j = i /\ k = n)
      BY <1>7, <2>1, <2>3 DEF Verdicts
    <3>2. PICK m \in OpenLeases(j) : leases[m].kind = "execution"
      BY <2>1, <3>1 DEF IInv, OwnershipConsistent, LiveAttemptsAreOwned
    <3>3. k = Len(attempts[j])
      <4>1. k \in 1 .. Len(attempts[j]) /\ Len(attempts[j]) \in Nat
        BY <1>3, <2>1 DEF AttemptsOK
      <4>2. attempts[j][k] \notin Terminal
        BY <3>1 DEF Terminal
      <4> QED BY <2>1, <4>1, <4>2
    <3>4. m # l
      BY <1>2, <3>1, <3>2, <3>3 DEF OpenLeases
    <3> QED BY <1>5, <3>2, <3>4 DEF OpenLeases
  <2> QED BY <2>2, <2>3
<1> QED BY <1>4, <1>8, <1>9, <1>10 DEF Tables, OwnershipConsistent

LEMMA ReleasesReviewKeeps ==
    ASSUME IInv, NEW l \in DOMAIN leases, leases[l].end = "open", ReleasesReview(l)
    PROVE  Tables'
<1>1. LeasesOK /\ AttemptsOK
  BY DEF IInv, TypeOK, LeasesOK, AttemptsOK
<1>2. [leases[l] EXCEPT !.end = "release"] \in LeaseRows
  BY <1>1 DEF LeasesOK, LeaseRows, EndReasons
<1>3. LeasesOK' /\ AttemptsOK'
  BY <1>1, <1>2 DEF ReleasesReview, LeasesOK, AttemptsOK
<1>4. /\ DOMAIN leases' = DOMAIN leases
      /\ \A m \in DOMAIN leases :
            /\ leases'[m].item = leases[m].item
            /\ leases'[m].kind = leases[m].kind
            /\ leases'[m].attempt = leases[m].attempt
            /\ leases'[m].end = IF m = l THEN "release" ELSE leases[m].end
  BY <1>1 DEF ReleasesReview, LeasesOK, LeaseRows
<1>5. attempts' = attempts
  BY DEF ReleasesReview
<1>6. OneOwner'
  BY <1>4 DEF IInv, OwnershipConsistent, OneOwner
<1>7. LeaseMatchesAttempt'
  BY <1>4, <1>5 DEF IInv, OwnershipConsistent, LeaseMatchesAttempt
<1>8. LiveAttemptsAreOwned'
  <2> SUFFICES ASSUME NEW j \in Items, NEW k \in DOMAIN attempts[j]
               PROVE  /\ k < Len(attempts[j]) => attempts[j][k] \in Terminal
                      /\ attempts[j][k] = "running" =>
                           \E m \in OpenLeases(j)' : leases'[m].kind = "execution"
    BY <1>5 DEF LiveAttemptsAreOwned
  <2>1. attempts[j][k] = "running" =>
           \E m \in OpenLeases(j) : leases[m].kind = "execution"
    BY DEF IInv, OwnershipConsistent, LiveAttemptsAreOwned
  <2>2. \A m \in OpenLeases(j) : leases[m].kind = "execution" =>
           m \in OpenLeases(j)' /\ leases'[m].kind = "execution"
    BY <1>4 DEF OpenLeases, ReleasesReview
  <2> QED BY <2>1, <2>2 DEF IInv, OwnershipConsistent, LiveAttemptsAreOwned
<1> QED BY <1>3, <1>6, <1>7, <1>8 DEF Tables, OwnershipConsistent

LEMMA RenewsKeeps ==
    ASSUME IInv, NEW l \in DOMAIN leases, leases[l].end = "open", Renews(l)
    PROVE  Tables'
<1>1. LeasesOK /\ AttemptsOK
  BY DEF IInv, TypeOK, LeasesOK, AttemptsOK
<1>2. now + LeaseDuration \in Nat
  BY PolicyAssumption DEF ValidPolicy, IInv, TypeOK
<1>3. [leases[l] EXCEPT !.expires = now + LeaseDuration] \in LeaseRows
  BY <1>1, <1>2 DEF LeasesOK, LeaseRows
<1>4. LeasesOK' /\ AttemptsOK'
  BY <1>1, <1>3 DEF Renews, LeasesOK, AttemptsOK
<1>5. /\ DOMAIN leases' = DOMAIN leases
      /\ \A m \in DOMAIN leases :
            /\ leases'[m].item = leases[m].item
            /\ leases'[m].kind = leases[m].kind
            /\ leases'[m].attempt = leases[m].attempt
            /\ leases'[m].end = leases[m].end
  BY <1>1 DEF Renews, LeasesOK, LeaseRows
<1>6. attempts' = attempts
  BY DEF Renews
<1>7. OneOwner' /\ LeaseMatchesAttempt'
  BY <1>5, <1>6 DEF IInv, OwnershipConsistent, OneOwner, LeaseMatchesAttempt
<1>8. \A j : OpenLeases(j)' = OpenLeases(j)
  BY <1>5 DEF OpenLeases
<1>9. LiveAttemptsAreOwned'
  BY <1>5, <1>6, <1>8 DEF IInv, OwnershipConsistent, LiveAttemptsAreOwned, OpenLeases
<1> QED BY <1>4, <1>7, <1>9 DEF Tables, OwnershipConsistent

LEMMA ExpiresKeeps ==
    ASSUME IInv, Expires
    PROVE  Tables'
<1>1. PICK ls \in SUBSET DOMAIN leases :
          /\ \A l \in ls : leases[l].end = "open" /\ ~Unexpired(l)
          /\ ExpireLeases(ls)
  BY DEF Expires
<1>2. LeasesOK /\ AttemptsOK
  BY DEF IInv, TypeOK, LeasesOK, AttemptsOK
<1>3. LeasesOK' /\ AttemptsOK'
  BY <1>1, <1>2, ExpireLeasesType
<1>4. /\ DOMAIN leases' = DOMAIN leases
      /\ \A m \in DOMAIN leases :
            /\ leases'[m].item = leases[m].item
            /\ leases'[m].kind = leases[m].kind
            /\ leases'[m].attempt = leases[m].attempt
            /\ leases'[m].end = IF m \in ls THEN "lease_expiry" ELSE leases[m].end
  BY <1>1, <1>2 DEF ExpireLeases, LeasesOK, LeaseRows
<1> DEFINE gone(j, k) == \E l \in ls : /\ leases[l].kind = "execution"
                                       /\ leases[l].item = j
                                       /\ leases[l].attempt = k
<1>5. \A j \in Items :
          /\ DOMAIN attempts'[j] = DOMAIN attempts[j]
          /\ \A k \in DOMAIN attempts[j] :
                attempts'[j][k] = IF gone(j, k) THEN "expired" ELSE attempts[j][k]
  <2>1. attempts' = [i \in Items |-> [n \in DOMAIN attempts[i] |->
                        IF gone(i, n) THEN "expired" ELSE attempts[i][n]]]
    BY <1>1 DEF ExpireLeases
  <2> HIDE DEF gone
  <2> QED BY <2>1
<1>6. \A j \in Items : Len(attempts'[j]) = Len(attempts[j])
  BY <1>2, <1>3, <1>5 DEF AttemptsOK
<1>7. OneOwner'
  BY <1>4 DEF IInv, OwnershipConsistent, OneOwner
<1>8. LeaseMatchesAttempt'
  <2> SUFFICES ASSUME NEW m \in DOMAIN leases', leases'[m].end = "open"
               PROVE  /\ leases'[m].attempt = Len(attempts'[leases'[m].item])
                      /\ attempts'[leases'[m].item][leases'[m].attempt] =
                           IF leases'[m].kind = "execution" THEN "running" ELSE "submitted"
    BY DEF LeaseMatchesAttempt
  <2>1. m \in DOMAIN leases /\ m \notin ls /\ leases[m].end = "open"
    BY <1>4
  <2>2. \A l \in ls : leases[l].item # leases[m].item
    BY <1>1, <2>1 DEF IInv, OwnershipConsistent, OneOwner
  <2>3. ~gone(leases[m].item, leases[m].attempt)
    BY <2>2
  <2> HIDE DEF gone
  <2> QED BY <1>4, <1>5, <1>6, <2>1, <2>3, OpenLeaseAttempt
<1>9. LiveAttemptsAreOwned'
  <2> SUFFICES ASSUME NEW j \in Items, NEW k \in DOMAIN attempts'[j]
               PROVE  /\ k < Len(attempts'[j]) => attempts'[j][k] \in Terminal
                      /\ attempts'[j][k] = "running" =>
                           \E m \in OpenLeases(j)' : leases'[m].kind = "execution"
    BY DEF LiveAttemptsAreOwned
  <2>1. /\ k \in DOMAIN attempts[j]
        /\ attempts'[j][k] = IF gone(j, k) THEN "expired" ELSE attempts[j][k]
        /\ k < Len(attempts[j]) => attempts[j][k] \in Terminal
    BY <1>5 DEF IInv, OwnershipConsistent, LiveAttemptsAreOwned
  <2>2. k < Len(attempts'[j]) => attempts'[j][k] \in Terminal
    BY <1>6, <2>1 DEF Terminal, AttemptStatuses
  <2>3. ASSUME attempts'[j][k] = "running"
        PROVE  \E m \in OpenLeases(j)' : leases'[m].kind = "execution"
    <3>1. attempts[j][k] = "running" /\ ~gone(j, k)
      BY <2>1, <2>3
    <3>2. PICK m \in OpenLeases(j) : leases[m].kind = "execution"
      BY <2>1, <3>1 DEF IInv, OwnershipConsistent, LiveAttemptsAreOwned
    <3>3. k = Len(attempts[j])
      <4>1. k \in 1 .. Len(attempts[j]) /\ Len(attempts[j]) \in Nat
        BY <1>2, <2>1 DEF AttemptsOK
      <4>2. attempts[j][k] \notin Terminal
        BY <3>1 DEF Terminal
      <4> QED BY <2>1, <4>1, <4>2
    <3>4. leases[m].attempt = k /\ leases[m].item = j
      BY <3>2, <3>3, OpenLeaseAttempt DEF OpenLeases
    <3>5. m \notin ls
      BY <3>1, <3>2, <3>4
    <3> QED BY <1>4, <3>2, <3>5 DEF OpenLeases
  <2> QED BY <2>2, <2>3
<1> QED BY <1>3, <1>7, <1>8, <1>9 DEF Tables, OwnershipConsistent

(* A fresh lease on an item that holds no other, over an attempt list that *)
(* ends in the attempt the lease is for.                                   *)
LEMMA IssuesKeeps ==
    ASSUME IInv, NEW i \in Items, NEW a \in Actors, NEW kind \in LeaseKinds,
           NEW n \in Nat \ {0}, NEW l, NEW old \in OpenLeases(i) \cup {NoLease},
           OpenLeases(i) \subseteq {old},
           IssueLease(i, a, kind, n, l, old),
           AttemptsOK', n = Len(attempts'[i]),
           attempts'[i][n] = IF kind = "execution" THEN "running" ELSE "submitted",
           \A k \in 1 .. (n - 1) : attempts'[i][k] \in Terminal,
           \A j \in Items : j # i => attempts'[j] = attempts[j]
    PROVE  Tables'
<1>1. LeasesOK /\ AttemptsOK /\ now \in Nat
  BY DEF IInv, TypeOK, LeasesOK, AttemptsOK
<1>2. LeasesOK'
  BY <1>1, IssueLeaseType
<1>3. /\ DOMAIN leases' = DOMAIN leases \cup {l} /\ l \notin DOMAIN leases
      /\ leases'[l].item = i /\ leases'[l].kind = kind
      /\ leases'[l].attempt = n /\ leases'[l].end = "open"
      /\ \A m \in DOMAIN leases :
            /\ leases'[m].item = leases[m].item
            /\ leases'[m].kind = leases[m].kind
            /\ leases'[m].attempt = leases[m].attempt
            /\ leases'[m].end = IF m = old THEN "lease_expiry" ELSE leases[m].end
  BY <1>1 DEF IssueLease, LeasesOK, LeaseRows
<1>4. \A m \in DOMAIN leases : leases'[m].end = "open" =>
          leases[m].end = "open" /\ m # old /\ leases[m].item # i
  BY <1>3 DEF OpenLeases
<1>5. OneOwner'
  BY <1>3, <1>4 DEF IInv, OwnershipConsistent, OneOwner
<1>6. LeaseMatchesAttempt'
  <2> SUFFICES ASSUME NEW m \in DOMAIN leases', leases'[m].end = "open"
               PROVE  /\ leases'[m].attempt = Len(attempts'[leases'[m].item])
                      /\ attempts'[leases'[m].item][leases'[m].attempt] =
                           IF leases'[m].kind = "execution" THEN "running" ELSE "submitted"
    BY DEF LeaseMatchesAttempt
  <2>1. CASE m = l
    BY <1>3, <2>1
  <2>2. CASE m # l
    <3>1. m \in DOMAIN leases /\ leases[m].end = "open" /\ leases[m].item # i
      BY <1>3, <1>4, <2>2
    <3> QED BY <1>3, <3>1, OpenLeaseAttempt
  <2> QED BY <2>1, <2>2
<1>7. LiveAttemptsAreOwned'
  <2> SUFFICES ASSUME NEW j \in Items, NEW k \in DOMAIN attempts'[j]
               PROVE  /\ k < Len(attempts'[j]) => attempts'[j][k] \in Terminal
                      /\ attempts'[j][k] = "running" =>
                           \E m \in OpenLeases(j)' : leases'[m].kind = "execution"
    BY DEF LiveAttemptsAreOwned
  <2>1. CASE j = i
    <3>1. k \in 1 .. n
      BY <2>1 DEF AttemptsOK
    <3>2. k < n => attempts'[j][k] \in Terminal
      BY <2>1, <3>1
    <3>3. attempts'[j][k] = "running" => k = n /\ kind = "execution"
      BY <2>1, <3>1, <3>2 DEF Terminal
    <3>4. l \in OpenLeases(i)'
      BY <1>3 DEF OpenLeases
    <3> QED BY <1>3, <2>1, <3>2, <3>3, <3>4
  <2>2. CASE j # i
    <3>1. attempts'[j] = attempts[j]
      BY <2>2
    <3>2. OpenLeases(j) \subseteq OpenLeases(j)'
      <4>1. NoLease \notin DOMAIN leases
        BY <1>1, ModelAssumption DEF LeasesOK
      <4>2. old \notin OpenLeases(j)
        BY <2>2, <4>1 DEF OpenLeases
      <4> QED BY <1>3, <4>2 DEF OpenLeases
    <3>3. \A m \in OpenLeases(j) : leases'[m].kind = leases[m].kind
      BY <1>3 DEF OpenLeases
    <3> QED BY <3>1, <3>2, <3>3 DEF IInv, OwnershipConsistent, LiveAttemptsAreOwned
  <2> QED BY <2>1, <2>2
<1> QED BY <1>2, <1>5, <1>6, <1>7 DEF Tables, OwnershipConsistent

(* Past attempts are over when the last one is.                            *)
LEMMA AllOver ==
    ASSUME IInv, NEW i \in Items, LastStatus(i) \in Terminal \cup {"none"}
    PROVE  \A k \in DOMAIN attempts[i] : attempts[i][k] \in Terminal
<1>1. attempts[i] \in Seq(AttemptStatuses)
  BY DEF IInv, TypeOK
<1> SUFFICES ASSUME NEW k \in DOMAIN attempts[i] PROVE attempts[i][k] \in Terminal
  OBVIOUS
<1>2. k \in 1 .. Len(attempts[i]) /\ Len(attempts[i]) \in Nat
  BY <1>1
<1>3. k < Len(attempts[i]) => attempts[i][k] \in Terminal
  BY DEF IInv, OwnershipConsistent, LiveAttemptsAreOwned
<1>4. CASE k = Len(attempts[i])
  <2>1. attempts[i] # <<>>
    BY <1>1, <1>2
  <2>2. LastStatus(i) = attempts[i][k]
    BY <1>4, <2>1 DEF LastStatus
  <2>3. attempts[i][k] # "none"
    BY <1>1, <1>2 DEF AttemptStatuses
  <2> QED BY <2>2, <2>3
<1> QED BY <1>2, <1>3, <1>4

LEMMA StartsKeeps ==
    ASSUME IInv, NEW i \in Items, NEW a \in Actors, NEW l, Starts(i, a, l)
    PROVE  Tables'
<1>1. attempts[i] \in Seq(AttemptStatuses) /\ Len(attempts[i]) \in Nat /\ AttemptsOK
  BY DEF IInv, TypeOK, AttemptsOK
<1> DEFINE n == Len(attempts[i]) + 1
<1>2. attempts'[i] = Append(attempts[i], "running")
  BY <1>1 DEF Starts, AttemptsOK
<1>3. AttemptsOK'
  BY <1>1, AppendType DEF Starts
<1>4. \A j \in Items : j # i => attempts'[j] = attempts[j]
  BY <1>1 DEF Starts, AttemptsOK
<1>5. Len(attempts'[i]) = n /\ attempts'[i][n] = "running"
  BY <1>1, <1>2
<1>6. \A k \in 1 .. (n - 1) : attempts'[i][k] \in Terminal
  <2>1. \A k \in 1 .. Len(attempts[i]) : attempts[i][k] \in Terminal
    BY <1>1, AllOver DEF Starts
  <2>2. \A k \in 1 .. Len(attempts[i]) : attempts'[i][k] = attempts[i][k]
    BY <1>1, <1>2
  <2> QED BY <1>1, <2>1, <2>2
<1>7. n \in Nat \ {0} /\ "execution" \in LeaseKinds
  BY <1>1 DEF LeaseKinds
<1> HIDE DEF n
<1>8. IssueLease(i, a, "execution", n, l, NoLease) /\ OpenLeases(i) \subseteq {NoLease}
  BY DEF Starts, n
<1> QED BY <1>3, <1>4, <1>5, <1>6, <1>7, <1>8, IssuesKeeps

LEMMA RestartsKeeps ==
    ASSUME IInv, NEW i \in Items, NEW a \in Actors, NEW l, Restarts(i, a, l)
    PROVE  Tables'
<1>1. attempts[i] \in Seq(AttemptStatuses) /\ Len(attempts[i]) \in Nat /\ AttemptsOK
  BY DEF IInv, TypeOK, AttemptsOK
<1>2. PICK old \in ExpiredOpen(i, "execution") :
          /\ IssueLease(i, a, "execution", Len(attempts[i]) + 1, l, old)
          /\ attempts' = [attempts EXCEPT ![i] =
                Append([@ EXCEPT ![leases[old].attempt] = "expired"], "running")]
  BY DEF Restarts
<1>3. /\ old \in OpenLeases(i) /\ old \in DOMAIN leases
      /\ leases[old].end = "open" /\ leases[old].item = i
  BY DEF ExpiredOpen, OpenLeases
<1>4. leases[old].attempt = Len(attempts[i]) /\ Len(attempts[i]) \in DOMAIN attempts[i]
  BY <1>3, OpenLeaseAttempt
<1> DEFINE s == [attempts[i] EXCEPT ![Len(attempts[i])] = "expired"]
           n == Len(attempts[i]) + 1
<1>5. /\ s \in Seq(AttemptStatuses) /\ Len(s) = Len(attempts[i])
      /\ \A k \in 1 .. Len(attempts[i]) :
            s[k] = IF k = Len(attempts[i]) THEN "expired" ELSE attempts[i][k]
  BY <1>1, <1>4 DEF AttemptStatuses
<1>6. attempts' = [attempts EXCEPT ![i] = Append(s, "running")]
  BY <1>2, <1>4
<1> HIDE DEF s
<1>7. AttemptsOK'
  BY <1>1, <1>5, <1>6, AppendType
<1>8. attempts'[i] = Append(s, "running") /\ \A j \in Items : j # i => attempts'[j] = attempts[j]
  BY <1>1, <1>6 DEF AttemptsOK
<1>9. Len(attempts'[i]) = n /\ attempts'[i][n] = "running"
  BY <1>1, <1>5, <1>8
<1>10. \A k \in 1 .. (n - 1) : attempts'[i][k] \in Terminal
  <2> SUFFICES ASSUME NEW k \in 1 .. Len(attempts[i]) PROVE attempts'[i][k] \in Terminal
    BY <1>1
  <2>1. attempts'[i][k] = IF k = Len(attempts[i]) THEN "expired" ELSE attempts[i][k]
    BY <1>1, <1>5, <1>8
  <2>2. k < Len(attempts[i]) => attempts[i][k] \in Terminal
    BY <1>1 DEF IInv, OwnershipConsistent, LiveAttemptsAreOwned
  <2> QED BY <1>1, <2>1, <2>2 DEF Terminal, AttemptStatuses
<1>11. n \in Nat \ {0} /\ "execution" \in LeaseKinds
  BY <1>1 DEF LeaseKinds
<1>12. OpenLeases(i) \subseteq {old}
  BY <1>3 DEF OpenLeases, IInv, OwnershipConsistent, OneOwner
<1> HIDE DEF n
<1>13. IssueLease(i, a, "execution", n, l, old)
  BY <1>2 DEF n
<1> QED BY <1>3, <1>7, <1>8, <1>9, <1>10, <1>11, <1>12, <1>13, IssuesKeeps

LEMMA ReviewsKeeps ==
    ASSUME IInv, NEW i \in Items, NEW a \in Actors, NEW l, Reviews(i, a, l)
    PROVE  Tables'
<1>1. attempts[i] \in Seq(AttemptStatuses) /\ Len(attempts[i]) \in Nat /\ AttemptsOK
  BY DEF IInv, TypeOK, AttemptsOK
<1>2. PICK old \in ExpiredOpen(i, "review") \cup {NoLease} :
          /\ OpenLeases(i) \subseteq {old}
          /\ IssueLease(i, a, "review", Len(attempts[i]), l, old)
  BY DEF Reviews
<1>3. old \in OpenLeases(i) \cup {NoLease}
  BY DEF ExpiredOpen
<1> DEFINE n == Len(attempts[i])
<1>4. attempts' = attempts
  BY DEF Reviews
<1>5. attempts[i] # <<>> /\ attempts[i][n] = "submitted"
  BY DEF Reviews, LastStatus
<1>6. n \in Nat \ {0} /\ "review" \in LeaseKinds
  BY <1>1, <1>5 DEF LeaseKinds
<1>7. \A k \in 1 .. (n - 1) : attempts[i][k] \in Terminal
  BY <1>1 DEF IInv, OwnershipConsistent, LiveAttemptsAreOwned
<1>8. AttemptsOK'
  BY <1>1, <1>4 DEF AttemptsOK
<1> QED BY <1>2, <1>3, <1>4, <1>5, <1>6, <1>7, <1>8, IssuesKeeps

-----------------------------------------------------------------------------
(* Every action is a table step.                                           *)

ClosesLeaseOf(i, l) ==
    /\ l \in DOMAIN leases /\ leases[l].end = "open" /\ leases[l].item = i
    /\ Unexpired(l)
    /\ Closes(l) \/ ReleasesReview(l) \/ Renews(l)

LEMMA ClosesByClose ==
    ASSUME IInv, NEW i \in Items, NEW l \in DOMAIN leases, NEW kind, ProofHolds(i, l, kind),
           NEW reason \in EndReasons, NEW expected, NEW status \in Verdicts,
           status \in OutcomesOf(kind, reason),
           CloseLease(l, reason, expected, status), presented' = l, now' = now
    PROVE  ClosesLeaseOf(i, l)
<1>1. leases[l].end = "open" /\ leases[l].item = i /\ Unexpired(l)
  BY DEF ProofHolds
<1>2. attempts[leases[l].item][leases[l].attempt] = expected
  BY DEF CloseLease
<1>3. expected \in AttemptStatuses
  BY <1>1, <1>2, OpenLeaseAttempt
<1>4. leases[l].kind = kind
  BY DEF ProofHolds
<1> QED BY <1>1, <1>3, <1>4 DEF ClosesLeaseOf, Closes

LEMMA FencedSteps ==
    ASSUME IInv, NEW i \in Items, NEW l \in DOMAIN leases,
           \/ RequestReview(i, l) \/ Reject(i, l)
           \/ \E kind \in LeaseKinds : Heartbeat(i, l, kind)
           \/ \E target \in States : \/ ReleaseExecution(i, l, target)
                                     \/ ReleaseReview(i, l, target)
                                     \/ Complete(i, l, target)
                                     \/ Approve(i, l, target)
    PROVE  ClosesLeaseOf(i, l)
<1>1. CASE RequestReview(i, l)
  BY <1>1, ClosesByClose, Stories DEF RequestReview, EndReasons, Verdicts
<1>2. CASE Reject(i, l)
  BY <1>2, ClosesByClose, Stories DEF Reject, EndReasons, Verdicts
<1>3. ASSUME NEW kind \in LeaseKinds, Heartbeat(i, l, kind)
      PROVE  ClosesLeaseOf(i, l)
  BY <1>3 DEF Heartbeat, ProofHolds, ClosesLeaseOf, Renews
<1>4. ASSUME NEW target \in States, ReleaseExecution(i, l, target)
      PROVE  ClosesLeaseOf(i, l)
  BY <1>4, ClosesByClose, Stories DEF ReleaseExecution, EndReasons, Verdicts
<1>5. ASSUME NEW target \in States, ReleaseReview(i, l, target)
      PROVE  ClosesLeaseOf(i, l)
  <2>1. /\ ProofHolds(i, l, "review") /\ presented' = l /\ now' = now
        /\ leases[l].item = i /\ leases[l].kind = "review" /\ leases[l].end = "open"
    BY <1>5 DEF ReleaseReview, ProofHolds
  <2>2. CASE leases' = [leases EXCEPT ![l].end = "release"] /\ attempts' = attempts
    BY <2>1, <2>2 DEF ProofHolds, ClosesLeaseOf, ReleasesReview
  <2>3. ASSUME NEW status, status \in {attempts[i][leases[l].attempt], "cancelled", "failed"},
               CloseLease(l, "release", attempts[i][leases[l].attempt], status)
        PROVE  ClosesLeaseOf(i, l)
    <3>1. attempts[i][leases[l].attempt] = "submitted"
      BY <2>1, OpenLeaseAttempt
    <3>2. status \in Verdicts
      BY <2>3, <3>1 DEF Verdicts
    <3> QED BY <2>1, <2>3, <3>2, ClosesByClose, Stories DEF EndReasons
  <2> QED BY <1>5, <2>2, <2>3 DEF ReleaseReview
<1>6. ASSUME NEW target \in States, Complete(i, l, target)
      PROVE  ClosesLeaseOf(i, l)
  BY <1>6, ClosesByClose, Stories DEF Complete, EndReasons, Verdicts
<1>7. ASSUME NEW target \in States, Approve(i, l, target)
      PROVE  ClosesLeaseOf(i, l)
  BY <1>7, ClosesByClose, Stories DEF Approve, EndReasons, Verdicts
<1> QED BY <1>1, <1>2, <1>3, <1>4, <1>5, <1>6, <1>7

LEMMA TransitionStep ==
    ASSUME IInv, NEW i \in Items, NEW l \in DOMAIN leases, NEW kind \in LeaseKinds,
           NEW target \in States, TransitionLeased(i, l, kind, target)
    PROVE  ClosesLeaseOf(i, l) \/ KeepsTables
<1> DEFINE lifecycle == Lifecycle(state[i], target)
<1>1. CASE ClosesLease(lifecycle)
  BY <1>1, ClosesByClose, LifecycleType DEF TransitionLeased
<1>2. CASE ~ClosesLease(lifecycle)
  BY <1>2 DEF TransitionLeased, KeepsTables
<1> QED BY <1>1, <1>2

LEMMA ReassignStep ==
    ASSUME IInv, NEW i \in Items, NEW l \in DOMAIN leases, NEW kind \in LeaseKinds,
           NEW who, Reassign(i, who, l, kind)
    PROVE  ClosesLeaseOf(i, l)
BY ClosesByClose, Stories DEF Reassign, EndReasons, Verdicts

LEMMA RawImportStep ==
    ASSUME IInv, NEW i \in Items, NEW l \in DOMAIN leases, NEW kind \in LeaseKinds,
           NEW target \in States, NEW who, NEW p \in Plans,
           RawImportLeased(i, target, who, p, l, kind)
    PROVE  ClosesLeaseOf(i, l) \/ KeepsTables
<1> DEFINE lifecycle == Lifecycle(state[i], target)
<1>1. ProofHolds(i, l, kind) /\ presented' = l /\ now' = now
  BY DEF RawImportLeased, RawChange
<1>2. CASE CloseLease(l, "reassignment",
              IF kind = "execution" THEN "running" ELSE "submitted", "cancelled")
  BY <1>1, <1>2, ClosesByClose, Stories DEF EndReasons, Verdicts
<1>3. CASE ClosesLease(lifecycle) /\ CloseLease(l, lifecycle,
              AttemptBefore(lifecycle, state[i] = ReviewState), AttemptAfter(lifecycle))
  BY <1>1, <1>3, ClosesByClose, LifecycleType
<1>4. CASE UNCHANGED <<leases, attempts>>
  BY <1>1, <1>4 DEF KeepsTables
<1> QED BY <1>2, <1>3, <1>4 DEF RawImportLeased

LEMMA ExpiryStep ==
    ASSUME IInv, NEW i \in Items, ~HasActive(i), ExpireLeases(OpenLeases(i)), now' = now
    PROVE  Expires
<1>1. OpenLeases(i) \in SUBSET DOMAIN leases
  BY DEF OpenLeases
<1>2. \A l \in OpenLeases(i) : leases[l].end = "open" /\ ~Unexpired(l)
  BY DEF OpenLeases, HasActive
<1> QED BY <1>1, <1>2 DEF Expires

LEMMA NextIsTableStep ==
    ASSUME IInv, [Next]_vars
    PROVE  TableStep
<1>1. CASE UNCHANGED vars
  BY <1>1 DEF vars, TableStep, KeepsTables
<1>2. CASE Tick
  BY <1>2 DEF Tick, TableStep, KeepsTables
<1>3. ASSUME NEW i \in Items, NEW a \in Actors, NEW l \in LeaseIds,
             Claim(i, a, l) \/ Retry(i, a, l)
      PROVE  TableStep
  <2>1. Starts(i, a, l)
    BY <1>3 DEF Claim, Retry, Starts
  <2>2. l \notin DOMAIN leases
    BY <2>1 DEF Starts, IssueLease
  <2> QED BY <2>1, <2>2 DEF TableStep
<1>4. ASSUME NEW i \in Items, NEW a \in Actors, NEW l \in LeaseIds, Reclaim(i, a, l)
      PROVE  TableStep
  <2>1. Restarts(i, a, l)
    BY <1>4 DEF Reclaim, Restarts
  <2>2. l \notin DOMAIN leases
    BY <2>1 DEF Restarts, IssueLease
  <2> QED BY <2>1, <2>2 DEF TableStep
<1>5. ASSUME NEW i \in Items, NEW a \in Actors, NEW l \in LeaseIds, ClaimReview(i, a, l)
      PROVE  TableStep
  <2>1. Reviews(i, a, l)
    BY <1>5 DEF ClaimReview, Reviews
  <2>2. l \notin DOMAIN leases
    BY <2>1 DEF Reviews, IssueLease
  <2> QED BY <2>1, <2>2 DEF TableStep
<1>6. ASSUME NEW i \in Items, NEW l \in DOMAIN leases, ClosesLeaseOf(i, l)
      PROVE  TableStep
  BY <1>6 DEF TableStep, ClosesLeaseOf
<1>7. ASSUME NEW i \in Items, NEW l \in DOMAIN leases,
             \E p \in Plans, kind \in LeaseKinds : EditPlanLeased(i, p, l, kind)
      PROVE  TableStep
  BY <1>7 DEF EditPlanLeased, TableStep, KeepsTables
<1>8. CASE Fenced
  <2> PICK i \in Items, l \in DOMAIN leases :
        \/ RequestReview(i, l)
        \/ Reject(i, l)
        \/ \E kind \in LeaseKinds : Heartbeat(i, l, kind)
        \/ \E target \in States :
              \/ ReleaseExecution(i, l, target)
              \/ ReleaseReview(i, l, target)
              \/ Complete(i, l, target)
              \/ Approve(i, l, target)
              \/ \E kind \in LeaseKinds : TransitionLeased(i, l, kind, target)
        \/ \E who \in Actors \cup {Nobody}, kind \in LeaseKinds : Reassign(i, who, l, kind)
        \/ \E p \in Plans, kind \in LeaseKinds : EditPlanLeased(i, p, l, kind)
    BY <1>8 DEF Fenced
  <2>1. \/ ClosesLeaseOf(i, l) \/ KeepsTables
        \/ \E p \in Plans, kind \in LeaseKinds : EditPlanLeased(i, p, l, kind)
    BY FencedSteps, TransitionStep, ReassignStep
  <2> QED BY <1>6, <1>7, <2>1 DEF TableStep
<1>9. CASE Unfenced
  <2> PICK i \in Items :
        \/ BookkeepExpired(i)
        \/ \E target \in States : TransitionUnleased(i, target)
        \/ \E who \in Actors \cup {Nobody} : Assign(i, who)
        \/ \E p \in Plans : EditPlanUnleased(i, p)
    BY <1>9 DEF Unfenced
  <2>1. \/ ~HasActive(i) /\ ExpireLeases(OpenLeases(i)) /\ now' = now
        \/ KeepsTables
    BY DEF BookkeepExpired, TransitionUnleased, Assign, EditPlanUnleased, KeepsTables
  <2> QED BY <2>1, ExpiryStep DEF TableStep
<1>10. CASE RawImport
  <2> PICK i \in Items, target \in States, who \in Actors \cup {Nobody}, p \in Plans :
        \/ RawImportUnleased(i, target, who, p)
        \/ \E l \in DOMAIN leases, kind \in LeaseKinds :
              RawImportLeased(i, target, who, p, l, kind)
    BY <1>10 DEF RawImport
  <2>1. CASE RawImportUnleased(i, target, who, p)
    <3>1. ~HasActive(i) /\ ExpireLeases(OpenLeases(i)) /\ now' = now
      BY <2>1 DEF RawImportUnleased, RawChange
    <3> QED BY <3>1, ExpiryStep DEF TableStep
  <2>2. ASSUME NEW l \in DOMAIN leases, NEW kind \in LeaseKinds,
               RawImportLeased(i, target, who, p, l, kind)
        PROVE  TableStep
    BY <1>6, <2>2, RawImportStep DEF TableStep
  <2> QED BY <2>1, <2>2
<1>11. CASE Archival
  <2>1. CASE ArchiveDocument \/ RestoreDocument
    BY <2>1 DEF ArchiveDocument, RestoreDocument, TableStep, KeepsTables
  <2>2. CASE ArchiveWorkspace
    <3> DEFINE expired == {l \in DOMAIN leases : leases[l].end = "open" /\ ~Unexpired(l)}
    <3>1. ExpireLeases(expired) /\ now' = now
      BY <2>2 DEF ArchiveWorkspace
    <3>2. expired \in SUBSET DOMAIN leases
             /\ \A l \in expired : leases[l].end = "open" /\ ~Unexpired(l)
      OBVIOUS
    <3> HIDE DEF expired
    <3> QED BY <3>1, <3>2 DEF TableStep, Expires
  <2> QED BY <1>11, <2>1, <2>2 DEF Archival
<1> QED
  BY <1>1, <1>2, <1>3, <1>4, <1>5, <1>8, <1>9, <1>10, <1>11
     DEF Next, StructuredNext, Claims

-----------------------------------------------------------------------------
(* The other variables.                                                    *)

Fields ==
    /\ now \in Nat
    /\ state \in [Items -> States]
    /\ assignee \in [Items -> Actors \cup {Nobody}]
    /\ plan \in [Items -> Plans]
    /\ archived \in {"no", "document", "workspace"}
    /\ presented \in LeaseIds \cup {NoLease}

LEMMA SetStateType ==
    ASSUME Fields, NEW i \in Items, NEW to \in States, SetState(i, to)
    PROVE  state' \in [Items -> States]
BY DEF Fields, SetState

LEMMA SetPlanType ==
    ASSUME Fields, NEW i \in Items, NEW p \in Plans, SetPlan(i, p)
    PROVE  plan' \in [Items -> Plans]
BY DEF Fields, SetPlan

LEMMA FieldsStep ==
    ASSUME IInv, [Next]_vars
    PROVE  Fields'
<1>1. Fields
  BY DEF IInv, TypeOK, Fields
<1>2. DOMAIN leases \subseteq LeaseIds
  BY DEF IInv, TypeOK
<1>3. {RunningState, ReviewState, ReleaseState, ReviewRejectionState} \subseteq States
         /\ SuccessfulStates \subseteq States
  BY PolicyAssumption DEF ValidPolicy
<1>4. CASE UNCHANGED vars
  BY <1>1, <1>4 DEF vars, Fields
<1>5. CASE Tick
  BY <1>1, <1>5 DEF Tick, Fields
<1>6. ASSUME NEW i \in Items, NEW a \in Actors, NEW l \in LeaseIds,
             Claim(i, a, l) \/ Retry(i, a, l)
      PROVE  Fields'
  <2>1. SetState(i, RunningState)
    BY <1>6 DEF Claim, Retry
  <2>2. state' \in [Items -> States]
    BY <1>1, <1>3, <2>1, SetStateType
  <2> QED BY <1>1, <1>6, <2>2 DEF Claim, Retry, Fields
<1>7. ASSUME NEW i \in Items, NEW a \in Actors, NEW l \in LeaseIds,
             Reclaim(i, a, l) \/ ClaimReview(i, a, l)
      PROVE  Fields'
  BY <1>1, <1>7 DEF Reclaim, ClaimReview, Fields
<1>8. CASE Fenced
  <2> PICK i \in Items, l \in DOMAIN leases :
        \/ RequestReview(i, l)
        \/ Reject(i, l)
        \/ \E kind \in LeaseKinds : Heartbeat(i, l, kind)
        \/ \E target \in States :
              \/ ReleaseExecution(i, l, target)
              \/ ReleaseReview(i, l, target)
              \/ Complete(i, l, target)
              \/ Approve(i, l, target)
              \/ \E kind \in LeaseKinds : TransitionLeased(i, l, kind, target)
        \/ \E who \in Actors \cup {Nobody}, kind \in LeaseKinds : Reassign(i, who, l, kind)
        \/ \E p \in Plans, kind \in LeaseKinds : EditPlanLeased(i, p, l, kind)
    BY <1>8 DEF Fenced
  <2>1. ASSUME NEW to \in States, SetState(i, to) \/ UNCHANGED state, presented' = l,
               UNCHANGED <<now, assignee, plan, archived>>
        PROVE  Fields'
    <3>1. state' \in [Items -> States]
      BY <1>1, <2>1, SetStateType DEF Fields
    <3> QED BY <1>1, <1>2, <2>1, <3>1 DEF Fields
  <2>2. CASE RequestReview(i, l)
    BY <1>3, <2>1, <2>2 DEF RequestReview
  <2>3. CASE Reject(i, l)
    BY <1>3, <2>1, <2>3 DEF Reject
  <2>4. ASSUME NEW kind \in LeaseKinds, Heartbeat(i, l, kind)
        PROVE  Fields'
    BY <1>1, <1>2, <2>4 DEF Heartbeat, Fields
  <2>5. ASSUME NEW target \in States,
               \/ ReleaseExecution(i, l, target) \/ ReleaseReview(i, l, target)
               \/ Complete(i, l, target) \/ Approve(i, l, target)
               \/ \E kind \in LeaseKinds : TransitionLeased(i, l, kind, target)
        PROVE  Fields'
    BY <2>1, <2>5 DEF ReleaseExecution, ReleaseReview, Complete, Approve, TransitionLeased
  <2>6. ASSUME NEW who \in Actors \cup {Nobody}, NEW kind \in LeaseKinds,
               Reassign(i, who, l, kind)
        PROVE  Fields'
    <3>1. SetState(i, RecoveryOf(kind)) /\ RecoveryOf(kind) \in States
      BY <1>3, <2>6 DEF Reassign, RecoveryOf
    <3>2. state' \in [Items -> States]
      BY <1>1, <3>1, SetStateType
    <3> QED BY <1>1, <1>2, <2>6, <3>2 DEF Reassign, Fields
  <2>7. ASSUME NEW p \in Plans, NEW kind \in LeaseKinds, EditPlanLeased(i, p, l, kind)
        PROVE  Fields'
    <3>1. plan' \in [Items -> Plans]
      BY <1>1, <2>7, SetPlanType DEF EditPlanLeased
    <3> QED BY <1>1, <1>2, <2>7, <3>1 DEF EditPlanLeased, Fields
  <2> QED BY <2>2, <2>3, <2>4, <2>5, <2>6, <2>7
<1>9. CASE Unfenced
  <2> PICK i \in Items :
        \/ BookkeepExpired(i)
        \/ \E target \in States : TransitionUnleased(i, target)
        \/ \E who \in Actors \cup {Nobody} : Assign(i, who)
        \/ \E p \in Plans : EditPlanUnleased(i, p)
    BY <1>9 DEF Unfenced
  <2>1. CASE BookkeepExpired(i)
    BY <1>1, <2>1 DEF BookkeepExpired, Fields
  <2>2. ASSUME NEW target \in States, TransitionUnleased(i, target)
        PROVE  Fields'
    <3>1. state' \in [Items -> States]
      BY <1>1, <2>2, SetStateType DEF TransitionUnleased
    <3> QED BY <1>1, <2>2, <3>1 DEF TransitionUnleased, Fields
  <2>3. ASSUME NEW who \in Actors \cup {Nobody}, Assign(i, who)
        PROVE  Fields'
    BY <1>1, <2>3 DEF Assign, Fields
  <2>4. ASSUME NEW p \in Plans, EditPlanUnleased(i, p)
        PROVE  Fields'
    <3>1. plan' \in [Items -> Plans]
      BY <1>1, <2>4, SetPlanType DEF EditPlanUnleased
    <3> QED BY <1>1, <2>4, <3>1 DEF EditPlanUnleased, Fields
  <2> QED BY <2>1, <2>2, <2>3, <2>4
<1>10. CASE RawImport
  <2> PICK i \in Items, target \in States, who \in Actors \cup {Nobody}, p \in Plans :
        \/ RawImportUnleased(i, target, who, p)
        \/ \E l \in DOMAIN leases, kind \in LeaseKinds :
              RawImportLeased(i, target, who, p, l, kind)
    BY <1>10 DEF RawImport
  <2>1. RawChange(i, target, who, p) /\ presented' \in LeaseIds \cup {NoLease}
    BY <1>2 DEF RawImportUnleased, RawImportLeased
  <2>2. state' \in [Items -> States] /\ plan' \in [Items -> Plans]
    BY <1>1, <2>1, SetStateType, SetPlanType DEF RawChange
  <2>3. assignee' \in [Items -> Actors \cup {Nobody}] /\ UNCHANGED <<now, archived>>
    BY <1>1, <2>1 DEF RawChange, Fields
  <2> QED BY <1>1, <2>1, <2>2, <2>3 DEF Fields
<1>11. CASE Archival
  BY <1>1, <1>11 DEF Archival, ArchiveDocument, RestoreDocument, ArchiveWorkspace, Fields
<1> QED
  BY <1>4, <1>5, <1>6, <1>7, <1>8, <1>9, <1>10, <1>11 DEF Next, StructuredNext, Claims

-----------------------------------------------------------------------------
LEMMA InitIInv ==
    ASSUME Init
    PROVE  IInv
<1>1. DOMAIN leases = {}
  BY DEF Init
<1>2. \A i \in Items : attempts[i] = <<>> /\ DOMAIN attempts[i] = {}
  BY DEF Init
<1>3. TypeOK
  BY <1>1 DEF Init, TypeOK
<1>4. OwnershipConsistent
  BY <1>1, <1>2 DEF OwnershipConsistent, OneOwner, LeaseMatchesAttempt, LiveAttemptsAreOwned
<1> QED BY <1>3, <1>4 DEF IInv

LEMMA NextIInv ==
    ASSUME IInv, [Next]_vars
    PROVE  IInv'
<1>1. Tables'
  <2>1. CASE KeepsTables
    BY <2>1 DEF KeepsTables, IInv, TypeOK, Tables, LeasesOK, AttemptsOK, OwnershipConsistent,
                OneOwner, LeaseMatchesAttempt, LiveAttemptsAreOwned, OpenLeases
  <2> QED
    BY <2>1, NextIsTableStep, ClosesKeeps, ReleasesReviewKeeps, RenewsKeeps, ExpiresKeeps,
       StartsKeeps, RestartsKeeps, ReviewsKeeps DEF TableStep
<1>2. Fields'
  BY FieldsStep
<1> QED BY <1>1, <1>2 DEF IInv, TypeOK, Fields, Tables, LeasesOK, AttemptsOK

THEOREM Invariance == Spec => []IInv
<1>1. Init => IInv
  BY InitIInv
<1>2. IInv /\ [Next]_vars => IInv'
  BY NextIInv
<1> QED BY <1>1, <1>2, PTL DEF Spec

(* Every reachable state is well typed, whatever the policy.               *)
THEOREM TypeCorrect == Spec => []TypeOK
<1>1. IInv => TypeOK
  BY DEF IInv
<1> QED BY <1>1, Invariance, PTL

(* One owner per item, lease rows and attempt rows that agree, and no      *)
(* running attempt without a lease: for every policy and any number of     *)
(* items, agents and leases.                                               *)
THEOREM OwnershipCorrect == Spec => []OwnershipConsistent
<1>1. IInv => OwnershipConsistent
  BY DEF IInv
<1> QED BY <1>1, Invariance, PTL

-----------------------------------------------------------------------------
(* Which leases are active after a step.                                   *)

LEMMA ActiveAfter ==
    ASSUME IInv, [Next]_vars
    PROVE  \/ ActiveLeases' \subseteq ActiveLeases
           \/ \E l \in LeaseIds \ DOMAIN leases :
                 CapacityLeft /\ ActiveLeases' \subseteq ActiveLeases \cup {l}
<1>1. now \in Nat /\ leases \in [DOMAIN leases -> LeaseRows]
  BY DEF IInv, TypeOK
<1>2. \A l \in DOMAIN leases : leases[l].expires \in Nat
  BY <1>1 DEF LeaseRows
<1>3. CASE KeepsTables
  <2>1. \A l \in DOMAIN leases : leases[l].expires > now' => leases[l].expires > now
    BY <1>1, <1>2, <1>3 DEF KeepsTables
  <2> QED BY <1>3, <2>1 DEF KeepsTables, ActiveLeases, Unexpired
<1>4. ASSUME NEW l \in DOMAIN leases, leases[l].end = "open", Unexpired(l),
             Closes(l) \/ ReleasesReview(l) \/ Renews(l)
      PROVE  ActiveLeases' \subseteq ActiveLeases
  <2>1. CASE Closes(l)
    <3>1. PICK reason \in EndReasons : leases' = [leases EXCEPT ![l].end = reason]
      BY <2>1 DEF Closes, CloseLease
    <3> QED BY <1>1, <2>1, <3>1, <1>4 DEF Closes, ActiveLeases, Unexpired, LeaseRows
  <2>2. CASE ReleasesReview(l)
    BY <1>1, <2>2, <1>4 DEF ReleasesReview, ActiveLeases, Unexpired, LeaseRows
  <2>3. CASE Renews(l)
    BY <1>1, <2>3, <1>4 DEF Renews, ActiveLeases, Unexpired, LeaseRows
  <2> QED BY <1>4, <2>1, <2>2, <2>3
<1>5. CASE Expires
  BY <1>1, <1>5 DEF Expires, ExpireLeases, ActiveLeases, Unexpired, LeaseRows
<1>6. ASSUME NEW i \in Items, NEW a \in Actors, NEW l \in LeaseIds \ DOMAIN leases,
             Starts(i, a, l) \/ Restarts(i, a, l) \/ Reviews(i, a, l)
      PROVE  CapacityLeft /\ ActiveLeases' \subseteq ActiveLeases \cup {l}
  <2>1. PICK kind, n, old : IssueLease(i, a, kind, n, l, old)
    BY <1>6 DEF Starts, Restarts, Reviews
  <2>2. now' = now
    BY <1>6 DEF Starts, Restarts, Reviews
  <2> QED BY <1>1, <2>1, <2>2 DEF IssueLease, ActiveLeases, Unexpired, LeaseRows
<1> QED BY <1>3, <1>4, <1>5, <1>6, NextIsTableStep DEF TableStep

LEMMA NextCapacity ==
    ASSUME IInv, CapacityRespected, [Next]_vars
    PROVE  CapacityRespected'
<1>1. IsFiniteSet(ActiveLeases) /\ Cardinality(ActiveLeases) \in Nat
  <2>1. ActiveLeases \in SUBSET LeaseIds
    BY DEF ActiveLeases, IInv, TypeOK
  <2>2. IsFiniteSet(ActiveLeases)
    BY <2>1, ModelAssumption, FS_Subset
  <2> QED BY <2>2, FS_CardinalityType
<1>2. CASE ActiveLeases' \subseteq ActiveLeases
  <2>1. Cardinality(ActiveLeases') <= Cardinality(ActiveLeases)
             /\ Cardinality(ActiveLeases') \in Nat
    BY <1>1, <1>2, FS_Subset, FS_CardinalityType
  <2> QED BY <1>1, <2>1, PolicyAssumption DEF CapacityRespected, ValidPolicy
<1>3. ASSUME NEW l \in LeaseIds \ DOMAIN leases,
             CapacityLeft, ActiveLeases' \subseteq ActiveLeases \cup {l}
      PROVE  CapacityRespected'
  <2> DEFINE S == ActiveLeases \cup {l}
  <2>1. l \notin ActiveLeases
    BY DEF ActiveLeases
  <2>2. IsFiniteSet(S) /\ Cardinality(S) = Cardinality(ActiveLeases) + 1
    BY <1>1, <2>1, FS_AddElement
  <2>3. Cardinality(ActiveLeases') <= Cardinality(S) /\ Cardinality(ActiveLeases') \in Nat
    BY <1>3, <2>2, FS_Subset, FS_CardinalityType
  <2> HIDE DEF S
  <2> QED BY <1>1, <1>3, <2>2, <2>3, PolicyAssumption
          DEF CapacityRespected, CapacityLeft, ValidPolicy
<1> QED BY <1>2, <1>3, ActiveAfter

(* The concurrency limit bounds the active leases of any workspace: expiry *)
(* between the count and the insert, renewal and review leases included.   *)
THEOREM CapacityCorrect == Spec => []CapacityRespected
<1>1. Init => CapacityRespected
  <2> SUFFICES ASSUME Init PROVE CapacityRespected
    OBVIOUS
  <2>1. ActiveLeases = {}
    BY DEF Init, ActiveLeases
  <2> QED BY <2>1, FS_EmptySet, PolicyAssumption DEF CapacityRespected, ValidPolicy
<1>2. IInv /\ CapacityRespected /\ [Next]_vars => CapacityRespected'
  BY NextCapacity
<1> QED BY <1>1, <1>2, Invariance, PTL DEF Spec

-----------------------------------------------------------------------------
LEMMA LapsedStep ==
    ASSUME IInv, [Next]_vars, NEW l \in DOMAIN leases, leases[l].end # "open" \/ ~Unexpired(l)
    PROVE  /\ l \in DOMAIN leases' /\ l \notin ActiveLeases'
           /\ leases[l].end # "open" => leases'[l] = leases[l]
<1>1. now \in Nat /\ leases \in [DOMAIN leases -> LeaseRows]
  BY DEF IInv, TypeOK
<1>2. l \notin ActiveLeases'
  BY ActiveAfter DEF ActiveLeases
<1>3. CASE KeepsTables
  BY <1>2, <1>3 DEF KeepsTables
<1>4. ASSUME NEW m \in DOMAIN leases, leases[m].end = "open", Unexpired(m),
             Closes(m) \/ ReleasesReview(m) \/ Renews(m)
      PROVE  l \in DOMAIN leases' /\ (leases[l].end # "open" => leases'[l] = leases[l])
  BY <1>4 DEF Closes, CloseLease, ReleasesReview, Renews
<1>5. CASE Expires
  BY <1>2, <1>5 DEF Expires, ExpireLeases
<1>6. ASSUME NEW i \in Items, NEW a \in Actors, NEW m \in LeaseIds \ DOMAIN leases,
             Starts(i, a, m) \/ Restarts(i, a, m) \/ Reviews(i, a, m)
      PROVE  l \in DOMAIN leases' /\ (leases[l].end # "open" => leases'[l] = leases[l])
  <2>1. PICK old \in OpenLeases(i) \cup {NoLease} : \E kind, n : IssueLease(i, a, kind, n, m, old)
    BY <1>6 DEF Starts, Restarts, Reviews, ExpiredOpen
  <2>2. NoLease \notin DOMAIN leases
    BY ModelAssumption DEF IInv, TypeOK
  <2>3. leases[l].end # "open" => l # old
    BY <2>1, <2>2 DEF OpenLeases
  <2> QED BY <2>1, <2>3 DEF IssueLease
<1> QED BY <1>2, <1>3, <1>4, <1>5, <1>6, NextIsTableStep DEF TableStep

(* A lapsed or closed lease never acts again, whatever is renewed, replayed,*)
(* restored or imported.                                                   *)
THEOREM LapsedForever == Spec => LapsedStaysLapsed
<1>1. IInv /\ [Next]_vars =>
        [\A l \in DOMAIN leases :
            leases[l].end # "open" \/ ~Unexpired(l)
            => /\ l \in DOMAIN leases'
               /\ l \notin ActiveLeases'
               /\ leases[l].end # "open" => leases'[l] = leases[l]]_vars
  BY LapsedStep
<1> QED BY <1>1, Invariance, PTL DEF Spec, LapsedStaysLapsed

-----------------------------------------------------------------------------
(* The attempts of an item after a step: the same list, where a running    *)
(* entry may be over and a submitted one judged, or that list and one more.*)

LEMMA AttemptsAfter ==
    ASSUME IInv, [Next]_vars, NEW i \in Items
    PROVE  /\ \/ Len(attempts'[i]) = Len(attempts[i])
              \/ BudgetLeft(i) /\ Len(attempts'[i]) = Len(attempts[i]) + 1
           /\ \A n \in DOMAIN attempts[i] :
                /\ n \in DOMAIN attempts'[i]
                /\ attempts[i][n] \in Terminal => attempts'[i][n] = attempts[i][n]
                /\ attempts[i][n] = "submitted" => attempts'[i][n] \in Verdicts
<1>1. /\ attempts[i] \in Seq(AttemptStatuses) /\ Len(attempts[i]) \in Nat
      /\ DOMAIN attempts = Items
  BY DEF IInv, TypeOK
<1>2. CASE attempts' = attempts
  BY <1>2 DEF Verdicts
<1>3. ASSUME NEW l \in DOMAIN leases, leases[l].end = "open", Closes(l)
      PROVE  /\ Len(attempts'[i]) = Len(attempts[i])
             /\ \A n \in DOMAIN attempts[i] :
                  /\ n \in DOMAIN attempts'[i]
                  /\ attempts[i][n] \in Terminal => attempts'[i][n] = attempts[i][n]
                  /\ attempts[i][n] = "submitted" => attempts'[i][n] \in Verdicts
  <2> DEFINE j == leases[l].item
             k == leases[l].attempt
  <2>1. PICK status \in Verdicts : attempts' = [attempts EXCEPT ![j][k] = status]
    BY <1>3 DEF Closes, CloseLease
  <2>2. attempts[j][k] \notin Terminal /\ k \in DOMAIN attempts[j] /\ k \in Nat
    BY <1>3, OpenLeaseAttempt DEF Terminal
  <2> HIDE DEF j, k
  <2>3. attempts'[i] = IF i = j THEN [attempts[i] EXCEPT ![k] = status] ELSE attempts[i]
    BY <1>1, <2>1
  <2>4. Len(attempts'[i]) = Len(attempts[i])
    BY <1>1, <2>2, <2>3
  <2> QED BY <1>1, <2>2, <2>3, <2>4 DEF Verdicts
<1>4. CASE Expires
  <2>1. PICK ls \in SUBSET DOMAIN leases :
          /\ \A l \in ls : leases[l].end = "open"
          /\ ExpireLeases(ls)
    BY <1>4 DEF Expires
  <2> DEFINE gone(n) == \E l \in ls : /\ leases[l].kind = "execution"
                                      /\ leases[l].item = i
                                      /\ leases[l].attempt = n
  <2>2. attempts'[i] = [n \in DOMAIN attempts[i] |->
                          IF gone(n) THEN "expired" ELSE attempts[i][n]]
    BY <2>1 DEF ExpireLeases
  <2>3. \A n : gone(n) => attempts[i][n] = "running"
    BY <2>1, OpenLeaseAttempt
  <2> HIDE DEF gone
  <2>4. DOMAIN attempts'[i] = DOMAIN attempts[i]
    BY <2>2
  <2>5. Len(attempts'[i]) = Len(attempts[i])
    <3>1. AttemptsOK'
      BY <1>4, ExpiresKeeps DEF Tables
    <3> QED BY <1>1, <2>4, <3>1 DEF AttemptsOK
  <2> QED BY <2>2, <2>3, <2>4, <2>5 DEF Terminal, Verdicts
<1>5. ASSUME NEW j \in Items, NEW a \in Actors, NEW l, Starts(j, a, l)
      PROVE  /\ \/ Len(attempts'[i]) = Len(attempts[i])
                \/ BudgetLeft(i) /\ Len(attempts'[i]) = Len(attempts[i]) + 1
             /\ \A n \in DOMAIN attempts[i] :
                  n \in DOMAIN attempts'[i] /\ attempts'[i][n] = attempts[i][n]
  <2>1. attempts'[i] = IF i = j THEN Append(attempts[i], "running") ELSE attempts[i]
    BY <1>1, <1>5 DEF Starts
  <2> QED BY <1>1, <1>5, <2>1 DEF Starts
<1>6. ASSUME NEW j \in Items, NEW a \in Actors, NEW l, Restarts(j, a, l)
      PROVE  /\ \/ Len(attempts'[i]) = Len(attempts[i])
                \/ BudgetLeft(i) /\ Len(attempts'[i]) = Len(attempts[i]) + 1
             /\ \A n \in DOMAIN attempts[i] :
                  /\ n \in DOMAIN attempts'[i]
                  /\ attempts'[i][n] = attempts[i][n] \/ attempts[i][n] = "running"
  <2>1. PICK old \in ExpiredOpen(j, "execution") :
          attempts' = [attempts EXCEPT ![j] =
              Append([@ EXCEPT ![leases[old].attempt] = "expired"], "running")]
    BY <1>6 DEF Restarts
  <2> DEFINE k == leases[old].attempt
             s == [attempts[i] EXCEPT ![k] = "expired"]
  <2>2. i = j => k \in DOMAIN attempts[i] /\ attempts[i][k] = "running"
    BY OpenLeaseAttempt DEF ExpiredOpen, OpenLeases
  <2>3. attempts'[i] = IF i = j THEN Append(s, "running") ELSE attempts[i]
    BY <1>1, <2>1
  <2>4. i = j => s \in Seq(AttemptStatuses) /\ Len(s) = Len(attempts[i])
             /\ \A n \in DOMAIN attempts[i] : s[n] = IF n = k THEN "expired" ELSE attempts[i][n]
    BY <1>1, <2>2 DEF AttemptStatuses
  <2>5. BudgetLeft(j)
    BY <1>6 DEF Restarts
  <2> HIDE DEF k, s
  <2>6. CASE i # j
    BY <2>3, <2>6
  <2>7. CASE i = j
    <3>1. Len(attempts'[i]) = Len(attempts[i]) + 1
      BY <1>1, <2>3, <2>4, <2>7
    <3>2. ASSUME NEW n \in DOMAIN attempts[i]
          PROVE  n \in DOMAIN attempts'[i] /\ attempts'[i][n] = s[n]
      BY <1>1, <2>3, <2>4, <2>7
    <3> QED BY <2>2, <2>4, <2>5, <2>7, <3>1, <3>2
  <2> QED BY <2>6, <2>7
<1>7. "running" \notin Terminal
  BY DEF Terminal
<1> QED
  BY <1>2, <1>3, <1>4, <1>5, <1>6, <1>7, NextIsTableStep
     DEF TableStep, KeepsTables, ReleasesReview, Renews, Reviews, Verdicts

(* Claims, reclaims and retries of one item never exceed the retry budget. *)
THEOREM RetryBudgetCorrect == Spec => []RetryBudgetRespected
<1>1. MaxAttempts \in Nat
  BY PolicyAssumption DEF MaxAttempts, ValidPolicy
<1>2. Init => RetryBudgetRespected
  BY <1>1 DEF Init, RetryBudgetRespected
<1>3. IInv /\ RetryBudgetRespected /\ [Next]_vars => RetryBudgetRespected'
  <2> SUFFICES ASSUME IInv, RetryBudgetRespected, [Next]_vars, NEW i \in Items
               PROVE  Len(attempts'[i]) <= MaxAttempts
    BY <1>1 DEF RetryBudgetRespected, MaxAttempts
  <2>1. Len(attempts[i]) \in Nat
    BY DEF IInv, TypeOK
  <2> QED BY <1>1, <2>1, AttemptsAfter DEF RetryBudgetRespected, BudgetLeft
<1> QED BY <1>2, <1>3, Invariance, PTL DEF Spec

(* The attempt history is append-only, and what is over stays as it ended. *)
THEOREM HistoryIsFinal == Spec => AttemptHistoryIsFinal
<1>1. IInv /\ [Next]_vars =>
        [\A i \in Items : \A n \in DOMAIN attempts[i] :
            /\ n \in DOMAIN attempts'[i]
            /\ attempts[i][n] \in Terminal => attempts'[i][n] = attempts[i][n]
            /\ attempts[i][n] = "submitted" =>
                  attempts'[i][n] \in {"submitted", "completed", "failed", "cancelled"}]_vars
  BY AttemptsAfter DEF Verdicts
<1> QED BY <1>1, Invariance, PTL DEF Spec, AttemptHistoryIsFinal

-----------------------------------------------------------------------------
(* The audit trail: the attempt of a lease that ended.                     *)

LeasesHaveAttempts ==
    \A l \in DOMAIN leases : leases[l].attempt \in DOMAIN attempts[leases[l].item]

(* A lease that ends tells what became of its attempt.                     *)
LEMMA EndTells ==
    ASSUME IInv, [Next]_vars, NEW l \in DOMAIN leases, leases[l].end = "open"
    PROVE  LET row == leases'[l] IN
           /\ l \in DOMAIN leases'
           /\ row.item = leases[l].item /\ row.attempt = leases[l].attempt
           /\ row.end # "open" =>
                 attempts'[row.item][row.attempt] \in OutcomesOf(row.kind, row.end)
<1> DEFINE i == leases[l].item
           n == leases[l].attempt
           goal == /\ l \in DOMAIN leases'
                   /\ leases'[l].item = i /\ leases'[l].attempt = n
                   /\ leases'[l].end # "open" =>
                         attempts'[i][n] \in OutcomesOf(leases'[l].kind, leases'[l].end)
<1>1. /\ leases \in [DOMAIN leases -> LeaseRows] /\ leases[l] \in LeaseRows
      /\ DOMAIN attempts = Items
  BY DEF IInv, TypeOK
<1>2. /\ i \in Items /\ n \in DOMAIN attempts[i]
      /\ leases[l].kind # "execution" => attempts[i][n] = "submitted"
  BY OpenLeaseAttempt
<1>3. CASE KeepsTables
  BY <1>3 DEF KeepsTables
<1>4. ASSUME NEW m \in DOMAIN leases, Closes(m)
      PROVE  goal
  <2>1. PICK reason \in EndReasons, expected \in AttemptStatuses,
             status \in Verdicts :
                /\ status \in OutcomesOf(leases[m].kind, reason)
                /\ CloseLease(m, reason, expected, status)
    BY <1>4 DEF Closes
  <2>2. CASE m = l
    <3>1. leases' = [leases EXCEPT ![l].end = reason]
      BY <2>1, <2>2 DEF CloseLease
    <3>2. attempts' = [attempts EXCEPT ![i][n] = status]
      BY <2>1, <2>2 DEF CloseLease
    <3>3. leases'[l] = [leases[l] EXCEPT !.end = reason]
      BY <3>1
    <3>4. /\ leases'[l].item = i /\ leases'[l].attempt = n
          /\ leases'[l].kind = leases[l].kind /\ leases'[l].end = reason
      BY <1>1, <3>3 DEF LeaseRows
    <3>5. attempts'[i][n] = status
      BY <1>1, <1>2, <3>2
    <3>6. l \in DOMAIN leases'
      BY <3>1
    <3> QED BY <2>1, <2>2, <3>4, <3>5, <3>6
  <2>3. CASE m # l
    BY <2>1, <2>3 DEF CloseLease
  <2> QED BY <2>2, <2>3
<1>5. ASSUME NEW m \in DOMAIN leases, ReleasesReview(m)
      PROVE  goal
  <2>1. /\ leases' = [leases EXCEPT ![m].end = "release"] /\ attempts' = attempts
        /\ leases[m].kind = "review"
    BY <1>5 DEF ReleasesReview
  <2>2. CASE m = l
    <3>1. leases'[l] = [leases[l] EXCEPT !.end = "release"]
      BY <2>1, <2>2
    <3>2. /\ leases'[l].item = i /\ leases'[l].attempt = n
          /\ leases'[l].kind = "review" /\ leases'[l].end = "release"
      BY <1>1, <2>1, <2>2, <3>1 DEF LeaseRows
    <3>3. attempts'[i][n] \in OutcomesOf("review", "release")
      BY <1>2, <2>1, <2>2, Stories DEF Verdicts
    <3> QED BY <2>1, <3>2, <3>3
  <2>3. CASE m # l
    BY <2>1, <2>3
  <2> QED BY <2>2, <2>3
<1>6. ASSUME NEW m \in DOMAIN leases, Renews(m)
      PROVE  goal
  <2>1. leases' = [leases EXCEPT ![m].expires = now + LeaseDuration]
    BY <1>6 DEF Renews
  <2>2. /\ leases'[l].item = i /\ leases'[l].attempt = n /\ leases'[l].end = "open"
        /\ l \in DOMAIN leases'
    BY <1>1, <2>1 DEF LeaseRows
  <2> QED BY <2>2
<1>7. CASE Expires
  <2>1. PICK ls \in SUBSET DOMAIN leases :
           /\ \A k \in ls : leases[k].end = "open"
           /\ ExpireLeases(ls)
    BY <1>7 DEF Expires
  <2>2. CASE l \in ls
    <3>1. leases'[l] = [leases[l] EXCEPT !.end = "lease_expiry"] /\ l \in DOMAIN leases'
      BY <2>1, <2>2 DEF ExpireLeases
    <3>2. /\ leases'[l].item = i /\ leases'[l].attempt = n
          /\ leases'[l].kind = leases[l].kind /\ leases'[l].end = "lease_expiry"
      BY <1>1, <3>1 DEF LeaseRows
    <3>3. CASE leases[l].kind = "execution"
      <4>1. attempts'[i][n] = "expired"
        BY <1>2, <2>1, <2>2, <3>3 DEF ExpireLeases
      <4> QED BY <3>1, <3>2, <3>3, <4>1, Stories
    <3>4. CASE leases[l].kind # "execution"
      <4>1. \A k \in ls : leases[k].item = i => k = l
        BY <2>1 DEF IInv, OwnershipConsistent, OneOwner
      <4>2. attempts'[i][n] = attempts[i][n]
        BY <1>2, <2>1, <3>4, <4>1 DEF ExpireLeases
      <4> QED BY <1>2, <3>1, <3>2, <3>4, <4>2, Stories DEF Verdicts
    <3> QED BY <3>3, <3>4
  <2>3. CASE l \notin ls
    BY <2>1, <2>3 DEF ExpireLeases
  <2> QED BY <2>2, <2>3
<1>8. ASSUME NEW j \in Items, NEW a \in Actors, NEW m \in LeaseIds \ DOMAIN leases,
             NEW kind, NEW k, NEW old, IssueLease(j, a, kind, k, m, old),
             old = l => /\ leases[l].kind = "execution" => attempts'[i][n] = "expired"
                        /\ leases[l].kind # "execution" => attempts' = attempts
      PROVE  goal
  <2>1. /\ l \in DOMAIN leases'
        /\ leases'[l] = IF l = old THEN [leases[l] EXCEPT !.end = "lease_expiry"] ELSE leases[l]
    BY <1>8 DEF IssueLease
  <2>2. CASE l # old
    BY <2>1, <2>2
  <2>3. CASE l = old
    <3>1. /\ leases'[l].item = i /\ leases'[l].attempt = n
          /\ leases'[l].kind = leases[l].kind /\ leases'[l].end = "lease_expiry"
      BY <1>1, <2>1, <2>3 DEF LeaseRows
    <3>2. attempts'[i][n] \in OutcomesOf(leases[l].kind, "lease_expiry")
      BY <1>2, <1>8, <2>3, Stories DEF Verdicts
    <3> QED BY <2>1, <3>1, <3>2
  <2> QED BY <2>2, <2>3
<1>9. ASSUME NEW j \in Items, NEW a \in Actors, NEW m \in LeaseIds \ DOMAIN leases,
             Starts(j, a, m)
      PROVE  goal
  <2>1. l # NoLease
    BY ModelAssumption DEF IInv, TypeOK
  <2> QED BY <1>8, <1>9, <2>1 DEF Starts
<1>10. ASSUME NEW j \in Items, NEW a \in Actors, NEW m \in LeaseIds \ DOMAIN leases,
              Restarts(j, a, m)
       PROVE  goal
  <2>1. PICK old \in ExpiredOpen(j, "execution") :
           /\ IssueLease(j, a, "execution", Len(attempts[j]) + 1, m, old)
           /\ attempts' = [attempts EXCEPT ![j] =
                 Append([@ EXCEPT ![leases[old].attempt] = "expired"], "running")]
    BY <1>10 DEF Restarts
  <2>2. ASSUME old = l
        PROVE  attempts'[i][n] = "expired" /\ leases[l].kind = "execution"
    <3>1. j = i /\ leases[l].kind = "execution"
      BY <2>2 DEF ExpiredOpen, OpenLeases
    <3> DEFINE s == [attempts[i] EXCEPT ![n] = "expired"]
    <3>2. attempts[i] \in Seq(AttemptStatuses)
      BY <1>2 DEF IInv, TypeOK
    <3>3. s \in Seq(AttemptStatuses) /\ Len(s) = Len(attempts[i]) /\ s[n] = "expired"
      BY <1>2, <3>2 DEF AttemptStatuses
    <3>4. n \in 1 .. Len(s)
      BY <1>2, <3>2, <3>3
    <3>5. attempts'[i] = Append(s, "running")
      BY <1>1, <1>2, <2>1, <2>2, <3>1
    <3> HIDE DEF s
    <3>6. attempts'[i][n] = s[n]
      BY <3>3, <3>4, <3>5
    <3> QED BY <3>1, <3>3, <3>6
  <2> QED BY <1>8, <2>1, <2>2
<1>11. ASSUME NEW j \in Items, NEW a \in Actors, NEW m \in LeaseIds \ DOMAIN leases,
              Reviews(j, a, m)
       PROVE  goal
  <2>1. attempts' = attempts
    BY <1>11 DEF Reviews
  <2>2. PICK old \in ExpiredOpen(j, "review") \cup {NoLease} :
           IssueLease(j, a, "review", Len(attempts[j]), m, old)
    BY <1>11 DEF Reviews
  <2>3. old = l => leases[l].kind = "review"
    BY ModelAssumption DEF ExpiredOpen, IInv, TypeOK
  <2> QED BY <1>8, <2>1, <2>2, <2>3
<1>12. goal
  BY <1>3, <1>4, <1>5, <1>6, <1>7, <1>9, <1>10, <1>11, NextIsTableStep DEF TableStep
<1> QED BY <1>12

LEMMA NewIsOpen ==
    ASSUME IInv, [Next]_vars, NEW l \in DOMAIN leases' \ DOMAIN leases
    PROVE  leases'[l].end = "open"
<1>1. ~KeepsTables
  BY DEF KeepsTables
<1>2. ASSUME NEW m \in DOMAIN leases, Closes(m) \/ ReleasesReview(m) \/ Renews(m)
      PROVE  FALSE
  BY <1>2 DEF Closes, CloseLease, ReleasesReview, Renews
<1>3. ~Expires
  BY DEF Expires, ExpireLeases
<1>4. ASSUME NEW i \in Items, NEW a \in Actors, NEW m \in LeaseIds \ DOMAIN leases,
             Starts(i, a, m) \/ Restarts(i, a, m) \/ Reviews(i, a, m)
      PROVE  leases'[l].end = "open"
  <2>1. PICK old, kind, n : IssueLease(i, a, kind, n, m, old)
    BY <1>4 DEF Starts, Restarts, Reviews
  <2> QED BY <2>1 DEF IssueLease
<1> QED BY <1>1, <1>2, <1>3, <1>4, NextIsTableStep DEF TableStep

(* What goes with an end reason stays with it when a verdict falls.        *)
LEMMA StoriesLast ==
    ASSUME NEW kind \in LeaseKinds, NEW reason \in EndReasons
    PROVE  /\ "running" \notin OutcomesOf(kind, reason)
           /\ OutcomesOf(kind, reason) \subseteq AttemptStatuses
           /\ "submitted" \in OutcomesOf(kind, reason) => Verdicts \subseteq OutcomesOf(kind, reason)
BY DEF OutcomesOf, AttemptStatuses, Verdicts, EndReasons, LeaseKinds

LEMMA NextTells ==
    ASSUME IInv, LeasesHaveAttempts, ReasonMatchesOutcome, [Next]_vars
    PROVE  LeasesHaveAttempts' /\ ReasonMatchesOutcome'
<1>1. IInv' /\ leases \in [DOMAIN leases -> LeaseRows]
  BY NextIInv DEF IInv, TypeOK
<1>2. ASSUME NEW l \in DOMAIN leases'
      PROVE  LET row == leases'[l] IN
             /\ row.attempt \in DOMAIN attempts'[row.item]
             /\ row.end # "open" =>
                   attempts'[row.item][row.attempt] \in OutcomesOf(row.kind, row.end)
  <2>1. CASE l \in DOMAIN leases /\ leases[l].end # "open"
    <3> DEFINE i == leases[l].item
               n == leases[l].attempt
               S == OutcomesOf(leases[l].kind, leases[l].end)
    <3>1. /\ i \in Items /\ leases[l].kind \in LeaseKinds /\ leases[l].end \in EndReasons
      BY <1>1, <2>1 DEF LeaseRows
    <3>2. n \in DOMAIN attempts[i] /\ attempts[i][n] \in S
      BY <2>1 DEF LeasesHaveAttempts, ReasonMatchesOutcome
    <3>3. leases'[l] = leases[l]
      BY <2>1, LapsedStep
    <3>4. /\ n \in DOMAIN attempts'[i]
          /\ attempts[i][n] \in Terminal => attempts'[i][n] = attempts[i][n]
          /\ attempts[i][n] = "submitted" => attempts'[i][n] \in Verdicts
      BY <3>1, <3>2, AttemptsAfter
    <3>5. /\ attempts[i][n] # "running" /\ attempts[i][n] \in AttemptStatuses
          /\ attempts[i][n] = "submitted" => Verdicts \subseteq S
      BY <3>1, <3>2, StoriesLast
    <3>6. attempts'[i][n] \in S
      BY <3>2, <3>4, <3>5 DEF Terminal
    <3> QED BY <3>3, <3>4, <3>6
  <2>2. CASE l \in DOMAIN leases /\ leases[l].end = "open"
    <3>1. leases[l].item \in Items /\ leases[l].attempt \in DOMAIN attempts[leases[l].item]
      BY <2>2, OpenLeaseAttempt
    <3>2. leases[l].attempt \in DOMAIN attempts'[leases[l].item]
      BY <3>1, AttemptsAfter
    <3> QED BY <2>2, <3>2, EndTells
  <2>3. CASE l \notin DOMAIN leases
    <3>1. leases'[l].end = "open" /\ leases'[l] \in LeaseRows
      BY <1>1, <2>3, NewIsOpen DEF IInv, TypeOK
    <3>2. /\ leases'[l].attempt = Len(attempts'[leases'[l].item])
          /\ leases'[l].attempt \in Nat \ {0} /\ leases'[l].item \in Items
      BY <1>1, <3>1 DEF IInv, OwnershipConsistent, LeaseMatchesAttempt, LeaseRows
    <3>3. attempts'[leases'[l].item] \in Seq(AttemptStatuses)
      BY <1>1, <3>2 DEF IInv, TypeOK
    <3> QED BY <3>1, <3>2, <3>3
  <2> QED BY <2>1, <2>2, <2>3
<1> QED BY <1>2 DEF LeasesHaveAttempts, ReasonMatchesOutcome

(* The audit trail agrees with itself: why a lease ended and what became of *)
(* its attempt, written by two statements of every command, tell the same  *)
(* story for ever.                                                         *)
THEOREM AuditTrailAgrees == Spec => []ReasonMatchesOutcome
<1>1. Init => LeasesHaveAttempts /\ ReasonMatchesOutcome
  BY DEF Init, LeasesHaveAttempts, ReasonMatchesOutcome
<1>2. IInv /\ LeasesHaveAttempts /\ ReasonMatchesOutcome /\ [Next]_vars
        => LeasesHaveAttempts' /\ ReasonMatchesOutcome'
  BY NextTells
<1> QED BY <1>1, <1>2, Invariance, PTL DEF Spec

-----------------------------------------------------------------------------
(* Dependencies: only SetPlan writes the plan, and it checks for cycles.   *)

LEMMA NextAcyclic ==
    ASSUME Acyclic(plan), [Next]_vars
    PROVE  Acyclic(plan)'
<1>1. UNCHANGED plan \/ Acyclic(plan')
  <2>1. CASE UNCHANGED vars \/ Tick \/ Archival
    BY <2>1 DEF vars, Tick, Archival, ArchiveDocument, RestoreDocument, ArchiveWorkspace
  <2>2. CASE Claims
    <3>1. \A i, a, l : Claim(i, a, l) \/ ClaimReview(i, a, l) => UNCHANGED plan
      BY DEF Claim, ClaimReview
    <3>2. \A i, a, l : Reclaim(i, a, l) => UNCHANGED plan
      BY DEF Reclaim
    <3>3. \A i, a, l : Retry(i, a, l) => UNCHANGED plan
      BY DEF Retry
    <3> QED BY <2>2, <3>1, <3>2, <3>3 DEF Claims
  <2>3. CASE Fenced
    <3>1. \A i, l : RequestReview(i, l) \/ Reject(i, l) => UNCHANGED plan
      BY DEF RequestReview, Reject
    <3>2. \A i, l, kind : Heartbeat(i, l, kind) => UNCHANGED plan
      BY DEF Heartbeat
    <3>3. \A i, l, to : ReleaseExecution(i, l, to) \/ Complete(i, l, to) \/ Approve(i, l, to)
                         => UNCHANGED plan
      BY DEF ReleaseExecution, Complete, Approve
    <3>4. \A i, l, to : ReleaseReview(i, l, to) => UNCHANGED plan
      BY DEF ReleaseReview
    <3>5. \A i, l, kind, to : TransitionLeased(i, l, kind, to) => UNCHANGED plan
      BY DEF TransitionLeased
    <3>6. \A i, who, l, kind : Reassign(i, who, l, kind) => UNCHANGED plan
      BY DEF Reassign
    <3>7. \A i, p, l, kind : EditPlanLeased(i, p, l, kind) => Acyclic(plan')
      BY DEF EditPlanLeased, SetPlan
    <3> QED BY <2>3, <3>1, <3>2, <3>3, <3>4, <3>5, <3>6, <3>7 DEF Fenced
  <2>4. CASE Unfenced
    BY <2>4 DEF Unfenced, BookkeepExpired, TransitionUnleased, Assign, EditPlanUnleased, SetPlan
  <2>5. CASE RawImport
    BY <2>5 DEF RawImport, RawImportUnleased, RawImportLeased, RawChange, SetPlan
  <2> QED BY <2>1, <2>2, <2>3, <2>4, <2>5 DEF Next, StructuredNext
<1> QED BY <1>1 DEF Acyclic

LEMMA AcyclicUnblocks ==
    ASSUME TypeOK, Acyclic(plan)
    PROVE  SomeItemIsUnblocked
<1> DEFINE S == {i \in Items : state[i] \notin SuccessfulStates}
<1>1. ASSUME S # {}
      PROVE  \E i \in S : DependenciesDone(i)
  <2>1. PICK i \in S : plan[i].needs \cap S = {}
    BY <1>1 DEF Acyclic
  <2>2. plan[i].needs \subseteq Items
    BY ModelAssumption DEF TypeOK
  <2> QED BY <2>1, <2>2 DEF DependenciesDone
<1> QED BY <1>1 DEF SomeItemIsUnblocked

(* The queue never waits on itself, whatever order dependencies were       *)
(* edited or imported in and however many items there are.                 *)
THEOREM QueueNeverBlocksItself == Spec => []SomeItemIsUnblocked
<1>1. Init => Acyclic(plan)
  BY DEF Init
<1>2. Acyclic(plan) /\ [Next]_vars => Acyclic(plan)'
  BY NextAcyclic
<1>3. TypeOK /\ Acyclic(plan) => SomeItemIsUnblocked
  BY AcyclicUnblocks
<1> QED BY <1>1, <1>2, <1>3, TypeCorrect, PTL DEF Spec

-----------------------------------------------------------------------------
(***************************************************************************)
(* Successful work was earned.  That review is not bypassed holds of the    *)
(* structured commands under every policy; that success always has a       *)
(* completed attempt behind it needs a policy that keeps successful states *)
(* apart from the others (SuccessIsDistinct).                              *)
(***************************************************************************)

-----------------------------------------------------------------------------
(* How an item becomes successful.                                         *)

(* Without an approval no review item may be moved to a successful state.  *)
LEMMA NeedsApproval ==
    ASSUME NEW i \in ReviewItems, NEW to, Allowed(i, to, FALSE)
    PROVE  to \notin SuccessfulStates
  BY DEF Allowed, TransitionAllowed

LEMMA ApprovalCloses ==
    /\ ClosesLease("approval")
    /\ \A fromReview : AttemptBefore("approval", fromReview) = "submitted"
    /\ AttemptAfter("approval") = "completed"
    /\ AttemptAfter("completion") = "completed"
  BY DEF ClosesLease, AttemptBefore, AttemptAfter

ApprovedUnder(i, l) ==
    /\ l \in OpenLeases(i) /\ presented' = l /\ leases[l].kind = "review"
    /\ CloseLease(l, "approval", "submitted", "completed")

(* A submitted attempt is closed under a review lease.                     *)
LEMMA SubmittedIsReviewed ==
    ASSUME IInv, NEW i, NEW l \in DOMAIN leases, NEW kind, ProofHolds(i, l, kind),
           NEW reason, NEW status, CloseLease(l, reason, "submitted", status)
    PROVE  l \in OpenLeases(i) /\ leases[l].kind = "review"
<1>1. leases[l].item = i /\ leases[l].end = "open"
  BY DEF ProofHolds
<1>2. attempts[leases[l].item][leases[l].attempt] = "submitted"
  BY DEF CloseLease
<1>3. leases[l].kind \in LeaseKinds /\ leases[l].kind # "execution"
  BY <1>1, <1>2, OpenLeaseAttempt
<1> QED BY <1>1, <1>3 DEF OpenLeases, LeaseKinds

Succeeds(i) == state[i] \notin SuccessfulStates /\ state'[i] \in SuccessfulStates

(* A step that sets the state of one item changes that of no other.        *)
LEMMA SetsItsOwn ==
    ASSUME IInv, NEW i \in Items, NEW j \in Items, NEW to, SetState(j, to), Succeeds(i)
    PROVE  i = j /\ to \in SuccessfulStates
  BY DEF SetState, Succeeds, IInv, TypeOK

(* Of the structured commands only these write the state of an item.       *)
LEMMA Movers ==
    ASSUME IInv, NEW i \in Items, StructuredNext, Succeeds(i)
    PROVE  \/ \E a \in Actors, l \in LeaseIds : Claim(i, a, l) \/ Retry(i, a, l)
           \/ \E target \in States : TransitionUnleased(i, target)
           \/ \E l \in DOMAIN leases :
                 \/ RequestReview(i, l) \/ Reject(i, l)
                 \/ \E who \in Actors \cup {Nobody}, kind \in LeaseKinds :
                       Reassign(i, who, l, kind)
                 \/ \E target \in States :
                       \/ ReleaseExecution(i, l, target)
                       \/ ReleaseReview(i, l, target)
                       \/ Complete(i, l, target)
                       \/ Approve(i, l, target)
                       \/ \E kind \in LeaseKinds : TransitionLeased(i, l, kind, target)
<1>1. state' # state
  BY DEF Succeeds
<1>2. ~Tick /\ ~Archival
  BY <1>1 DEF Tick, Archival, ArchiveDocument, RestoreDocument, ArchiveWorkspace
<1>3. ASSUME NEW j \in Items, NEW a \in Actors, NEW l \in LeaseIds
      PROVE  /\ ~Reclaim(j, a, l) /\ ~ClaimReview(j, a, l)
             /\ Claim(j, a, l) \/ Retry(j, a, l) => i = j
  BY <1>1, SetsItsOwn DEF Claim, Reclaim, ClaimReview, Retry
<1>4. ASSUME NEW j \in Items
      PROVE  /\ ~BookkeepExpired(j)
             /\ \A who : ~Assign(j, who)
             /\ \A p : ~EditPlanUnleased(j, p)
             /\ \A target : TransitionUnleased(j, target) => i = j
  BY <1>1, SetsItsOwn DEF BookkeepExpired, Assign, EditPlanUnleased, TransitionUnleased
<1>5. ASSUME NEW j \in Items, NEW l \in DOMAIN leases
      PROVE  /\ \A kind : ~Heartbeat(j, l, kind)
             /\ \A p, kind : ~EditPlanLeased(j, p, l, kind)
             /\ RequestReview(j, l) \/ Reject(j, l) => i = j
             /\ \A who, kind : Reassign(j, who, l, kind) => i = j
             /\ \A target : ReleaseExecution(j, l, target) => i = j
             /\ \A target : ReleaseReview(j, l, target) => i = j
             /\ \A target : Complete(j, l, target) => i = j
             /\ \A target : Approve(j, l, target) => i = j
             /\ \A kind, target : TransitionLeased(j, l, kind, target) => i = j
  <2>1. \A kind : ~Heartbeat(j, l, kind)
    BY <1>1 DEF Heartbeat
  <2>2. \A p, kind : ~EditPlanLeased(j, p, l, kind)
    BY <1>1 DEF EditPlanLeased
  <2>3. RequestReview(j, l) \/ Reject(j, l) => i = j
    BY SetsItsOwn DEF RequestReview, Reject
  <2>4. \A who, kind : Reassign(j, who, l, kind) => i = j
    BY SetsItsOwn DEF Reassign
  <2>5. \A target : ReleaseExecution(j, l, target) => i = j
    BY SetsItsOwn DEF ReleaseExecution
  <2>6. \A target : ReleaseReview(j, l, target) => i = j
    BY <1>1, SetsItsOwn DEF ReleaseReview
  <2>7. \A target : Complete(j, l, target) => i = j
    BY SetsItsOwn DEF Complete
  <2>8. \A target : Approve(j, l, target) => i = j
    BY SetsItsOwn DEF Approve
  <2>9. \A kind, target : TransitionLeased(j, l, kind, target) => i = j
    BY SetsItsOwn DEF TransitionLeased
  <2> QED BY <2>1, <2>2, <2>3, <2>4, <2>5, <2>6, <2>7, <2>8, <2>9
<1>6. CASE Claims
  BY <1>3, <1>6 DEF Claims
<1>7. CASE Fenced
  BY <1>5, <1>7 DEF Fenced
<1>8. CASE Unfenced
  BY <1>4, <1>8 DEF Unfenced
<1> QED BY <1>2, <1>6, <1>7, <1>8 DEF StructuredNext

(* Work that needs review: the reviewer's verdict, on a submitted attempt. *)
LEMMA ReviewedSuccess ==
    ASSUME IInv, NEW i \in ReviewItems, StructuredNext, Succeeds(i)
    PROVE  \E l \in DOMAIN leases : ApprovedUnder(i, l)
<1>1. i \in Items
  BY ModelAssumption
<1>2. ASSUME NEW to, SetState(i, to)
      PROVE  ~Allowed(i, to, FALSE)
  BY <1>1, <1>2, SetsItsOwn, NeedsApproval
<1>3. ASSUME NEW a \in Actors, NEW l \in LeaseIds, Claim(i, a, l) \/ Retry(i, a, l)
      PROVE  FALSE
  BY <1>2, <1>3 DEF Claim, Retry
<1>4. ASSUME NEW target \in States, TransitionUnleased(i, target)
      PROVE  FALSE
  BY <1>2, <1>4 DEF TransitionUnleased
<1>5. ASSUME NEW l \in DOMAIN leases, RequestReview(i, l) \/ Reject(i, l)
      PROVE  FALSE
  BY <1>2, <1>5 DEF RequestReview, Reject
<1>6. ASSUME NEW l \in DOMAIN leases, NEW who, NEW kind, Reassign(i, who, l, kind)
      PROVE  FALSE
  BY <1>2, <1>6 DEF Reassign
<1>7. ASSUME NEW l \in DOMAIN leases, NEW target \in States,
             \/ ReleaseExecution(i, l, target) \/ ReleaseReview(i, l, target)
             \/ Complete(i, l, target)
      PROVE  FALSE
  <2>1. ~ReleaseExecution(i, l, target)
    BY <1>2 DEF ReleaseExecution
  <2>2. ~ReleaseReview(i, l, target)
    BY <1>2 DEF ReleaseReview, Succeeds
  <2>3. ~Complete(i, l, target)
    BY DEF Complete
  <2> QED BY <1>7, <2>1, <2>2, <2>3
<1>8. ASSUME NEW l \in DOMAIN leases, NEW target \in States, Approve(i, l, target)
      PROVE  ApprovedUnder(i, l)
  BY <1>8, SubmittedIsReviewed DEF Approve, ApprovedUnder
<1>9. ASSUME NEW l \in DOMAIN leases, NEW kind \in LeaseKinds, NEW target \in States,
             TransitionLeased(i, l, kind, target)
      PROVE  ApprovedUnder(i, l)
  <2> DEFINE lifecycle == Lifecycle(state[i], target)
  <2>1. /\ ProofHolds(i, l, kind) /\ presented' = l /\ SetState(i, target)
        /\ Allowed(i, target, lifecycle = "approval")
        /\ ClosesLease(lifecycle) =>
              CloseLease(l, lifecycle, AttemptBefore(lifecycle, state[i] = ReviewState),
                         AttemptAfter(lifecycle))
    BY <1>9 DEF TransitionLeased
  <2>2. target \in SuccessfulStates
    BY <1>1, <2>1, SetsItsOwn
  <2>3. lifecycle = "approval"
    BY <2>1, <2>2 DEF Allowed, TransitionAllowed
  <2> HIDE DEF lifecycle
  <2>4. CloseLease(l, "approval", "submitted", "completed")
    BY <2>1, <2>3, ApprovalCloses
  <2> QED BY <2>1, <2>4, SubmittedIsReviewed DEF ApprovedUnder
<1> QED BY <1>1, <1>3, <1>4, <1>5, <1>6, <1>7, <1>8, <1>9, Movers

(* Review-required work becomes successful only by the verdict of the      *)
(* reviewer that holds it: for every policy and any number of agents.      *)
THEOREM ReviewIsRespected == StructuredSpec => ReviewIsNotBypassed
<1>1. StructuredInit => Init
  BY DEF StructuredInit
<1>2. [StructuredNext]_vars => [Next]_vars
  BY DEF Next
<1>3. IInv /\ [StructuredNext]_vars =>
        [\A i \in ReviewItems :
            state[i] \notin SuccessfulStates /\ state'[i] \in SuccessfulStates
            => /\ presented' \in OpenLeases(i)
               /\ leases[presented'].kind = "review"]_vars
  BY ReviewedSuccess DEF ApprovedUnder, Succeeds
<1> QED
  BY <1>1, <1>2, <1>3, InitIInv, NextIInv, PTL DEF StructuredSpec, ReviewIsNotBypassed

-----------------------------------------------------------------------------
(* Success under a policy with SuccessIsDistinct.                          *)

ReleasedStates == {RunningState, ReviewState, ReleaseState, ReviewRejectionState}

LEMMA NotSuccessful ==
    ASSUME SuccessIsDistinct
    PROVE  /\ ReleasedStates \cap SuccessfulStates = {}
           /\ \A s \in {InitialState} \cup ExecutableStates : s \notin SuccessfulStates
  BY PolicyAssumption DEF SuccessIsDistinct, ValidPolicy, ReleasedStates

CompletedUnder(i, l) ==
    /\ l \in OpenLeases(i)
    /\ \E reason, expected : CloseLease(l, reason, expected, "completed")

(* Other work: the holder of a lease completes its attempt.                *)
LEMMA PlainSuccess ==
    ASSUME SuccessIsDistinct, IInv, NEW i \in Items, StructuredNext, Succeeds(i)
    PROVE  \E l \in DOMAIN leases : CompletedUnder(i, l)
<1>1. ASSUME NEW to, SetState(i, to)
      PROVE  to \in SuccessfulStates
  BY <1>1, SetsItsOwn
<1>2. \A to \in ReleasedStates : ~SetState(i, to)
  BY <1>1, NotSuccessful
<1>3. ASSUME NEW to, NEW approved, SetState(i, to), Allowed(i, to, approved)
      PROVE  state[i] \in {RunningState, ReviewState}
  <2>1. state[i] \in States /\ <<state[i], to>> \in Transitions
    BY <1>3 DEF IInv, TypeOK, Allowed, TransitionAllowed
  <2> QED BY <1>1, <1>3, <2>1 DEF SuccessIsDistinct
<1>4. ASSUME NEW l \in DOMAIN leases, NEW kind, ProofHolds(i, l, kind)
      PROVE  l \in OpenLeases(i)
  BY <1>4 DEF ProofHolds, OpenLeases
<1>5. ASSUME NEW a \in Actors, NEW l \in LeaseIds, Claim(i, a, l) \/ Retry(i, a, l)
      PROVE  FALSE
  BY <1>2, <1>5 DEF Claim, Retry, ReleasedStates
<1>6. ASSUME NEW target \in States, TransitionUnleased(i, target)
      PROVE  FALSE
  BY <1>3, <1>6 DEF TransitionUnleased
<1>7. ASSUME NEW l \in DOMAIN leases, RequestReview(i, l) \/ Reject(i, l)
      PROVE  FALSE
  BY <1>2, <1>7 DEF RequestReview, Reject, ReleasedStates
<1>8. ASSUME NEW l \in DOMAIN leases, NEW who, NEW kind, Reassign(i, who, l, kind)
      PROVE  FALSE
  BY <1>2, <1>8 DEF Reassign, RecoveryOf, ReleasedStates
<1>9. ASSUME NEW l \in DOMAIN leases, NEW target \in States,
             ReleaseExecution(i, l, target) \/ ReleaseReview(i, l, target)
      PROVE  FALSE
  BY <1>1, <1>9 DEF ReleaseExecution, ReleaseReview, Succeeds
<1>10. ASSUME NEW l \in DOMAIN leases, NEW target \in States,
              Complete(i, l, target) \/ Approve(i, l, target)
       PROVE  CompletedUnder(i, l)
  BY <1>4, <1>10 DEF Complete, Approve, CompletedUnder
<1>11. ASSUME NEW l \in DOMAIN leases, NEW kind \in LeaseKinds, NEW target \in States,
              TransitionLeased(i, l, kind, target)
       PROVE  CompletedUnder(i, l)
  <2> DEFINE lifecycle == Lifecycle(state[i], target)
  <2>1. /\ ProofHolds(i, l, kind) /\ SetState(i, target)
        /\ Allowed(i, target, lifecycle = "approval")
        /\ ClosesLease(lifecycle) =>
              CloseLease(l, lifecycle, AttemptBefore(lifecycle, state[i] = ReviewState),
                         AttemptAfter(lifecycle))
    BY <1>11 DEF TransitionLeased
  <2>2. target \in SuccessfulStates /\ state[i] \in {RunningState, ReviewState}
    BY <1>1, <1>3, <2>1
  <2>3. lifecycle \in {"approval", "completion"}
    BY <2>2 DEF Lifecycle, SuccessIsDistinct
  <2> HIDE DEF lifecycle
  <2>4. ClosesLease(lifecycle) /\ AttemptAfter(lifecycle) = "completed"
    BY <2>3, ApprovalCloses DEF ClosesLease
  <2>5. l \in OpenLeases(i)
    BY <1>4, <2>1
  <2> QED BY <2>1, <2>4, <2>5 DEF CompletedUnder
<1> QED BY <1>5, <1>6, <1>7, <1>8, <1>9, <1>10, <1>11, Movers

-----------------------------------------------------------------------------
(* Success lasts as it was earned: nobody holds the item, so that nothing  *)
(* may be written to its attempts.                                         *)
Earned(i) ==
    /\ OpenLeases(i) = {}
    /\ attempts[i] # <<>> /\ attempts[i][Len(attempts[i])] = "completed"
    /\ i \in ReviewItems => \E l \in DOMAIN leases :
          /\ leases[l].item = i /\ leases[l].attempt = Len(attempts[i])
          /\ leases[l].kind = "review" /\ leases[l].end = "approval"

EarnedOK == \A i \in Items : state[i] \in SuccessfulStates => Earned(i)

LEMMA OnlyClaimsIssue ==
    ASSUME IInv, [StructuredNext]_vars, ~Claims
    PROVE  DOMAIN leases' = DOMAIN leases
<1>1. CASE UNCHANGED vars
  BY <1>1 DEF vars
<1>2. CASE Tick \/ Archival
  BY <1>2 DEF Tick, Archival, ArchiveDocument, RestoreDocument, ArchiveWorkspace, ExpireLeases
<1>3. CASE Unfenced
  BY <1>3 DEF Unfenced, BookkeepExpired, TransitionUnleased, Assign, EditPlanUnleased, ExpireLeases
<1>4. ASSUME NEW i \in Items, NEW l \in DOMAIN leases,
             ClosesLeaseOf(i, l) \/ KeepsTables
      PROVE  DOMAIN leases' = DOMAIN leases
  BY <1>4 DEF ClosesLeaseOf, Closes, CloseLease, ReleasesReview, Renews, KeepsTables
<1>5. ASSUME NEW i \in Items, NEW l \in DOMAIN leases, NEW p, NEW kind,
             EditPlanLeased(i, p, l, kind)
      PROVE  KeepsTables
  BY <1>5 DEF EditPlanLeased, KeepsTables
<1>6. CASE Fenced
  BY <1>4, <1>5, <1>6, FencedSteps, TransitionStep, ReassignStep DEF Fenced
<1> QED BY <1>1, <1>2, <1>3, <1>6 DEF StructuredNext

(* A claim needs its item in a state from which work starts.               *)
LEMMA ClaimsNeedWork ==
    ASSUME SuccessIsDistinct, IInv, Claims, NEW i \in Items, state[i] \in SuccessfulStates
    PROVE  /\ attempts'[i] = attempts[i]
           /\ \A l \in DOMAIN leases' \ DOMAIN leases : leases'[l].item # i
<1>1. PICK j \in Items, a \in Actors, m \in LeaseIds :
         Claim(j, a, m) \/ Reclaim(j, a, m) \/ ClaimReview(j, a, m) \/ Retry(j, a, m)
  BY DEF Claims
<1>2. state[j] \in ExecutableStates \cup {RunningState, ReviewState, FailedState}
  BY <1>1 DEF Claim, Reclaim, ClaimReview, Retry
<1>3. j # i
  BY <1>2 DEF SuccessIsDistinct
<1>4. \E kind, n, old : IssueLease(j, a, kind, n, m, old)
  BY <1>1 DEF Claim, Reclaim, ClaimReview, Retry
<1>5. attempts' = attempts \/ \E s : attempts' = [attempts EXCEPT ![j] = s]
  BY <1>1 DEF Claim, Reclaim, ClaimReview, Retry
<1>6. attempts'[i] = attempts[i]
  BY <1>3, <1>5 DEF IInv, TypeOK
<1>7. \A l \in DOMAIN leases' \ DOMAIN leases : leases'[l].item = j
  BY <1>4 DEF IssueLease
<1> QED BY <1>3, <1>6, <1>7

(* Where no lease is open and none is issued, the attempts stay.           *)
LEMMA UnheldAttemptsStay ==
    ASSUME IInv, [Next]_vars, DOMAIN leases' = DOMAIN leases,
           NEW i \in Items, OpenLeases(i) = {}
    PROVE  attempts'[i] = attempts[i]
<1>1. /\ attempts \in [Items -> Seq(AttemptStatuses)]
      /\ leases \in [DOMAIN leases -> LeaseRows]
  BY DEF IInv, TypeOK
<1>2. CASE KeepsTables
  BY <1>2 DEF KeepsTables
<1>3. ASSUME NEW l \in DOMAIN leases, leases[l].end = "open",
             Closes(l) \/ ReleasesReview(l) \/ Renews(l)
      PROVE  attempts'[i] = attempts[i]
  <2>1. leases[l].item # i
    BY <1>3 DEF OpenLeases
  <2> QED BY <1>1, <1>3, <2>1 DEF Closes, CloseLease, ReleasesReview, Renews
<1>4. CASE Expires
  <2>1. PICK ls \in SUBSET DOMAIN leases :
           (\A l \in ls : leases[l].end = "open") /\ ExpireLeases(ls)
    BY <1>4 DEF Expires
  <2>2. \A l \in ls : leases[l].item # i
    BY <2>1 DEF OpenLeases
  <2>3. attempts'[i] = [n \in DOMAIN attempts[i] |-> attempts[i][n]]
    BY <2>1, <2>2 DEF ExpireLeases
  <2> QED BY <1>1, <2>3
<1>5. ASSUME NEW j \in Items, NEW a \in Actors, NEW m \in LeaseIds \ DOMAIN leases,
             Starts(j, a, m) \/ Restarts(j, a, m) \/ Reviews(j, a, m)
      PROVE  FALSE
  <2>1. \E kind, n, old : IssueLease(j, a, kind, n, m, old)
    BY <1>5 DEF Starts, Restarts, Reviews
  <2> QED BY <2>1 DEF IssueLease
<1> QED BY <1>2, <1>3, <1>4, <1>5, NextIsTableStep DEF TableStep

LEMMA EarnedStays ==
    ASSUME SuccessIsDistinct, IInv, [StructuredNext]_vars, NEW i \in Items,
           state[i] \in SuccessfulStates, Earned(i)
    PROVE  Earned(i)'
<1>1. [Next]_vars
  BY DEF Next
<1>2. attempts'[i] = attempts[i]
  BY <1>1, ClaimsNeedWork, OnlyClaimsIssue, UnheldAttemptsStay DEF Earned
<1>3. \A l \in DOMAIN leases' \ DOMAIN leases : leases'[l].item # i
  BY ClaimsNeedWork, OnlyClaimsIssue
<1>4. \A l \in DOMAIN leases : leases[l].end # "open" =>
          l \in DOMAIN leases' /\ leases'[l] = leases[l]
  BY <1>1, LapsedStep
<1>5. \A l \in DOMAIN leases : leases[l].end = "open" =>
          leases[l].item # i /\ leases'[l].item = leases[l].item
  BY <1>1, EndTells DEF Earned, OpenLeases
<1>6. OpenLeases(i)' = {}
  BY <1>3, <1>4, <1>5 DEF OpenLeases
<1> QED BY <1>2, <1>4, <1>6 DEF Earned

LEMMA SuccessIsEarned ==
    ASSUME SuccessIsDistinct, IInv, StructuredNext, NEW i \in Items, Succeeds(i)
    PROVE  Earned(i)'
<1>1. PICK l \in DOMAIN leases :
         /\ CompletedUnder(i, l)
         /\ i \in ReviewItems => ApprovedUnder(i, l)
  BY PlainSuccess, ReviewedSuccess DEF ApprovedUnder, CompletedUnder
<1>2. PICK reason, expected : /\ CloseLease(l, reason, expected, "completed")
                              /\ i \in ReviewItems => reason = "approval" /\ leases[l].kind = "review"
  BY <1>1 DEF CompletedUnder, ApprovedUnder
<1> DEFINE n == leases[l].attempt
<1>3. leases[l].end = "open" /\ leases[l].item = i
  BY <1>1 DEF CompletedUnder, OpenLeases
<1>4. /\ n \in DOMAIN attempts[i] /\ n = Len(attempts[i])
      /\ attempts[i] \in Seq(AttemptStatuses) /\ DOMAIN attempts = Items
      /\ leases[l] \in LeaseRows
  BY <1>3, OpenLeaseAttempt DEF IInv, TypeOK
<1>5. /\ attempts' = [attempts EXCEPT ![i][n] = "completed"]
      /\ leases' = [leases EXCEPT ![l].end = reason]
  BY <1>2, <1>3 DEF CloseLease
<1>6. /\ Len(attempts'[i]) = n /\ attempts'[i][n] = "completed" /\ attempts'[i] # <<>>
  <2>1. attempts'[i] = [attempts[i] EXCEPT ![n] = "completed"]
    BY <1>4, <1>5
  <2> QED BY <1>4, <2>1
<1>7. /\ leases'[l].item = i /\ leases'[l].attempt = n
      /\ leases'[l].kind = leases[l].kind /\ leases'[l].end = reason
      /\ l \in DOMAIN leases'
  BY <1>3, <1>4, <1>5 DEF LeaseRows
<1>8. reason # "open"
  <2>1. IInv'
    BY NextIInv DEF Next
  <2>2. attempts'[i][n] # "running" /\ attempts'[i][n] # "submitted"
    BY <1>6
  <2> QED BY <1>7, <2>1, <2>2 DEF IInv, OwnershipConsistent, LeaseMatchesAttempt
<1>9. OpenLeases(i)' = {}
  <2>1. \A m \in DOMAIN leases \ {l} : m \notin OpenLeases(i)
    BY <1>3 DEF OpenLeases, IInv, OwnershipConsistent, OneOwner
  <2>2. \A m \in DOMAIN leases \ {l} : leases'[m] = leases[m]
    BY <1>5
  <2> QED BY <1>5, <1>7, <1>8, <2>1, <2>2 DEF OpenLeases
<1> QED BY <1>2, <1>6, <1>7, <1>9 DEF Earned

LEMMA EarnedNext ==
    ASSUME SuccessIsDistinct, IInv, EarnedOK, [StructuredNext]_vars
    PROVE  EarnedOK'
<1> SUFFICES ASSUME NEW i \in Items, state'[i] \in SuccessfulStates
             PROVE  Earned(i)'
  BY DEF EarnedOK
<1>1. CASE state[i] \in SuccessfulStates
  BY <1>1, EarnedStays DEF EarnedOK
<1>2. CASE state[i] \notin SuccessfulStates
  <2>1. StructuredNext
    BY <1>2 DEF vars
  <2> QED BY <1>2, <2>1, SuccessIsEarned DEF Succeeds
<1> QED BY <1>1, <1>2

(* Successful work has a completed attempt behind it and, where review is  *)
(* required, a reviewer's approval of that very attempt.                   *)
THEOREM SuccessWasEarned ==
    ASSUME SuccessIsDistinct
    PROVE  StructuredSpec => []CompletionIsEarned
<1>1. StructuredInit => Init /\ EarnedOK
  BY NotSuccessful DEF StructuredInit, EarnedOK
<1>2. [StructuredNext]_vars => [Next]_vars
  BY DEF Next
<1>3. IInv /\ EarnedOK /\ [StructuredNext]_vars => EarnedOK'
  BY EarnedNext
<1>4. EarnedOK => CompletionIsEarned
  BY DEF EarnedOK, Earned, CompletionIsEarned, LastStatus
<1> QED BY <1>1, <1>2, <1>3, <1>4, InitIInv, NextIInv, PTL DEF StructuredSpec
=============================================================================
