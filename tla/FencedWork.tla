----------------------------- MODULE FencedWork -----------------------------
(***************************************************************************)
(* What the lease machinery of the Org work queue promises: work is held   *)
(* by at most one fencing token at a time, held work changes only by the   *)
(* hand of its holder, a token that let go never comes back, and while the *)
(* workspace is frozen nothing is held.  How leases expire, what an        *)
(* attempt is and who may claim are not part of the promise.               *)
(***************************************************************************)
EXTENDS Naturals, FiniteSets

CONSTANTS Items, Tokens, NoToken, Limit

VARIABLES
    holder,    \* per item, the token that holds it or NoToken
    spent,     \* tokens that have ever held an item
    content,   \* per item, all that is stored of it
    frozen,    \* document or workspace archived
    presented  \* the token shown by the last step, or NoToken

vars == <<holder, spent, content, frozen, presented>>

Held == {i \in Items : holder[i] # NoToken}

Init ==
    /\ holder = [i \in Items |-> NoToken]
    /\ spent = {}
    /\ frozen = FALSE
    /\ presented = NoToken

OnlyTouches(i) == \A j \in Items \ {i} : content'[j] = content[j]

(* A fresh token takes an item nobody holds, within the limit.             *)
Acquire(i, t) ==
    /\ ~frozen
    /\ holder[i] = NoToken
    /\ t \notin spent
    /\ Cardinality(Held) < Limit
    /\ holder' = [holder EXCEPT ![i] = t]
    /\ spent' = spent \cup {t}
    /\ OnlyTouches(i)
    /\ presented' = NoToken
    /\ UNCHANGED frozen

(* The holder works on its item, and may let go of it in the same step.    *)
Work(i) ==
    /\ ~frozen
    /\ holder[i] # NoToken
    /\ holder' \in {holder, [holder EXCEPT ![i] = NoToken]}
    /\ presented' = holder[i]
    /\ OnlyTouches(i)
    /\ UNCHANGED <<spent, frozen>>

(* Time passes: some tokens lapse.                                         *)
Lapse ==
    /\ \A i \in Items : holder'[i] \in {holder[i], NoToken}
    /\ holder' = [i \in Items |-> holder'[i]]
    /\ presented' = NoToken
    /\ UNCHANGED <<spent, content, frozen>>

(* Work nobody holds is edited, or cleaned up, by anyone.                  *)
Tend ==
    /\ \A i \in Held : content'[i] = content[i]
    /\ presented' = NoToken
    /\ UNCHANGED <<holder, spent, frozen>>

(* Archive and restore: only while nothing is held.                        *)
Freeze ==
    /\ Held = {}
    /\ frozen' \in BOOLEAN
    /\ presented' = NoToken
    /\ UNCHANGED <<holder, spent>>

Next ==
    \/ \E i \in Items : Work(i) \/ \E t \in Tokens : Acquire(i, t)
    \/ Lapse \/ Tend \/ Freeze

Spec == Init /\ [][Next]_vars
=============================================================================
