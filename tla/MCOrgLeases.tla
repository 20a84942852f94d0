---------------------------- MODULE MCOrgLeases ----------------------------
(* Small instances of OrgLeases under the engineering default policy.      *)
EXTENDS OrgFencing, MCPolicy, TLC

CONSTANTS first, second

(* Plans an edit may give an item: none; either may wait for the other.    *)
NoPlans == {[needs |-> {}, start |-> 0]}
DependencyPlans == {[needs |-> n, start |-> 0] : n \in SUBSET {first, second}}
SchedulePlans == {[needs |-> {}, start |-> t] : t \in {0, 1}}

NothingReviewed == {}
FirstReviewed == {first}

(* What SuccessWasEarned asks of a policy, and the engineering default has. *)
ASSUME EngineeringAssumption == SuccessIsDistinct

Symmetry == Permutations(Actors) \cup Permutations(LeaseIds)
=============================================================================
