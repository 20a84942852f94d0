-------------------------- MODULE MCOrgOperations --------------------------
(* Small instances of OrgOperations under the engineering default policy.  *)
EXTENDS OrgOperations, MCPolicy, TLC

CONSTANTS first

NoPlans == {[needs |-> {}, start |-> 0]}
FirstReviewed == {first}

Symmetry == Permutations(Actors) \cup Permutations(LeaseIds) \cup Permutations(Ops)
=============================================================================
