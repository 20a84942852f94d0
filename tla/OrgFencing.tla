---------------------------- MODULE OrgFencing ----------------------------
(* OrgLeases implements FencedWork: the holder of an item is its open,     *)
(* unexpired lease; its content is what the commands store of it.          *)
EXTENDS OrgLeases

HolderOf(i) ==
    IF HasActive(i) THEN CHOOSE l \in OpenLeases(i) : Unexpired(l) ELSE NoLease

Fencing == INSTANCE FencedWork WITH
    Tokens <- LeaseIds, NoToken <- NoLease, Limit <- ConcurrencyLimit,
    holder <- [i \in Items |-> HolderOf(i)],
    spent <- DOMAIN leases,
    content <- [i \in Items |-> <<state[i], assignee[i], plan[i], attempts[i]>>],
    frozen <- archived # "no"

(* Every command, expiry, import and archival, in any order, is a step the *)
(* fencing promise allows: one holder, its token only, never again.        *)
ImplementsFencedWork == Fencing!Spec
=============================================================================
