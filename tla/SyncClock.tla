------------------------------ MODULE SyncClock ------------------------------
(***************************************************************************)
(* The hybrid logical clock of note synchronization                        *)
(* (note-core/src/sync.rs).  A stamp is ordered by wall-clock milliseconds, *)
(* then by counter, then by the node that issued it.  The u64 counter is a  *)
(* natural number here: the code refuses to advance past its maximum.       *)
(***************************************************************************)
EXTENDS Naturals

CONSTANT Nodes     \* identities, ordered as the code orders node_id

ASSUME NodesAreOrdered == Nodes \subseteq Nat

Stamp == [millis : Nat, counter : Nat, node : Nodes]

Earlier(a, b) ==
    \/ a.millis < b.millis
    \/ a.millis = b.millis /\ a.counter < b.counter
    \/ a.millis = b.millis /\ a.counter = b.counter /\ a.node < b.node

AtMost(a, b) == a = b \/ Earlier(a, b)

Later(a, b) == IF Earlier(a, b) THEN b ELSE a

\* Mutant: a plain wall clock with a counter, blind to what was seen.
AdvanceBlind(own, now, seen, n) ==
    LET millis == IF own.millis < now THEN now ELSE own.millis
    IN [millis  |-> millis,
        counter |-> IF own.millis < now THEN 0 ELSE 1 + own.counter,
        node    |-> n]

\* Mutant: the counter does not move within a millisecond.
AdvanceStalls(own, now, seen, n) ==
    LET latest == IF own.millis < seen.millis THEN seen.millis ELSE own.millis
    IN [millis |-> IF latest < now THEN now ELSE latest, counter |-> 0, node |-> n]

\* Hlc::advance.  A caller that observes nothing passes its own clock: the
\* outcome is the same.
Advance(own, now, seen, n) ==
    LET latest == IF own.millis < seen.millis THEN seen.millis ELSE own.millis
        millis == IF latest < now THEN now ELSE latest
        mine   == IF own.millis = millis THEN own.counter ELSE 0
        theirs == IF seen.millis = millis THEN seen.counter ELSE 0
    IN [millis  |-> millis,
        counter |-> IF latest < now THEN 0
                    ELSE 1 + (IF mine < theirs THEN theirs ELSE mine),
        node    |-> n]
=============================================================================
