----------------------------- MODULE MCSyncTasks -----------------------------
(***************************************************************************)
(* Instances of SyncTasks for model checking.                              *)
(***************************************************************************)
EXTENDS SyncTasks

CONSTANTS a, b

EachOnce(events, some) ==
    [events |-> events, troubles |-> [t \in Troubles |-> IF t \in some THEN 1 ELSE 0]]

Failures == {EachOnce({a, b}, {"cut", "crash", "death", "doubt", "refuse"}),
             EachOnce({a}, {"repeat", "cancel", "early", "doubt", "unread", "spoil"}),
             EachOnce({a}, {"refuse", "crash", "retry"})}
Sessions == {EachOnce({a, b}, {"cut", "doubt", "refuse", "early"})}

Both == {TRUE, FALSE}
Plain == {FALSE}
=============================================================================
