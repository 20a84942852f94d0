------------------------------ MODULE MCNoteSync ------------------------------
(* Instances of NoteSync for two nodes. *)
EXTENDS NoteSync, TLC

CONSTANTS active, trash

Tagged == [text |-> active, tagged |-> TRUE]
Plain  == [text |-> active, tagged |-> FALSE]
InTrash == [text |-> trash, tagged |-> TRUE]

\* What the nodes hold when synchronization is configured.
Start(one, other) == [n \in Nodes |-> IF n = 1 THEN one ELSE other]

EditsOnly       == [n \in Nodes |-> {"edit"}]
EditsAndPurges  == [n \in Nodes |-> {"edit", "purge"}]
PurgesAtOne     == [n \in Nodes |-> IF n = 1 THEN {"edit", "purge"} ELSE {}]
EverythingAtOne == [n \in Nodes |-> IF n = 1 THEN {"edit", "purge", "import", "rule", "profile"}
                                    ELSE {"edit", "purge", "rule"}]

Undisturbed(start, uses, edits) ==
    [start |-> start, uses |-> uses, times |-> {0}, edits |-> edits, losses |-> 0, drops |-> 0]

TwoOperations ==
    {Undisturbed(Start(one, Tagged), EverythingAtOne, 2) : one \in {Tagged, Plain}}
    \cup {Undisturbed(Start(Plain, Plain), EverythingAtOne, 2),
          Undisturbed(Start(InTrash, None), EverythingAtOne, 2)}

\* The wall clocks differ, and may be set back.  One operation, so no deletion
\* of a note that came dated ahead of its node's clock.
Drifting ==
    {[Undisturbed(Start(one, Tagged), [EverythingAtOne EXCEPT ![2] = {"edit"}], 1)
        EXCEPT !.times = {0, 1}] : one \in {None, Tagged}}

OneFailure ==
    UNION {{[Undisturbed(Start(one, None), EditsAndPurges, 2) EXCEPT !.drops = 1],
            [Undisturbed(Start(one, None), EditsOnly, 1) EXCEPT !.drops = 1, !.losses = 1]} :
           one \in {Tagged, Plain}}

LongHistory == {Undisturbed(Start(Tagged, None), PurgesAtOne, 4)}

Operations == TwoOperations \cup Drifting
==============================================================================
