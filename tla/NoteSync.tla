------------------------------- MODULE NoteSync -------------------------------
(***************************************************************************)
(* Synchronization of one note between nodes that run                      *)
(* note-pipelines/src/sync.rs.  Every record the code keeps is keyed by the *)
(* note; only the clock is shared by the notes of a node, and other notes   *)
(* can only advance it.                                                     *)
(*                                                                         *)
(* The network holds a few events and acknowledgements for each node, may   *)
(* deliver them in any order and may lose them: a session that is dropped   *)
(* leaves its last frames undecided and the next one sends the current      *)
(* event again.  Each operation is one storage transaction, so one step.    *)
(*                                                                         *)
(* The content of a note stands for its snapshot and for the snapshot's     *)
(* hash: a text and whether it carries the label that the rule selects.     *)
(* Attachments are left out.                                               *)
(***************************************************************************)
EXTENDS SyncClock, FiniteSets

CONSTANTS Texts,      \* the texts a note may hold
          Trashed,    \* those of them that stand for a note in the trash
          None,       \* no record; as a content, no note
          Scenes,     \* what a behaviour starts from, and its bounds
          MaxInFlight \* bound: events, and acknowledgements, on their way to a node

ASSUME TrashAssumption == Trashed \subseteq Texts
ASSUME SceneAssumption ==
    Scenes \subseteq
        [start  : [Nodes -> [text : Texts, tagged : BOOLEAN] \cup {None}],
         uses   : [Nodes -> SUBSET {"edit", "import", "purge", "rule", "profile"}],
         times  : SUBSET Nat,   \* readings of the wall clocks, in milliseconds
         edits  : Nat,          \* local operations
         losses : Nat,          \* databases lost
         drops  : Nat]          \* frames lost

VARIABLES node,       \* what each node stores
          wire,       \* events sent to each node
          acks,       \* acknowledgements sent to each node
          missing,    \* descriptors a peer answered "missing" for
          left        \* the scene, with what is left of its bounds

vars == <<node, wire, acks, missing, left>>

Contents == [text : Texts, tagged : BOOLEAN]

Heads == [selected : BOOLEAN, version : Stamp, content : Contents \cup {None}]

Events == [id : [node : Nodes, nr : Nat], generation : Stamp, control : Stamp,
           version : Stamp, kind : {"attach", "snapshot", "detach", "purge", "fence"},
           content : Contents \cup {None}]

Members == [attached : BOOLEAN, event : Events]

ASSUME NoneAssumption == None \notin Contents \cup Heads \cup Members \cup Events

Head(selected, version, content) ==
    [selected |-> selected, version |-> version, content |-> content]

Event(id, generation, control, version, kind, content) ==
    [id |-> id, generation |-> generation, control |-> control,
     version |-> version, kind |-> kind, content |-> content]

----------------------------------------------------------------------------
(***************************************************************************)
(* Transaction steps: operators from a node's records to its next records. *)
(***************************************************************************)

Matches(s, content) == content # None /\ s.rule /\ content.tagged

Tick(s, seen, now) ==
    [s EXCEPT !.clock = Advance(s.clock, now, seen, s.clock.node)]

\* A fresh event id.
NewId(s) == [node |-> s.clock.node, nr |-> s.minted]

Attached(s) == s.member # None /\ s.member.attached
Closed(s)   == s.member # None /\ ~s.member.attached

\* The event becomes the association's current event and replaces whatever
\* was waiting to be sent.
Announce(s, generation, control, version, kind, content) ==
    LET event == Event(NewId(s), generation, control, version, kind, content)
    IN [s EXCEPT !.member  = [attached |-> kind \notin {"detach", "fence"}, event |-> event],
                 !.pending = event,
                 !.minted  = @ + 1]

\* capture_with_mode: what a local change of the note leaves for the peers.
\* updated is the note's own time stamp, used while it has no version yet.
CaptureNote(s, historical, reconcile, recreated, now, updated) ==
    LET old      == s.head
        fresh    == \/ recreated
                    \/ ~historical /\ (old = None \/ old.content # s.note)
        stamped  == IF ~fresh THEN s
                    ELSE Tick(s, IF old = None THEN s.clock ELSE old.version, now)
        version  == IF fresh THEN stamped.clock
                    ELSE IF old # None THEN old.version
                    ELSE [millis |-> updated, counter |-> 0, node |-> s.clock.node]
        selected == Matches(s, s.note)
        headed   == [stamped EXCEPT !.head = Head(selected, version, s.note)]
        opened   == Tick(headed, version, now)
        closing  == Tick(headed, headed.clock, now)
        stays    == /\ Closed(s)
                    /\ ~reconcile
                    /\ \/ historical
                       \/ selected /\ ~recreated /\ old # None /\ old.selected
    IN CASE stays -> headed
         [] ~stays /\ selected /\ Attached(s) /\ ~recreated ->
              Announce(headed, s.member.event.generation, s.member.event.control, version,
                       IF s.member.event.kind = "attach" THEN "attach" ELSE "snapshot", s.note)
         [] ~stays /\ selected /\ ~(Attached(s) /\ ~recreated) ->
              Announce(opened, opened.clock, opened.clock, version, "attach", s.note)
         [] ~stays /\ ~selected /\ Attached(s) ->
              Announce(closing, s.member.event.generation, closing.clock, version, "detach", s.note)
         [] OTHER -> headed

Capture(s, historical, reconcile, recreated, now, updated) ==
    IF \/ s.note = None
       \/ historical /\ ~reconcile /\ s.head # None /\ s.member # None
    THEN s
    ELSE CaptureNote(s, historical, reconcile, recreated, now, updated)

CaptureEdit(s, now, updated)       == Capture(s, FALSE, FALSE, FALSE, now, updated)
CaptureHistorical(s, now, updated) == Capture(s, TRUE, FALSE, FALSE, now, updated)

\* capture_imported_note: the first import keeps its history, a second one of
\* a known note is a new local edit.
CaptureImported(s, now, updated) ==
    Capture(s, s.head = None, FALSE, s.head # None, now, updated)

\* capture_purge.
CapturePurge(s, now) ==
    LET stamped == Tick(s, s.clock, now)
        headed  == [stamped EXCEPT !.head = Head(FALSE, stamped.clock, None)]
    IN IF ~Attached(s) THEN headed
       ELSE Announce(headed, s.member.event.generation, s.member.event.control,
                     stamped.clock, "purge", None)

\* reconcile_rules: a note whose selection changed is captured again.
Reconcile(s, now, updated) ==
    IF s.note # None /\ (s.head = None \/ s.head.selected # Matches(s, s.note))
    THEN Capture(s, TRUE, TRUE, FALSE, now, updated)
    ELSE s

\* Mutant: an inventory event's acknowledgement forgets the outbox row.
AcknowledgeKeepsRow(s, ack) ==
    LET settles == s.member # None /\ s.member.event = ack /\ ack.kind \in {"attach", "detach"}
    IN [s EXCEPT !.member = IF settles THEN [@ EXCEPT !.event.id = NewId(s),
                                                      !.event.kind = IF @ = "attach" THEN "snapshot"
                                                                     ELSE "fence"]
                            ELSE @,
                 !.minted = IF settles THEN @ + 1 ELSE @]

\* acknowledge_sync_event: only the exact event is retired; the current event
\* of the association settles into what the next inventory announces.
Acknowledge(s, ack) ==
    LET settled == [s.member EXCEPT !.event.id   = NewId(s),
                                    !.event.kind = IF @ = "attach" THEN "snapshot" ELSE "fence"]
        settles == s.member # None /\ s.member.event = ack /\ ack.kind \in {"attach", "detach"}
    IN [s EXCEPT !.pending = IF @ = ack THEN None ELSE @,
                 !.member  = IF settles THEN settled ELSE @,
                 !.minted  = IF settles THEN @ + 1 ELSE @]

\* Mutant: a lost association is not announced again.
NeverRecovers(s, descriptor) == FALSE

\* recover_missing_sync_association: the same association is announced again.
CanRecover(s, descriptor) ==
    /\ Attached(s)
    /\ s.member.event = descriptor
    /\ descriptor.kind = "snapshot"
    /\ s.pending \in {None, descriptor}

Recover(s) == Announce(s, s.member.event.generation, s.member.event.control,
                       s.member.event.version, "attach", s.member.event.content)

----------------------------------------------------------------------------
(***************************************************************************)
(* apply_sync_event.                                                       *)
(***************************************************************************)

\* An edit after a closure belongs to the independent local copy.
IndependentCopy(s, e) ==
    /\ Closed(s)
    /\ e.kind = "detach"
    /\ s.head # None
    /\ s.head.version # s.member.event.version

\* Equal versions must name equal contents.
Conflict(s, e) ==
    s.head # None /\ s.head.version = e.version /\ s.head.content # e.content

\* Mutant: only a new control moves an association.
AllowedByControl(s, e) ==
    IF s.member = None THEN e.kind = "attach"
    ELSE LET m == s.member.event
         IN \/ e.kind = "attach" /\ Earlier(m.generation, e.generation)
            \/ /\ e.generation = m.generation /\ Earlier(m.control, e.control)
               /\ s.member.attached

Allowed(s, e) ==
    IF s.member = None THEN e.kind = "attach"
    ELSE LET m    == s.member.event
             same == e.generation = m.generation /\ AtMost(m.control, e.control)
         IN IF e.kind = "attach"
            THEN Earlier(m.generation, e.generation) \/ (same /\ s.member.attached)
            ELSE same /\ (s.member.attached \/ e.kind = "detach")

Authorized(s, e) == e.kind \in {"attach", "snapshot"} => Matches(s, e.content)

\* The answer of a node whose own version is the later one.
AnswerKind(head, e) ==
    CASE head.content = None /\ e.kind = "detach" -> "fence"
      [] head.content = None /\ e.kind # "detach" -> "purge"
      [] head.content # None -> IF e.kind \in {"attach", "detach"} THEN e.kind ELSE "snapshot"

Accept(s, e, now) ==
    LET ticked   == Tick(s, Later(Later(e.version, e.control), e.generation), now)
        winning  == s.head = None \/ Earlier(s.head.version, e.version)
        merged   == IF ~winning THEN ticked
                    ELSE [ticked EXCEPT !.note = e.content,
                                        !.head = Head(Matches(s, e.content), e.version, e.content)]
        covers   == /\ s.pending # None
                    /\ AtMost(s.pending.generation, e.generation)
                    /\ e.kind = "detach" \/ AtMost(s.pending.version, e.version)
        pending  == IF covers THEN None ELSE s.pending
        joined   == [merged EXCEPT !.member  = [attached |-> e.kind # "detach", event |-> e],
                                   !.pending = pending]
        result   ==
          IF s.head # None /\ Earlier(e.version, s.head.version)
          THEN Announce(merged, e.generation, e.control, s.head.version,
                        AnswerKind(s.head, e), s.head.content)
          ELSE IF e.kind = "attach" /\ pending = None
          THEN [joined EXCEPT !.member.event.kind = "snapshot",
                              !.member.event.id   = NewId(s),
                              !.minted            = @ + 1]
          ELSE joined
    IN [result EXCEPT !.received = @ \cup {e}]

\* Mutant: an old fence closes a newer association.
FencesAlwaysApply(s, e) == FALSE

Overtaken(s, e) ==
    /\ s.member # None
    /\ LET m == s.member.event
       IN \/ Earlier(e.generation, m.generation)
          \/ e.generation = m.generation /\ Earlier(e.control, m.control)

\* apply_fence: a closure without content.
ApplyFence(s, e, now) ==
    IF Overtaken(s, e) THEN s
    ELSE [Tick(s, e.control, now) EXCEPT
            !.member   = [attached |-> FALSE, event |-> e],
            !.pending  = IF @ # None /\ AtMost(@.generation, e.generation) THEN None ELSE @,
            !.received = @ \cup {e}]

\* A note the node never captured gets its historical version first.
Known(s, now, updated) ==
    IF s.head = None /\ s.note # None THEN CaptureHistorical(s, now, updated) ELSE s

Ignored(s, e) == IndependentCopy(s, e) \/ (~Conflict(s, e) /\ ~Allowed(s, e))

\* The transaction fails: nothing is stored and nothing is acknowledged.
Refused(s, e) ==
    /\ e.kind # "fence"
    /\ ~Ignored(s, e)
    /\ Conflict(s, e) \/ ~Authorized(s, e)

Apply(s, e, now, updated) ==
    IF e.kind = "fence" THEN ApplyFence(s, e, now)
    ELSE LET known == Known(s, now, updated)
         IN IF Ignored(known, e) THEN known ELSE Accept(known, e, now)

----------------------------------------------------------------------------
Fresh(n) ==
    [clock    |-> [millis |-> 0, counter |-> 0, node |-> n],
     minted   |-> 0,
     stage    |-> "configured",     \* then "captured", then "registered"
     rule     |-> TRUE,
     note     |-> None,
     head     |-> None,
     member   |-> None,
     pending  |-> None,
     received |-> {}]

Init ==
    /\ left \in Scenes
    /\ node = [n \in Nodes |-> [Fresh(n) EXCEPT !.note = left.start[n]]]
    /\ wire = [n \in Nodes |-> {}]
    /\ acks = [n \in Nodes |-> {}]
    /\ missing = [n \in Nodes |-> {}]

Become(n, s) == node' = [node EXCEPT ![n] = s]

Local(n, use, s) ==
    /\ use \in left.uses[n]
    /\ left.edits > 0
    /\ left' = [left EXCEPT !.edits = @ - 1]
    /\ Become(n, s)
    /\ UNCHANGED <<wire, acks, missing>>

\* initialize_sync: the notes that were there before are captured.
Initialize(n) ==
    /\ node[n].stage = "configured"
    /\ \E now, updated \in left.times :
          Become(n, [CaptureHistorical(node[n], now, updated) EXCEPT !.stage = "captured"])
    /\ UNCHANGED <<wire, acks, missing, left>>

\* pin_sync_peer: from now on the profile cannot change.
Register(n) ==
    /\ node[n].stage = "captured"
    /\ Become(n, [node[n] EXCEPT !.stage = "registered"])
    /\ UNCHANGED <<wire, acks, missing, left>>

\* Any change of the note through the pipelines: text and labels of an active
\* note, trash and restore, which leave the labels alone.
Edit(n) ==
    /\ node[n].note # None
    /\ \E content \in Contents, now \in left.times :
          /\ content # node[n].note
          /\ {content.text, node[n].note.text} \cap Trashed # {} =>
                content.tagged = node[n].note.tagged
          /\ Local(n, "edit", CaptureEdit([node[n] EXCEPT !.note = content], now, now))

\* import_notes of a note the node does not hold.
Import(n) ==
    /\ node[n].note = None
    /\ \E content \in Contents, now, updated \in left.times :
          Local(n, "import", CaptureImported([node[n] EXCEPT !.note = content], now, updated))

\* permanently_delete_note and purge_expired_deleted_notes take notes from the trash.
Purge(n) ==
    /\ node[n].note # None
    /\ node[n].note.text \in Trashed
    /\ \E now, updated \in left.times :
          LET captured == CaptureHistorical(node[n], now, updated)
          IN Local(n, "purge", CapturePurge([captured EXCEPT !.note = None], now))

\* update_system_config: other rules, same profile.
ChangeRule(n) ==
    \E now, updated \in left.times :
        Local(n, "rule", Reconcile([node[n] EXCEPT !.rule = ~@], now, updated))

\* update_system_config: another profile, while no peer was ever registered.
ChangeProfile(n) ==
    /\ node[n].stage # "registered"
    /\ \E now, updated \in left.times :
          LET reset == [node[n] EXCEPT !.member = None, !.pending = None,
                                       !.received = {}, !.stage = "configured"]
          IN Local(n, "profile", Reconcile(reset, now, updated))

\* SyncStateItem::matches_snapshot: the peer p holds exactly what s announces.
MatchesSnapshot(s, p) ==
    /\ s.member.event.kind = "snapshot"
    /\ Attached(p)
    /\ LET mine == s.member.event   theirs == p.member.event
       IN /\ theirs.kind \in {"attach", "snapshot"}
          /\ theirs.generation = mine.generation
          /\ theirs.control = mine.control
          /\ theirs.version = mine.version
          /\ theirs.content = mine.content
          /\ p.head.version = mine.version
          /\ p.head.content = mine.content

\* reconcile_pages and deliver_candidate: the current event of the association
\* is sent while it is pending, or when the peer was not found equal to it.
Send(n, m) ==
    /\ n # m
    /\ node[n].stage = "registered"
    /\ node[n].member # None
    /\ node[n].pending = None => ~MatchesSnapshot(node[n], node[m])
    /\ Cardinality(wire[m]) < MaxInFlight
    /\ wire' = [wire EXCEPT ![m] = @ \cup {node[n].member.event}]
    /\ UNCHANGED <<node, acks, missing, left>>

\* An event reaches a node: for the first time, again, or late.  A processed
\* event is acknowledged whether its content won or not.
Deliver(n, m, e) ==
    /\ n # m
    /\ node[n].stage = "registered"
    /\ e \in wire[n]
    /\ Cardinality(acks[m]) < MaxInFlight
    /\ wire' = [wire EXCEPT ![n] = @ \ {e}]
    /\ acks' = [acks EXCEPT ![m] = @ \cup {e}]
    /\ \/ e \in node[n].received /\ UNCHANGED node
       \/ /\ e \notin node[n].received
          /\ \E now, updated \in left.times :
                /\ ~Refused(Known(node[n], now, updated), e)
                /\ Become(n, Apply(node[n], e, now, updated))
    /\ UNCHANGED <<missing, left>>

Confirm(n, ack) ==
    /\ node[n].stage = "registered"
    /\ ack \in acks[n]
    /\ acks' = [acks EXCEPT ![n] = @ \ {ack}]
    /\ Become(n, Acknowledge(node[n], ack))
    /\ UNCHANGED <<wire, missing, left>>

\* A refused event is rolled back and its frame is gone.
Refuse(n, e) ==
    /\ node[n].stage = "registered"
    /\ e \in wire[n] \ node[n].received
    /\ \E now, updated \in left.times : Refused(Known(node[n], now, updated), e)
    /\ wire' = [wire EXCEPT ![n] = @ \ {e}]
    /\ UNCHANGED <<node, acks, missing, left>>

\* A frame is lost with its session.
Drop(n) ==
    /\ left.drops > 0
    /\ left' = [left EXCEPT !.drops = @ - 1]
    /\ \/ \E e \in wire[n] : wire' = [wire EXCEPT ![n] = @ \ {e}] /\ UNCHANGED acks
       \/ \E a \in acks[n] : acks' = [acks EXCEPT ![n] = @ \ {a}] /\ UNCHANGED wire
    /\ UNCHANGED <<node, missing>>

\* query_sync_state answered by a peer that does not know the note.
Ask(n, m) ==
    /\ n # m
    /\ node[n].stage = "registered" /\ node[m].stage = "registered"
    /\ Attached(node[n])
    /\ node[n].member.event.kind = "snapshot"
    /\ node[m].member = None
    /\ missing' = [missing EXCEPT ![n] = @ \cup {node[n].member.event}]
    /\ UNCHANGED <<node, wire, acks, left>>

\* The answer is used later; the association may have moved on.
RecoverMissing(n) ==
    /\ \E descriptor \in missing[n] : CanRecover(node[n], descriptor)
    /\ Become(n, Recover(node[n]))
    /\ UNCHANGED <<wire, acks, missing, left>>

\* The operator restores the identity of a node whose database is gone.
Lose(n) ==
    /\ left.losses > 0
    /\ left' = [left EXCEPT !.losses = @ - 1]
    /\ node[n].stage = "registered"
    /\ Become(n, [node[n] EXCEPT !.note = None, !.head = None, !.member = None,
                                  !.pending = None, !.received = {}])
    /\ UNCHANGED <<wire, acks, missing>>

Next ==
    \E n \in Nodes :
       \/ Initialize(n) \/ Register(n)
       \/ Edit(n) \/ Import(n) \/ Purge(n) \/ ChangeRule(n) \/ ChangeProfile(n)
       \/ \E ack \in acks[n] : Confirm(n, ack)
       \/ \E e \in wire[n] : Refuse(n, e)
       \/ RecoverMissing(n)
       \/ Drop(n)
       \/ Lose(n)
       \/ \E m \in Nodes : Send(n, m) \/ Ask(n, m) \/ \E e \in wire[n] : Deliver(n, m, e)

Spec == Init /\ [][Next]_vars

\* The session keeps sending the current event of an association until it is
\* confirmed or found equal, receives what is sent to it and acts on what its
\* audit was answered.  Nothing is promised about local operations or losses.
Fairness ==
    \A n \in Nodes :
       /\ WF_vars(Initialize(n))
       /\ WF_vars(Register(n))
       /\ WF_vars(RecoverMissing(n))
       /\ WF_vars(\E ack \in acks[n] : Confirm(n, ack))
       /\ WF_vars(\E e \in wire[n] : Refuse(n, e))
       /\ \A m \in Nodes :
             /\ WF_vars(Send(n, m))
             /\ WF_vars(Ask(n, m))
             /\ WF_vars(\E e \in wire[n] : Deliver(n, m, e))

FairSpec == Spec /\ Fairness
----------------------------------------------------------------------------
\* What waits to be sent is the current event of the note's association: the
\* outbox keeps one row per note, and no capture, answer, acknowledgement or
\* recovery leaves an outdated row behind (the sender reads the event from the
\* member record and the work list from the outbox).  A deletion dated ahead
\* (PurgesAhead below) breaks it and is outside: the scenes avoid it, and the
\* theorem assumes NoPurgeAhead.
PendingIsCurrent ==
    \A n \in Nodes : node[n].pending # None =>
        node[n].member # None /\ node[n].member.event = node[n].pending

\* The pairs of version and content that a node states, or that are under way to it.
Stated(n) ==
    (IF node[n].head = None THEN {} ELSE {<<node[n].head.version, node[n].head.content>>})
    \cup (IF node[n].member = None THEN {}
          ELSE {<<node[n].member.event.version, node[n].member.event.content>>})
    \cup {<<e.version, e.content>> : e \in wire[n]}

\* A version is never given to two contents, on whichever nodes and whatever
\* the wall clocks say.  apply_sync_event relies on it: an equal version with
\* another hash is refused forever.  Outside is the deletion dated ahead of its
\* node's clock (PurgesAhead below), which may give a version a second content:
\* the scenes avoid it, and the theorem assumes NoPurgeAhead.
VersionNamesContent ==
    \A a, b \in UNION {Stated(n) : n \in Nodes} : a[1] = b[1] => a[2] = b[2]

\* Once a peer is registered, events that arrive late, twice or out of order
\* never set the association back: its generation grows, or its control grows
\* within the generation, and a generation that was closed is never reopened.
AssociationMovesForward ==
    [][\A n \in Nodes :
         (node[n].member # None /\ node[n].stage = "registered" /\ left'.losses = left.losses) =>
            /\ node'[n].member # None
            /\ LET was == node[n].member   is == node'[n].member
               IN \/ Earlier(was.event.generation, is.event.generation)
                  \/ /\ was.event.generation = is.event.generation
                     /\ AtMost(was.event.control, is.event.control)
                     /\ is.attached => was.attached]_vars

\* The deletion of a note that is dated ahead of its node's clock.  The event or
\* fence that joined the note to an association told the clock its own stamps,
\* not the note's version, and capture_purge does not observe that either.
PurgesAhead(n) ==
    /\ node[n].member # None /\ node[n].head # None
    /\ Earlier(node[n].clock, node[n].head.version)
    /\ Purge(n)

\* The version of a note that takes part in synchronization never decreases,
\* although wall clocks differ between nodes and may be set back: neither a
\* local change nor a remote event replaces a later version by an earlier one,
\* that deletion excepted.
HeadMovesForward ==
    [][\A n \in Nodes :
         (/\ node[n].member # None /\ node[n].head # None
          /\ left'.losses = left.losses
          /\ ~PurgesAhead(n)) =>
            /\ node'[n].head # None
            /\ AtMost(node[n].head.version, node'[n].head.version)]_vars

\* The peer m has the note of an open association of n, in the same version.
Agreed(n, m) ==
    Attached(node[n]) /\ node[n].note # None =>
       /\ Attached(node[m])
       /\ node[n].member.event.generation = node[m].member.event.generation
       /\ node[n].head = node[m].head
       /\ node[n].note = node[m].note

AllAgree == \A n, m \in Nodes : Agreed(n, m)

\* When edits stop, two nodes that started from the same note come to hold the
\* same version of it, whatever was lost, repeated or reordered on the way.
Converges == <>[]((\A n \in Nodes : node[n].rule) => AllAgree)

\* README.md: synchronization includes permanent deletion.  When a node has
\* deleted a synchronized note for good, so has its peer in the end.
DeletionReachesPeers ==
    <>[](\A n, m \in Nodes :
           (Attached(node[n]) /\ node[n].note = None /\ Attached(node[m])) => node[m].note = None)
===============================================================================
