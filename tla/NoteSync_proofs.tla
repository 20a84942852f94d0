--------------------------- MODULE NoteSync_proofs ----------------------------
(***************************************************************************)
(* What holds of the merge of a note for any number of nodes, any texts,    *)
(* any readings of the wall clocks, and whatever the network loses, repeats *)
(* or reorders: associations and versions move forward, the outbox holds    *)
(* the current event, and one version stands for one content.              *)
(*                                                                         *)
(* First comes the order of the stamps, then, for each transaction of       *)
(* sync.rs, what it may make of a node's records (a lemma "...Shape"), then *)
(* what such a change keeps ("...Safe", "...Keeps"), then the actions       *)
(* ("...Steps"), and last the theorems.                                    *)
(***************************************************************************)
EXTENDS NoteSync, TLAPS

-----------------------------------------------------------------------------
(* Stamps are totally ordered, and an advanced clock is later than what it *)
(* was and than what it has seen.                                          *)

LEMMA StampEquality ==
    ASSUME NEW a \in Stamp, NEW b \in Stamp,
           a.millis = b.millis, a.counter = b.counter, a.node = b.node
    PROVE  a = b
<1>1. \A x \in Stamp : x = [millis |-> x.millis, counter |-> x.counter, node |-> x.node]
  BY DEF Stamp
<1> QED BY <1>1

LEMMA StampFields ==
    ASSUME NEW a \in Stamp
    PROVE  a.millis \in Nat /\ a.counter \in Nat /\ a.node \in Nodes /\ a.node \in Nat
<1>1. a.millis \in Nat /\ a.counter \in Nat /\ a.node \in Nodes
  BY DEF Stamp
<1> QED BY <1>1, NodesAreOrdered

LEMMA NeverEarlier ==
    ASSUME NEW a \in Stamp
    PROVE  ~Earlier(a, a)
  BY StampFields DEF Earlier

LEMMA EarlierTransitive ==
    ASSUME NEW a \in Stamp, NEW b \in Stamp, NEW c \in Stamp, Earlier(a, b), Earlier(b, c)
    PROVE  Earlier(a, c)
  BY StampFields DEF Earlier

LEMMA EarlierTotal ==
    ASSUME NEW a \in Stamp, NEW b \in Stamp
    PROVE  a = b \/ Earlier(a, b) \/ Earlier(b, a)
  BY StampFields, StampEquality DEF Earlier

(* The laws of the order, in one place.                                    *)
LEMMA Order ==
    /\ \A a \in Stamp : AtMost(a, a) /\ ~Earlier(a, a)
    /\ \A a, b \in Stamp : /\ Earlier(a, b) => AtMost(a, b) /\ a # b /\ ~Earlier(b, a)
                           /\ AtMost(a, b) \/ Earlier(b, a)
                           /\ AtMost(a, b) => a = b \/ Earlier(a, b)
                           /\ AtMost(a, b) => ~Earlier(b, a)
    /\ \A a, b, c \in Stamp : /\ AtMost(a, b) /\ AtMost(b, c) => AtMost(a, c)
                              /\ AtMost(a, b) /\ Earlier(b, c) => Earlier(a, c)
                              /\ Earlier(a, b) /\ AtMost(b, c) => Earlier(a, c)
<1>1. \A a \in Stamp : AtMost(a, a) /\ ~Earlier(a, a)
  BY NeverEarlier DEF AtMost
<1>2. \A a, b \in Stamp : Earlier(a, b) => a # b /\ ~Earlier(b, a)
  BY NeverEarlier, EarlierTransitive
<1> QED BY <1>1, <1>2, EarlierTotal, EarlierTransitive DEF AtMost

LEMMA Advances ==
    ASSUME NEW own \in Stamp, NEW seen \in Stamp, NEW now \in Nat, NEW n \in Nodes
    PROVE  LET later == Advance(own, now, seen, n)
           IN /\ later \in Stamp
              /\ later.node = n
              /\ Earlier(own, later)
              /\ Earlier(seen, later)
<1> DEFINE latest == IF own.millis < seen.millis THEN seen.millis ELSE own.millis
           millis == IF latest < now THEN now ELSE latest
           mine   == IF own.millis = millis THEN own.counter ELSE 0
           theirs == IF seen.millis = millis THEN seen.counter ELSE 0
           counter == IF latest < now THEN 0 ELSE 1 + (IF mine < theirs THEN theirs ELSE mine)
           later  == Advance(own, now, seen, n)
<1>1. own.millis \in Nat /\ own.counter \in Nat /\ seen.millis \in Nat /\ seen.counter \in Nat
  BY DEF Stamp
<1>2. later = [millis |-> millis, counter |-> counter, node |-> n]
  BY DEF Advance
<1>3. /\ millis \in Nat /\ counter \in Nat
      /\ own.millis < millis \/ (own.millis = millis /\ own.counter < counter)
      /\ seen.millis < millis \/ (seen.millis = millis /\ seen.counter < counter)
  BY <1>1
<1> HIDE DEF latest, millis, mine, theirs, counter
<1> QED BY <1>2, <1>3 DEF Stamp, Earlier

-----------------------------------------------------------------------------
(* What a node stores.                                                     *)

NodeStates ==
    [clock    : Stamp,
     minted   : Nat,
     stage    : {"configured", "captured", "registered"},
     rule     : BOOLEAN,
     note     : Contents \cup {None},
     head     : Heads \cup {None},
     member   : Members \cup {None},
     pending  : Events \cup {None},
     received : SUBSET Events]

Kinds == {"attach", "snapshot", "detach", "purge", "fence"}

LEMMA StateFields ==
    ASSUME NEW s \in NodeStates
    PROVE  /\ s.clock \in Stamp /\ s.clock.node \in Nodes /\ s.minted \in Nat
           /\ s.head \in Heads \cup {None} /\ s.member \in Members \cup {None}
           /\ s.pending \in Events \cup {None} /\ s.note \in Contents \cup {None}
           /\ s.rule \in BOOLEAN
           /\ s.head # None => s.head.version \in Stamp /\ s.head.content \in Contents \cup {None}
           /\ s.member # None =>
                 /\ s.member.attached \in BOOLEAN
                 /\ s.member.event \in Events
<1>1. /\ s.clock \in Stamp /\ s.minted \in Nat
      /\ s.head \in Heads \cup {None} /\ s.member \in Members \cup {None}
      /\ s.pending \in Events \cup {None} /\ s.note \in Contents \cup {None}
      /\ s.rule \in BOOLEAN
  BY DEF NodeStates
<1>2. s.clock.node \in Nodes
  BY <1>1, StampFields
<1>3. s.head # None => s.head.version \in Stamp /\ s.head.content \in Contents \cup {None}
  BY <1>1 DEF Heads
<1>4. s.member # None => s.member.attached \in BOOLEAN /\ s.member.event \in Events
  BY <1>1 DEF Members
<1> QED BY <1>1, <1>2, <1>3, <1>4

LEMMA EventFields ==
    ASSUME NEW e \in Events
    PROVE  /\ e.generation \in Stamp /\ e.control \in Stamp /\ e.version \in Stamp
           /\ e.kind \in Kinds /\ e.content \in Contents \cup {None}
  BY DEF Events, Kinds

(* All but the clock, which becomes later.                                 *)
LEMMA TickShape ==
    ASSUME NEW s \in NodeStates, NEW seen \in Stamp, NEW now \in Nat
    PROVE  LET r == Tick(s, seen, now)
           IN /\ r \in NodeStates
              /\ Earlier(s.clock, r.clock) /\ Earlier(seen, r.clock)
              /\ r.clock.node = s.clock.node
              /\ r.minted = s.minted /\ r.stage = s.stage /\ r.rule = s.rule
              /\ r.note = s.note /\ r.head = s.head /\ r.member = s.member
              /\ r.pending = s.pending /\ r.received = s.received
<1> DEFINE c == Advance(s.clock, now, seen, s.clock.node)
           r == Tick(s, seen, now)
<1>1. s.clock \in Stamp /\ s.clock.node \in Nodes
  BY StateFields
<1>2. c \in Stamp /\ c.node = s.clock.node /\ Earlier(s.clock, c) /\ Earlier(seen, c)
  BY <1>1, Advances
<1>3. r = [s EXCEPT !.clock = c]
  BY DEF Tick
<1> HIDE DEF c, r
<1>4. r \in NodeStates
  BY <1>2, <1>3 DEF NodeStates
<1>5. /\ r.clock = c
      /\ r.minted = s.minted /\ r.stage = s.stage /\ r.rule = s.rule
      /\ r.note = s.note /\ r.head = s.head /\ r.member = s.member
      /\ r.pending = s.pending /\ r.received = s.received
  BY <1>3 DEF NodeStates
<1> QED BY <1>2, <1>4, <1>5 DEF r

(* A new head, and nothing else.                                           *)
LEMMA HeadShape ==
    ASSUME NEW s \in NodeStates, NEW selected \in BOOLEAN, NEW version \in Stamp,
           NEW content \in Contents \cup {None}
    PROVE  LET r == [s EXCEPT !.head = Head(selected, version, content)]
           IN /\ r \in NodeStates
              /\ r.head # None /\ r.head.version = version /\ r.head.content = content
              /\ r.head.selected = selected
              /\ r.clock = s.clock /\ r.minted = s.minted /\ r.stage = s.stage
              /\ r.rule = s.rule /\ r.note = s.note /\ r.member = s.member
              /\ r.pending = s.pending /\ r.received = s.received
<1> DEFINE h == Head(selected, version, content)
           r == [s EXCEPT !.head = h]
<1>1. h \in Heads /\ h.version = version /\ h.content = content /\ h.selected = selected
  BY DEF Head, Heads
<1>2. h # None
  BY <1>1, NoneAssumption
<1> HIDE DEF h
<1>3. r \in NodeStates
  BY <1>1 DEF NodeStates
<1>4. /\ r.head = h
      /\ r.clock = s.clock /\ r.minted = s.minted /\ r.stage = s.stage
      /\ r.rule = s.rule /\ r.note = s.note /\ r.member = s.member
      /\ r.pending = s.pending /\ r.received = s.received
  BY DEF NodeStates
<1> QED BY <1>1, <1>2, <1>3, <1>4 DEF h

LEMMA AnnounceShape ==
    ASSUME NEW s \in NodeStates, NEW g \in Stamp, NEW c \in Stamp, NEW v \in Stamp,
           NEW kind \in Kinds, NEW content \in Contents \cup {None}
    PROVE  LET r == Announce(s, g, c, v, kind, content)
           IN /\ r \in NodeStates
              /\ r.clock = s.clock /\ r.stage = s.stage /\ r.rule = s.rule
              /\ r.note = s.note /\ r.head = s.head /\ r.received = s.received
              /\ r.member # None
              /\ r.member.attached = (kind \notin {"detach", "fence"})
              /\ r.member.event \in Events
              /\ r.member.event.generation = g /\ r.member.event.control = c
              /\ r.member.event.version = v /\ r.member.event.content = content
              /\ r.member.event.kind = kind
              /\ r.pending = r.member.event
<1> DEFINE e == Event(NewId(s), g, c, v, kind, content)
           m == [attached |-> kind \notin {"detach", "fence"}, event |-> e]
           r == Announce(s, g, c, v, kind, content)
<1>1. NewId(s) \in [node : Nodes, nr : Nat]
  BY DEF NewId, NodeStates, Stamp
<1>2. /\ e \in Events
      /\ e.generation = g /\ e.control = c /\ e.version = v /\ e.kind = kind
      /\ e.content = content
  BY <1>1 DEF Event, Events, Kinds
<1>3. r = [s EXCEPT !.member = m, !.pending = e, !.minted = @ + 1]
  BY DEF Announce
<1> HIDE DEF e
<1>a. (kind \notin {"detach", "fence"}) \in BOOLEAN
  OBVIOUS
<1>4. m \in Members /\ m # None
  <2>1. m \in Members
    BY <1>2, <1>a DEF Members
  <2> QED BY <2>1, NoneAssumption
<1>5. m.attached = (kind \notin {"detach", "fence"}) /\ m.event = e
  OBVIOUS
<1> HIDE DEF m
<1>6. r \in NodeStates
  <2>1. s.minted + 1 \in Nat
    BY DEF NodeStates
  <2>2. r = [s EXCEPT !.member = m, !.pending = e, !.minted = s.minted + 1]
    BY <1>3
  <2> HIDE DEF r
  <2> QED BY <1>2, <1>4, <2>1, <2>2 DEF NodeStates
<1>7. /\ r.clock = s.clock /\ r.stage = s.stage /\ r.rule = s.rule
      /\ r.note = s.note /\ r.head = s.head /\ r.received = s.received
      /\ r.member = m /\ r.pending = e
  BY <1>3 DEF NodeStates
<1> QED BY <1>2, <1>4, <1>5, <1>6, <1>7

-----------------------------------------------------------------------------
(* What a capture leaves behind.                                           *)

\* How an association may change: see AssociationMovesForward.
Forward(was, is) ==
    \/ Earlier(was.event.generation, is.event.generation)
    \/ /\ was.event.generation = is.event.generation
       /\ AtMost(was.event.control, is.event.control)
       /\ is.attached => was.attached

\* The node has seen the stamps of its association.
Tracked(s) ==
    s.member # None => /\ AtMost(s.member.event.generation, s.member.event.control)
                       /\ AtMost(s.member.event.control, s.clock)

\* The head of r is announced in a new event of the association.
Announced(s, r) ==
    /\ r.member # None
    /\ r.pending = r.member.event
    /\ r.member.event.version = r.head.version
    /\ r.member.event.content = r.head.content
    /\ s.member # None => Forward(s.member, r.member)

\* A version that the node issues now.
Issues(s, r) ==
    /\ r.head.version.node = s.clock.node
    /\ \/ s.head = None
       \/ /\ Earlier(s.clock, r.head.version)
          /\ AtMost(r.head.version, r.clock)
          /\ Earlier(s.head.version, r.head.version)

Continues(s, r) ==
    /\ r \in NodeStates
    /\ r.note = s.note /\ r.stage = s.stage
    /\ AtMost(s.clock, r.clock) /\ r.clock.node = s.clock.node

Captures(s, r, historical) ==
    /\ Continues(s, r)
    /\ Tracked(r)
    /\ r.head # None /\ r.head.content = s.note
    /\ \/ Issues(s, r)
       \/ /\ s.head # None /\ r.head.version = s.head.version
          /\ historical \/ s.head.content = s.note
    /\ \/ ~Attached(s) /\ r.member = s.member /\ r.pending = s.pending
       \/ Announced(s, r) /\ (Attached(s) \/ Attached(r))

LEMMA CaptureNoteShape ==
    ASSUME NEW s \in NodeStates, s.note # None, Tracked(s),
           NEW historical \in BOOLEAN, NEW reconcile \in BOOLEAN, NEW recreated \in BOOLEAN,
           NEW now \in Nat, NEW updated \in Nat
    PROVE  Captures(s, CaptureNote(s, historical, reconcile, recreated, now, updated), historical)
<1> DEFINE old      == s.head
           fresh    == \/ recreated
                       \/ ~historical /\ (old = None \/ old.content # s.note)
           stamped  == IF ~fresh THEN s
                       ELSE Tick(s, IF old = None THEN s.clock ELSE old.version, now)
           version  == IF fresh THEN stamped.clock
                       ELSE IF old # None THEN old.version
                       ELSE [millis |-> updated, counter |-> 0, node |-> s.clock.node]
           selected == Matches(s, s.note)
           headed   == [stamped EXCEPT !.head = Head(selected, version, s.note)]
           opened   == Tick(headed, version, now)
           closing  == Tick(headed, headed.clock, now)
           stays    == /\ Closed(s)
                       /\ ~reconcile
                       /\ \/ historical
                          \/ selected /\ ~recreated /\ old # None /\ old.selected
           r        == CaptureNote(s, historical, reconcile, recreated, now, updated)
           still    == Announce(headed, s.member.event.generation, s.member.event.control, version,
                                IF s.member.event.kind = "attach" THEN "attach" ELSE "snapshot",
                                s.note)
           attach   == Announce(opened, opened.clock, opened.clock, version, "attach", s.note)
           detach   == Announce(closing, s.member.event.generation, closing.clock, version,
                                "detach", s.note)
<1>1. r = CASE stays -> headed
            [] ~stays /\ selected /\ Attached(s) /\ ~recreated -> still
            [] ~stays /\ selected /\ ~(Attached(s) /\ ~recreated) -> attach
            [] ~stays /\ ~selected /\ Attached(s) -> detach
            [] OTHER -> headed
  BY DEF CaptureNote
<1>2. /\ s.clock \in Stamp /\ s.clock.node \in Nodes /\ s.note \in Contents
      /\ old # None => old.version \in Stamp
      /\ selected \in BOOLEAN
  BY StateFields DEF Matches, Contents
<1>3. fresh => /\ stamped \in NodeStates
               /\ Earlier(s.clock, stamped.clock) /\ stamped.clock.node = s.clock.node
               /\ old # None => Earlier(old.version, stamped.clock)
               /\ stamped.stage = s.stage /\ stamped.note = s.note
               /\ stamped.member = s.member /\ stamped.pending = s.pending
  BY <1>2, TickShape
<1>4. ~fresh => stamped = s
  OBVIOUS
<1> HIDE DEF stamped, selected
<1>5. /\ stamped \in NodeStates
      /\ AtMost(s.clock, stamped.clock) /\ stamped.clock.node = s.clock.node
      /\ stamped.stage = s.stage /\ stamped.note = s.note
      /\ stamped.member = s.member /\ stamped.pending = s.pending
  BY <1>2, <1>3, <1>4, Order DEF AtMost
<1>6. stamped.clock \in Stamp
  BY <1>5, StateFields
<1>7. /\ version \in Stamp
      /\ \/ version.node = s.clock.node /\ s.head = None
         \/ /\ version.node = s.clock.node
            /\ Earlier(s.clock, version) /\ AtMost(version, stamped.clock)
            /\ Earlier(s.head.version, version)
         \/ /\ s.head # None /\ version = s.head.version
            /\ historical \/ s.head.content = s.note
  <2>1. CASE fresh
    BY <2>1, <1>3, <1>5, <1>6 DEF AtMost
  <2>2. CASE ~fresh /\ old # None
    BY <2>2, <1>2
  <2>3. CASE ~fresh /\ old = None
    BY <2>3, <1>2 DEF Stamp
  <2> QED BY <2>1, <2>2, <2>3
<1> HIDE DEF version
<1>8. /\ headed \in NodeStates
      /\ headed.head # None /\ headed.head.version = version /\ headed.head.content = s.note
      /\ headed.clock = stamped.clock /\ headed.stage = s.stage /\ headed.note = s.note
      /\ headed.member = s.member /\ headed.pending = s.pending
  BY <1>2, <1>5, <1>7, HeadShape
<1> HIDE DEF headed
<1>a. s.note \in Contents \cup {None}
  BY <1>2
<1>9. ASSUME NEW p \in NodeStates, p.head = headed.head, p.stage = s.stage, p.note = s.note,
             AtMost(stamped.clock, p.clock), p.clock \in Stamp, p.clock.node = s.clock.node, Tracked(p),
             \/ ~Attached(s) /\ p.member = s.member /\ p.pending = s.pending
             \/ Announced(s, p) /\ (Attached(s) \/ Attached(p))
      PROVE  Captures(s, p, historical)
  <2>1. Continues(s, p)
    BY <1>2, <1>5, <1>6, <1>9, Order DEF Continues
  <2>2. p.head # None /\ p.head.content = s.note /\ p.head.version = version
    BY <1>8, <1>9
  <2>3. \/ Issues(s, p)
        \/ /\ s.head # None /\ p.head.version = s.head.version
           /\ historical \/ s.head.content = s.note
    BY <1>6, <1>7, <1>9, <2>2, Order DEF Issues
  <2> QED BY <1>9, <2>1, <2>2, <2>3 DEF Captures
<1>10. CASE r = headed /\ ~Attached(s)
  <2>1. Tracked(headed)
    BY <1>2, <1>5, <1>6, <1>8, StateFields, EventFields, Order DEF Tracked
  <2> QED BY <1>5, <1>6, <1>8, <1>9, <1>10, <2>1, Order
<1>11. CASE r = still /\ Attached(s)
  <2> DEFINE kind == IF s.member.event.kind = "attach" THEN "attach" ELSE "snapshot"
  <2>1. kind \in Kinds /\ kind \notin {"detach", "fence"}
    BY DEF Kinds
  <2>2. /\ s.member # None /\ s.member.attached
        /\ s.member.event.generation \in Stamp /\ s.member.event.control \in Stamp
    BY <1>11, StateFields, EventFields DEF Attached
  <2> HIDE DEF kind
  <2>3. /\ still \in NodeStates /\ still.clock = headed.clock /\ still.stage = s.stage
        /\ still.note = s.note /\ still.head = headed.head /\ still.member # None
        /\ still.member.event.generation = s.member.event.generation
        /\ still.member.event.control = s.member.event.control
        /\ still.member.event.version = version /\ still.member.event.content = s.note
        /\ still.pending = still.member.event
    <3> DEFINE g == s.member.event.generation
               c == s.member.event.control
    <3>1. still = Announce(headed, g, c, version, kind, s.note)
      BY DEF kind
    <3>2. g \in Stamp /\ c \in Stamp
      BY <2>2
    <3> HIDE DEF still, g, c
    <3>3. /\ still \in NodeStates /\ still.clock = headed.clock /\ still.stage = headed.stage
          /\ still.note = headed.note /\ still.head = headed.head /\ still.member # None
          /\ still.member.event.generation = g /\ still.member.event.control = c
          /\ still.member.event.version = version /\ still.member.event.content = s.note
          /\ still.pending = still.member.event
      BY <1>a, <1>7, <1>8, <2>1, <3>1, <3>2, AnnounceShape
    <3> QED BY <1>8, <3>3 DEF g, c
  <2> HIDE DEF still
  <2>4. Announced(s, still)
    BY <1>8, <2>2, <2>3, Order DEF Announced, Forward
  <2>5. Tracked(still)
    BY <1>2, <1>5, <1>6, <1>8, <2>2, <2>3, Order DEF Tracked
  <2> QED BY <1>5, <1>6, <1>8, <1>9, <1>11, <2>3, <2>4, <2>5, Order
<1>12. CASE r = attach
  <2>1. /\ opened \in NodeStates /\ Earlier(headed.clock, opened.clock)
        /\ opened.clock.node = s.clock.node /\ opened.stage = s.stage
        /\ opened.note = s.note /\ opened.head = headed.head
        /\ opened.clock \in Stamp
    <3>1. /\ opened \in NodeStates /\ Earlier(headed.clock, opened.clock)
          /\ opened.clock.node = headed.clock.node /\ opened.stage = headed.stage
          /\ opened.note = headed.note /\ opened.head = headed.head
      BY <1>7, <1>8, TickShape
    <3> HIDE DEF opened
    <3>2. opened.clock \in Stamp
      BY <3>1, StateFields
    <3> QED BY <1>5, <1>8, <3>1, <3>2
  <2> HIDE DEF opened
  <2>2. /\ attach \in NodeStates /\ attach.clock = opened.clock /\ attach.stage = s.stage
        /\ attach.note = s.note /\ attach.head = headed.head /\ attach.member # None
        /\ attach.member.attached
        /\ attach.member.event.generation = opened.clock
        /\ attach.member.event.control = opened.clock
        /\ attach.member.event.version = version /\ attach.member.event.content = s.note
        /\ attach.pending = attach.member.event
    <3> DEFINE kind == "attach"
    <3>1. kind \in Kinds /\ kind \notin {"detach", "fence"}
      BY DEF Kinds
    <3>2. attach = Announce(opened, opened.clock, opened.clock, version, kind, s.note)
      OBVIOUS
    <3> HIDE DEF attach, kind
    <3>3. /\ attach \in NodeStates /\ attach.clock = opened.clock /\ attach.stage = opened.stage
          /\ attach.note = opened.note /\ attach.head = opened.head /\ attach.member # None
          /\ attach.member.attached = (kind \notin {"detach", "fence"})
          /\ attach.member.event.generation = opened.clock
          /\ attach.member.event.control = opened.clock
          /\ attach.member.event.version = version /\ attach.member.event.content = s.note
          /\ attach.pending = attach.member.event
      BY <1>a, <1>7, <2>1, <3>1, <3>2, AnnounceShape
    <3> QED BY <2>1, <3>1, <3>3
  <2> HIDE DEF attach
  <2>3. s.member # None => Earlier(s.member.event.generation, opened.clock)
    <3> SUFFICES ASSUME s.member # None
                 PROVE  Earlier(s.member.event.generation, opened.clock)
      OBVIOUS
    <3>1. s.member.event.generation \in Stamp /\ s.member.event.control \in Stamp
      BY StateFields, EventFields
    <3>2. AtMost(s.member.event.generation, s.clock)
      BY <1>2, <3>1, Order DEF Tracked
    <3> QED BY <1>2, <1>5, <1>6, <1>8, <2>1, <3>1, <3>2, Order
  <2>4. Announced(s, attach)
    BY <1>8, <2>2, <2>3 DEF Announced, Forward
  <2>5. Tracked(attach)
    BY <2>1, <2>2, Order DEF Tracked
  <2>6. AtMost(stamped.clock, attach.clock)
    BY <1>6, <1>8, <2>1, <2>2, Order
  <2>7. Attached(attach)
    BY <2>2 DEF Attached
  <2> QED BY <1>9, <1>12, <2>1, <2>2, <2>4, <2>5, <2>6, <2>7
<1>13. CASE r = detach /\ Attached(s)
  <2>1. /\ closing \in NodeStates /\ Earlier(headed.clock, closing.clock)
        /\ closing.clock.node = s.clock.node /\ closing.stage = s.stage
        /\ closing.note = s.note /\ closing.head = headed.head
        /\ closing.clock \in Stamp
    <3>1. headed.clock \in Stamp
      BY <1>6, <1>8
    <3>2. /\ closing \in NodeStates /\ Earlier(headed.clock, closing.clock)
          /\ closing.clock.node = headed.clock.node /\ closing.stage = headed.stage
          /\ closing.note = headed.note /\ closing.head = headed.head
      BY <1>8, <3>1, TickShape
    <3> QED BY <1>5, <1>8, <3>2, StateFields
  <2>2. /\ s.member # None /\ s.member.attached
        /\ s.member.event.generation \in Stamp /\ s.member.event.control \in Stamp
    BY <1>13, StateFields, EventFields DEF Attached
  <2> HIDE DEF closing
  <2>3. /\ detach \in NodeStates /\ detach.clock = closing.clock /\ detach.stage = s.stage
        /\ detach.note = s.note /\ detach.head = headed.head /\ detach.member # None
        /\ detach.member.event.generation = s.member.event.generation
        /\ detach.member.event.control = closing.clock
        /\ detach.member.event.version = version /\ detach.member.event.content = s.note
        /\ detach.pending = detach.member.event
    <3> DEFINE g == s.member.event.generation
    <3>1. "detach" \in Kinds
      BY DEF Kinds
    <3>2. detach = Announce(closing, g, closing.clock, version, "detach", s.note)
      OBVIOUS
    <3>3. g \in Stamp
      BY <2>2
    <3> HIDE DEF detach, g
    <3>4. /\ detach \in NodeStates /\ detach.clock = closing.clock /\ detach.stage = closing.stage
          /\ detach.note = closing.note /\ detach.head = closing.head /\ detach.member # None
          /\ detach.member.event.generation = g /\ detach.member.event.control = closing.clock
          /\ detach.member.event.version = version /\ detach.member.event.content = s.note
          /\ detach.pending = detach.member.event
      BY <1>a, <1>7, <2>1, <3>1, <3>2, <3>3, AnnounceShape
    <3> QED BY <2>1, <3>4 DEF g
  <2> HIDE DEF detach
  <2>4. /\ AtMost(s.member.event.control, closing.clock)
        /\ AtMost(s.member.event.generation, closing.clock)
    BY <1>2, <1>5, <1>6, <1>8, <2>1, <2>2, Order DEF Tracked
  <2>5. Announced(s, detach)
    BY <1>8, <2>2, <2>3, <2>4 DEF Announced, Forward
  <2>6. Tracked(detach)
    BY <2>1, <2>3, <2>4, Order DEF Tracked
  <2>7. AtMost(stamped.clock, detach.clock)
    BY <1>6, <1>8, <2>1, <2>3, Order
  <2> QED BY <1>9, <1>13, <2>1, <2>3, <2>5, <2>6, <2>7
<1>14. \/ r = headed /\ ~Attached(s)
       \/ r = still /\ Attached(s)
       \/ r = attach
       \/ r = detach /\ Attached(s)
  <2>1. stays => ~Attached(s)
    BY DEF Attached, Closed
  <2> HIDE DEF stays, still, attach, detach
  <2> QED BY <1>1, <2>1
<1> QED BY <1>10, <1>11, <1>12, <1>13, <1>14

(* Nothing is captured without a note, nor again with the same history.    *)
LEMMA CaptureShape ==
    ASSUME NEW s \in NodeStates, Tracked(s),
           NEW historical \in BOOLEAN, NEW reconcile \in BOOLEAN, NEW recreated \in BOOLEAN,
           NEW now \in Nat, NEW updated \in Nat
    PROVE  LET r == Capture(s, historical, reconcile, recreated, now, updated)
           IN \/ /\ r = s
                 /\ s.note # None => /\ historical /\ ~reconcile
                                      /\ s.head # None /\ s.member # None
              \/ s.note # None /\ Captures(s, r, historical)
<1>1. CASE \/ s.note = None
           \/ historical /\ ~reconcile /\ s.head # None /\ s.member # None
  BY <1>1 DEF Capture
<1>2. CASE ~ \/ s.note = None
             \/ historical /\ ~reconcile /\ s.head # None /\ s.member # None
  BY <1>2, CaptureNoteShape DEF Capture
<1> QED BY <1>1, <1>2

\* The version of a deletion is later than the clock, whatever the head says.
Purges(s, r) ==
    /\ Continues(s, r)
    /\ Tracked(r)
    /\ r.head # None /\ r.head.content = None
    /\ r.head.version.node = s.clock.node
    /\ Earlier(s.clock, r.head.version) /\ AtMost(r.head.version, r.clock)
    /\ \/ ~Attached(s) /\ r.member = s.member /\ r.pending = s.pending
       \/ Announced(s, r)

LEMMA PurgeShape ==
    ASSUME NEW s \in NodeStates, Tracked(s), NEW now \in Nat
    PROVE  Purges(s, CapturePurge(s, now))
<1> DEFINE stamped == Tick(s, s.clock, now)
           selected == FALSE
           headed  == [stamped EXCEPT !.head = Head(selected, stamped.clock, None)]
           r       == CapturePurge(s, now)
<1>1. s.clock \in Stamp
  BY StateFields
<1>2. /\ stamped \in NodeStates
      /\ Earlier(s.clock, stamped.clock) /\ stamped.clock.node = s.clock.node
      /\ stamped.stage = s.stage /\ stamped.note = s.note
      /\ stamped.member = s.member /\ stamped.pending = s.pending
  BY <1>1, TickShape
<1>3. stamped.clock \in Stamp
  BY <1>2, StateFields
<1>a. selected \in BOOLEAN /\ None \in Contents \cup {None}
  OBVIOUS
<1> HIDE DEF stamped, selected
<1>4. /\ headed \in NodeStates
      /\ headed.head # None /\ headed.head.version = stamped.clock /\ headed.head.content = None
      /\ headed.clock = stamped.clock /\ headed.stage = s.stage /\ headed.note = s.note
      /\ headed.member = s.member /\ headed.pending = s.pending
  <2>1. stamped \in NodeStates
    BY <1>2
  <2>2. /\ headed \in NodeStates
        /\ headed.head # None /\ headed.head.version = stamped.clock /\ headed.head.content = None
        /\ headed.clock = stamped.clock /\ headed.stage = stamped.stage
        /\ headed.note = stamped.note /\ headed.member = stamped.member
        /\ headed.pending = stamped.pending
    BY <2>1, <1>3, <1>a, HeadShape
  <2> HIDE DEF headed
  <2> QED BY <1>2, <2>2
<1> HIDE DEF headed
<1>5. CASE ~Attached(s)
  <2>1. r = headed
    BY <1>5 DEF CapturePurge, headed, stamped, selected
  <2>2. Tracked(headed)
    BY <1>1, <1>2, <1>3, <1>4, StateFields, EventFields, Order DEF Tracked
  <2>3. Continues(s, headed)
    BY <1>1, <1>2, <1>3, <1>4, Order DEF Continues
  <2> QED BY <1>2, <1>3, <1>4, <1>5, <2>1, <2>2, <2>3, Order DEF Purges
<1>6. CASE Attached(s)
  <2> DEFINE g == s.member.event.generation
             c == s.member.event.control
  <2>1. s.member # None /\ s.member.attached /\ g \in Stamp /\ c \in Stamp
    BY <1>6, StateFields, EventFields DEF Attached
  <2>2. r = Announce(headed, g, c, stamped.clock, "purge", None)
    BY <1>6 DEF CapturePurge, headed, stamped, selected
  <2>3. AtMost(g, c) /\ AtMost(c, s.clock)
    BY <2>1 DEF Tracked
  <2>4. "purge" \in Kinds
    BY DEF Kinds
  <2>5. Announced(s, r) <=> /\ r.member # None
                            /\ r.pending = r.member.event
                            /\ r.member.event.version = r.head.version
                            /\ r.member.event.content = r.head.content
                            /\ \/ Earlier(g, r.member.event.generation)
                               \/ /\ g = r.member.event.generation
                                  /\ AtMost(c, r.member.event.control)
                                  /\ r.member.attached => s.member.attached
    BY <2>1 DEF Announced, Forward
  <2> HIDE DEF g, c, r
  <2>6. /\ r \in NodeStates /\ r.clock = headed.clock /\ r.stage = headed.stage
        /\ r.note = headed.note /\ r.head = headed.head /\ r.member # None
        /\ r.member.event.generation = g /\ r.member.event.control = c
        /\ r.member.event.version = stamped.clock /\ r.member.event.content = None
        /\ r.pending = r.member.event
    BY <1>3, <1>4, <2>1, <2>2, <2>4, AnnounceShape
  <2>7. Tracked(r)
    BY <1>1, <1>2, <1>3, <1>4, <2>1, <2>3, <2>6, Order DEF Tracked
  <2>8. Continues(s, r)
    BY <1>1, <1>2, <1>3, <1>4, <2>6, Order DEF Continues
  <2>9. Announced(s, r)
    BY <1>4, <2>1, <2>5, <2>6, Order
  <2> QED BY <1>2, <1>3, <1>4, <2>6, <2>7, <2>8, <2>9, Order DEF Purges, r
<1> QED BY <1>5, <1>6

-----------------------------------------------------------------------------
(* What an answer to an announcement leaves behind.                        *)

\* The association is the same under another event.
Restates(s, r) ==
    /\ s.member # None /\ r.member # None
    /\ r.member.attached = s.member.attached
    /\ r.member.event.generation = s.member.event.generation
    /\ r.member.event.control = s.member.event.control
    /\ r.member.event.version = s.member.event.version
    /\ r.member.event.content = s.member.event.content

Settles(s, r, ack) ==
    /\ r \in NodeStates
    /\ r.note = s.note /\ r.stage = s.stage /\ r.clock = s.clock /\ r.head = s.head
    /\ \/ r.pending = None
       \/ r.pending = s.pending /\ r.pending # ack
    /\ \/ r.member = s.member
       \/ s.member.event = ack /\ Restates(s, r)

LEMMA AcknowledgeShape ==
    ASSUME NEW s \in NodeStates, NEW ack
    PROVE  Settles(s, Acknowledge(s, ack), ack)
<1> DEFINE settled == [s.member EXCEPT !.event.id   = NewId(s),
                                       !.event.kind = IF @ = "attach" THEN "snapshot" ELSE "fence"]
           settles == s.member # None /\ s.member.event = ack /\ ack.kind \in {"attach", "detach"}
           pending == IF s.pending = ack THEN None ELSE s.pending
           member  == IF settles THEN settled ELSE s.member
           minted  == IF settles THEN s.minted + 1 ELSE s.minted
           r       == Acknowledge(s, ack)
<1>1. r = [s EXCEPT !.pending = pending, !.member = member, !.minted = minted]
  BY DEF Acknowledge
<1>2. pending \in Events \cup {None} /\ minted \in Nat
  BY StateFields
<1>3. NewId(s) \in [node : Nodes, nr : Nat]
  BY StateFields DEF NewId
<1>4. settles => /\ settled \in Members
                 /\ settled.attached = s.member.attached
                 /\ settled.event.generation = s.member.event.generation
                 /\ settled.event.control = s.member.event.control
                 /\ settled.event.version = s.member.event.version
                 /\ settled.event.content = s.member.event.content
  <2> SUFFICES ASSUME settles
               PROVE  /\ settled \in Members
                      /\ settled.attached = s.member.attached
                      /\ settled.event.generation = s.member.event.generation
                      /\ settled.event.control = s.member.event.control
                      /\ settled.event.version = s.member.event.version
                      /\ settled.event.content = s.member.event.content
    OBVIOUS
  <2> DEFINE kind  == IF s.member.event.kind = "attach" THEN "snapshot" ELSE "fence"
             event == [s.member.event EXCEPT !.id = NewId(s), !.kind = kind]
  <2>1. s.member \in Members /\ s.member.event \in Events
    BY StateFields
  <2>2. kind \in {"attach", "snapshot", "detach", "purge", "fence"}
    OBVIOUS
  <2>3. settled = [s.member EXCEPT !.event = event]
    BY <2>1 DEF Members, Events
  <2> HIDE DEF kind
  <2>4. /\ event \in Events
        /\ event.generation = s.member.event.generation
        /\ event.control = s.member.event.control
        /\ event.version = s.member.event.version
        /\ event.content = s.member.event.content
    BY <1>3, <2>1, <2>2 DEF Events
  <2> HIDE DEF event, settled
  <2> QED BY <2>1, <2>3, <2>4 DEF Members
<1>5. member \in Members \cup {None}
  BY <1>4, StateFields
<1>6. settles => settled # None
  BY <1>4, NoneAssumption
<1>7. settles \/ member = s.member
  OBVIOUS
<1>8. settles => s.member # None /\ s.member.event = ack /\ member = settled
  OBVIOUS
<1>9. pending = None \/ (pending = s.pending /\ pending # ack)
  OBVIOUS
<1> HIDE DEF settled, settles, pending, member, minted, r
<1>10. r \in NodeStates
  BY <1>1, <1>2, <1>5 DEF NodeStates
<1>11. /\ r.note = s.note /\ r.stage = s.stage /\ r.clock = s.clock /\ r.head = s.head
       /\ r.pending = pending /\ r.member = member
  BY <1>1 DEF NodeStates
<1>12. settles => Restates(s, r)
  BY <1>4, <1>6, <1>8, <1>11 DEF Restates
<1> QED BY <1>7, <1>8, <1>9, <1>10, <1>11, <1>12 DEF Settles, r

LEMMA RecoverShape ==
    ASSUME NEW s \in NodeStates, Attached(s)
    PROVE  LET r == Recover(s)
           IN /\ r \in NodeStates
              /\ r.note = s.note /\ r.stage = s.stage /\ r.clock = s.clock /\ r.head = s.head
              /\ r.pending = r.member.event
              /\ Restates(s, r)
<1> DEFINE e == s.member.event
           r == Recover(s)
<1>1. /\ s.member # None /\ s.member.attached /\ e \in Events
      /\ s.member.attached \in BOOLEAN
  BY StateFields DEF Attached
<1> DEFINE g == e.generation
           c == e.control
           v == e.version
           content == e.content
           kind == "attach"
<1>2. g \in Stamp /\ c \in Stamp /\ v \in Stamp /\ content \in Contents \cup {None}
  BY <1>1, EventFields
<1>3. r = Announce(s, g, c, v, kind, content)
  BY DEF Recover
<1>4. Restates(s, r) <=> /\ r.member # None
                         /\ r.member.attached = s.member.attached
                         /\ r.member.event.generation = g
                         /\ r.member.event.control = c
                         /\ r.member.event.version = v
                         /\ r.member.event.content = content
  BY <1>1 DEF Restates
<1>5. kind \in Kinds /\ kind \notin {"detach", "fence"}
  BY DEF Kinds
<1> HIDE DEF g, c, v, content, kind, r
<1>6. /\ r \in NodeStates
      /\ r.note = s.note /\ r.stage = s.stage /\ r.clock = s.clock /\ r.head = s.head
      /\ r.member # None /\ r.pending = r.member.event
      /\ r.member.attached = (kind \notin {"detach", "fence"})
      /\ r.member.event.generation = g
      /\ r.member.event.control = c
      /\ r.member.event.version = v
      /\ r.member.event.content = content
  BY <1>2, <1>3, <1>5, AnnounceShape
<1>7. r.member.attached = s.member.attached
  BY <1>1, <1>5, <1>6
<1> QED BY <1>4, <1>6, <1>7 DEF r

-----------------------------------------------------------------------------
(* What a received event leaves behind.                                    *)

LEMMA LaterLaw ==
    ASSUME NEW a \in Stamp, NEW b \in Stamp
    PROVE  Later(a, b) \in Stamp /\ AtMost(a, Later(a, b)) /\ AtMost(b, Later(a, b))
  BY Order DEF Later

LEMMA ReceiveShape ==
    ASSUME NEW s \in NodeStates, NEW e \in Events
    PROVE  LET r == [s EXCEPT !.received = @ \cup {e}]
           IN /\ r \in NodeStates
              /\ r.clock = s.clock /\ r.stage = s.stage /\ r.note = s.note
              /\ r.head = s.head /\ r.member = s.member /\ r.pending = s.pending
  BY DEF NodeStates

\* The clock, the stage and the association after an event that is applied.
Adopts(s, r, e) ==
    /\ r \in NodeStates
    /\ r.stage = s.stage
    /\ AtMost(s.clock, r.clock) /\ r.clock.node = s.clock.node
    /\ AtMost(e.control, r.clock)
    /\ r.member # None
    /\ r.member.event.generation = e.generation
    /\ r.member.event.control = e.control
    /\ r.member.attached => e.kind # "detach"

\* What still waits is not covered by the event.
Uncovered(s, e) ==
    /\ s.pending # None
    /\ ~ /\ AtMost(s.pending.generation, e.generation)
         /\ e.kind = "detach" \/ AtMost(s.pending.version, e.version)

Accepts(s, r, e) ==
    /\ Adopts(s, r, e)
    /\ \/ \* the node's own version is later and is announced
          /\ s.head # None /\ Earlier(e.version, s.head.version)
          /\ r.head = s.head /\ r.note = s.note
          /\ r.member.event.version = s.head.version
          /\ r.member.event.content = s.head.content
          /\ r.pending = r.member.event
       \/ /\ \/ s.head # None /\ s.head.version = e.version /\ r.head = s.head /\ r.note = s.note
             \/ /\ s.head # None => Earlier(s.head.version, e.version)
                /\ r.head # None /\ r.note = e.content
                /\ r.head.version = e.version /\ r.head.content = e.content
          /\ r.member.event.version = e.version
          /\ r.member.event.content = e.content
          /\ \/ r.pending = None
             \/ r.pending = s.pending /\ Uncovered(s, e)

LEMMA AcceptShape ==
    ASSUME NEW s \in NodeStates, NEW e \in Events, e.kind # "fence",
           AtMost(e.generation, e.control), NEW now \in Nat
    PROVE  Accepts(s, Accept(s, e, now), e)
<1> DEFINE seen     == Later(Later(e.version, e.control), e.generation)
           ticked   == Tick(s, seen, now)
           winning  == s.head = None \/ Earlier(s.head.version, e.version)
           taken    == [ticked EXCEPT !.note = e.content,
                                      !.head = Head(Matches(s, e.content), e.version, e.content)]
           merged   == IF ~winning THEN ticked ELSE taken
           covers   == /\ s.pending # None
                       /\ AtMost(s.pending.generation, e.generation)
                       /\ e.kind = "detach" \/ AtMost(s.pending.version, e.version)
           pending  == IF covers THEN None ELSE s.pending
           opened   == [attached |-> e.kind # "detach", event |-> e]
           joined   == [merged EXCEPT !.member = opened, !.pending = pending]
           answer   == Announce(merged, e.generation, e.control, s.head.version,
                                AnswerKind(s.head, e), s.head.content)
           settled  == [joined EXCEPT !.member.event.kind = "snapshot",
                                      !.member.event.id   = NewId(s),
                                      !.minted            = @ + 1]
           later    == s.head # None /\ Earlier(e.version, s.head.version)
           result   == IF later THEN answer
                       ELSE IF e.kind = "attach" /\ pending = None THEN settled ELSE joined
           r        == Accept(s, e, now)
<1>1. r = [result EXCEPT !.received = @ \cup {e}]
  BY DEF Accept
<1>2. /\ e.version \in Stamp /\ e.control \in Stamp /\ e.generation \in Stamp
      /\ e.content \in Contents \cup {None} /\ e.kind \in Kinds
  BY EventFields
<1>3. /\ s.clock \in Stamp /\ s.pending \in Events \cup {None}
      /\ s.head # None => s.head.version \in Stamp /\ s.head.content \in Contents \cup {None}
  BY StateFields
<1>4. seen \in Stamp /\ AtMost(e.control, seen)
  <2>1. /\ Later(e.version, e.control) \in Stamp
        /\ AtMost(e.control, Later(e.version, e.control))
    BY <1>2, LaterLaw
  <2>2. seen \in Stamp /\ AtMost(Later(e.version, e.control), seen)
    BY <1>2, <2>1, LaterLaw
  <2> QED BY <1>2, <2>1, <2>2, Order
<1> HIDE DEF seen
<1>5. /\ ticked \in NodeStates
      /\ Earlier(s.clock, ticked.clock) /\ Earlier(seen, ticked.clock)
      /\ ticked.clock.node = s.clock.node /\ ticked.stage = s.stage /\ ticked.minted = s.minted
      /\ ticked.note = s.note /\ ticked.head = s.head
  BY <1>4, TickShape
<1>6. ticked.clock \in Stamp
  BY <1>5, StateFields
<1>7. AtMost(s.clock, ticked.clock) /\ AtMost(e.control, ticked.clock)
  BY <1>2, <1>3, <1>4, <1>5, <1>6, Order
<1> HIDE DEF ticked
<1>8. winning => /\ taken \in NodeStates
                 /\ taken.clock = ticked.clock /\ taken.stage = s.stage /\ taken.minted = s.minted
                 /\ taken.note = e.content /\ taken.head # None
                 /\ taken.head.version = e.version /\ taken.head.content = e.content
  <2> DEFINE selected == Matches(s, e.content)
             noted    == [ticked EXCEPT !.note = e.content]
  <2>1. selected \in BOOLEAN
    BY StateFields, <1>2 DEF Matches, Contents
  <2>2. taken = [noted EXCEPT !.head = Head(selected, e.version, e.content)]
    BY <1>5 DEF NodeStates
  <2>3. /\ noted \in NodeStates /\ noted.clock = ticked.clock /\ noted.stage = ticked.stage
        /\ noted.minted = ticked.minted /\ noted.note = e.content
    BY <1>2, <1>5 DEF NodeStates
  <2> HIDE DEF selected, noted, taken
  <2> QED BY <1>2, <1>5, <2>1, <2>2, <2>3, HeadShape
<1> HIDE DEF taken
<1>9. /\ merged \in NodeStates
      /\ merged.clock = ticked.clock /\ merged.stage = s.stage /\ merged.minted = s.minted
      /\ winning => /\ merged.note = e.content /\ merged.head # None
                    /\ merged.head.version = e.version /\ merged.head.content = e.content
      /\ ~winning => merged.head = s.head /\ merged.note = s.note
  BY <1>5, <1>8
<1> HIDE DEF merged
<1>10. CASE later
  <2> DEFINE kind    == AnswerKind(s.head, e)
             version == s.head.version
             content == s.head.content
             g       == e.generation
             c       == e.control
  <2>1. kind \in Kinds /\ (e.kind = "detach" => kind \in {"detach", "fence"})
    BY DEF AnswerKind, Kinds
  <2>2. version \in Stamp /\ content \in Contents \cup {None} /\ g \in Stamp /\ c \in Stamp
    BY <1>2, <1>3, <1>10
  <2>3. ~winning
    BY <1>2, <1>3, <1>10, Order
  <2>4. result = Announce(merged, g, c, version, kind, content)
    BY <1>10
  <2> HIDE DEF kind, version, content, g, c, result
  <2>5. /\ result \in NodeStates
        /\ result.clock = merged.clock /\ result.stage = merged.stage
        /\ result.note = merged.note /\ result.head = merged.head
        /\ result.member # None
        /\ result.member.attached = (kind \notin {"detach", "fence"})
        /\ result.member.event.generation = g /\ result.member.event.control = c
        /\ result.member.event.version = version /\ result.member.event.content = content
        /\ result.pending = result.member.event
    BY <1>9, <2>1, <2>2, <2>4, AnnounceShape
  <2>6. result.member.attached => e.kind # "detach"
    BY <2>1, <2>5
  <2>7. /\ r \in NodeStates
        /\ r.clock = result.clock /\ r.stage = result.stage /\ r.note = result.note
        /\ r.head = result.head /\ r.member = result.member /\ r.pending = result.pending
    BY <1>1, <2>5, ReceiveShape
  <2> HIDE DEF r
  <2>8. Adopts(s, r, e)
    BY <1>5, <1>7, <1>9, <2>5, <2>6, <2>7 DEF Adopts, g, c
  <2> QED BY <1>9, <1>10, <2>3, <2>5, <2>7, <2>8 DEF Accepts, version, content, r
<1>11. CASE ~later
  <2>1. pending \in Events \cup {None}
    BY <1>3
  <2>2. pending = None \/ (pending = s.pending /\ Uncovered(s, e))
    BY DEF Uncovered
  <2>3. opened \in Members /\ opened.event = e /\ (opened.attached => e.kind # "detach")
    <3>1. (e.kind # "detach") \in BOOLEAN
      OBVIOUS
    <3>2. opened \in Members
      BY <3>1 DEF Members
    <3> QED BY <3>2
  <2>4. /\ winning => (s.head # None => Earlier(s.head.version, e.version))
        /\ ~winning => s.head # None /\ s.head.version = e.version
    BY <1>2, <1>3, <1>11, Order
  <2>5. result = settled \/ result = joined
    BY <1>11
  <2> HIDE DEF opened, pending, later
  <2>6. /\ joined \in NodeStates
        /\ joined.clock = merged.clock /\ joined.minted = merged.minted
        /\ joined.stage = merged.stage /\ joined.note = merged.note /\ joined.head = merged.head
        /\ joined.member # None /\ joined.member = opened /\ joined.pending = pending
    <3>1. opened # None
      BY <2>3, NoneAssumption
    <3>2. joined = [merged EXCEPT !.member = opened, !.pending = pending]
      OBVIOUS
    <3> HIDE DEF joined
    <3>3. joined \in NodeStates
      BY <1>9, <2>1, <2>3, <3>2 DEF NodeStates
    <3> QED BY <1>9, <3>1, <3>2, <3>3 DEF NodeStates
  <2> HIDE DEF joined
  <2>7. /\ settled \in NodeStates
        /\ settled.clock = joined.clock /\ settled.stage = joined.stage
        /\ settled.note = joined.note /\ settled.head = joined.head
        /\ settled.pending = joined.pending
        /\ settled.member # None /\ settled.member.attached = opened.attached
        /\ settled.member.event.generation = e.generation
        /\ settled.member.event.control = e.control
        /\ settled.member.event.version = e.version
        /\ settled.member.event.content = e.content
    <3> DEFINE event  == [e EXCEPT !.kind = "snapshot", !.id = NewId(s)]
               member == [opened EXCEPT !.event = event]
               minted == joined.minted + 1
    <3>1. NewId(s) \in [node : Nodes, nr : Nat]
      BY StateFields DEF NewId
    <3>2. /\ event \in Events
          /\ event.generation = e.generation /\ event.control = e.control
          /\ event.version = e.version /\ event.content = e.content
      BY <3>1 DEF Events
    <3>3. member = [opened EXCEPT !.event.kind = "snapshot", !.event.id = NewId(s)]
      BY <2>3 DEF Members, Events
    <3>4. joined.member = opened
      BY <2>6
    <3>5. settled = [joined EXCEPT !.member = member, !.minted = minted]
      <4>1. settled = [joined EXCEPT !.member = [joined.member EXCEPT
                                                   !.event.kind = "snapshot",
                                                   !.event.id = NewId(s)],
                                     !.minted = joined.minted + 1]
        BY <2>6 DEF NodeStates, Members, Events
      <4> HIDE DEF settled, member
      <4> QED BY <3>3, <3>4, <4>1
    <3> HIDE DEF event, settled
    <3>6. member \in Members /\ member.attached = opened.attached /\ member.event = event
      BY <2>3, <3>2 DEF Members
    <3>7. member # None /\ minted \in Nat
      BY <2>6, <3>6, NoneAssumption, StateFields
    <3> HIDE DEF member, minted
    <3>8. settled \in NodeStates
      BY <2>6, <3>5, <3>6, <3>7 DEF NodeStates
    <3>9. /\ settled.clock = joined.clock /\ settled.stage = joined.stage
          /\ settled.note = joined.note /\ settled.head = joined.head
          /\ settled.pending = joined.pending /\ settled.member = member
      BY <2>6, <3>5 DEF NodeStates
    <3> QED BY <3>2, <3>6, <3>7, <3>8, <3>9
  <2> HIDE DEF settled
  <2>8. result.member.attached = opened.attached
    BY <2>5, <2>6, <2>7
  <2>9. /\ result \in NodeStates
        /\ result.clock = ticked.clock /\ result.stage = s.stage
        /\ result.note = merged.note /\ result.head = merged.head
        /\ result.pending = pending
        /\ result.member # None
        /\ result.member.event.generation = e.generation
        /\ result.member.event.control = e.control
        /\ result.member.event.version = e.version
        /\ result.member.event.content = e.content
    BY <1>9, <2>3, <2>5, <2>6, <2>7
  <2> HIDE DEF result
  <2>10. /\ r \in NodeStates
         /\ r.clock = result.clock /\ r.stage = result.stage /\ r.note = result.note
         /\ r.head = result.head /\ r.member = result.member /\ r.pending = result.pending
    BY <1>1, <2>9, ReceiveShape
  <2> HIDE DEF r
  <2>11. Adopts(s, r, e)
    BY <1>5, <1>7, <2>3, <2>8, <2>9, <2>10 DEF Adopts
  <2>12. \/ s.head # None /\ s.head.version = e.version /\ r.head = s.head /\ r.note = s.note
         \/ /\ s.head # None => Earlier(s.head.version, e.version)
            /\ r.head # None /\ r.note = e.content
            /\ r.head.version = e.version /\ r.head.content = e.content
    <3> HIDE DEF winning
    <3> QED BY <1>9, <2>4, <2>9, <2>10
  <2> QED BY <2>2, <2>9, <2>10, <2>11, <2>12 DEF Accepts, r
<1> QED BY <1>10, <1>11

\* A fence brings an association and no content.
Fences(s, r, e) ==
    /\ Adopts(s, r, e)
    /\ ~Overtaken(s, e)
    /\ r.head = s.head /\ r.note = s.note
    /\ r.member.event = e /\ ~r.member.attached
    /\ \/ r.pending = None
       \/ r.pending = s.pending /\ ~AtMost(s.pending.generation, e.generation)

LEMMA FenceShape ==
    ASSUME NEW s \in NodeStates, NEW e \in Events, AtMost(e.generation, e.control),
           NEW now \in Nat
    PROVE  ApplyFence(s, e, now) = s \/ Fences(s, ApplyFence(s, e, now), e)
<1> DEFINE ticked  == Tick(s, e.control, now)
           pending == IF s.pending # None /\ AtMost(s.pending.generation, e.generation)
                      THEN None ELSE s.pending
           closed  == [attached |-> FALSE, event |-> e]
           joined  == [ticked EXCEPT !.member = closed, !.pending = pending]
           r       == ApplyFence(s, e, now)
<1> SUFFICES ASSUME ~Overtaken(s, e)
             PROVE  Fences(s, r, e)
  BY DEF ApplyFence
<1>1. e.control \in Stamp /\ s.clock \in Stamp /\ s.pending \in Events \cup {None}
  BY EventFields, StateFields
<1>2. /\ ticked \in NodeStates
      /\ Earlier(s.clock, ticked.clock) /\ Earlier(e.control, ticked.clock)
      /\ ticked.clock.node = s.clock.node /\ ticked.stage = s.stage
      /\ ticked.note = s.note /\ ticked.head = s.head
      /\ ticked.pending = s.pending
  BY <1>1, TickShape
<1>3. r = [joined EXCEPT !.received = @ \cup {e}]
  BY <1>2 DEF ApplyFence, NodeStates
<1>4. /\ pending \in Events \cup {None}
      /\ closed \in Members /\ ~closed.attached /\ closed.event = e
  BY <1>1 DEF Members
<1>5. \/ pending = None
      \/ pending = s.pending /\ ~AtMost(s.pending.generation, e.generation)
  OBVIOUS
<1>6. ticked.clock \in Stamp
  BY <1>2, StateFields
<1> HIDE DEF ticked, pending, closed
<1>7. /\ joined \in NodeStates
      /\ joined.clock = ticked.clock /\ joined.stage = ticked.stage
      /\ joined.note = ticked.note /\ joined.head = ticked.head
      /\ joined.member # None /\ joined.member = closed
      /\ joined.pending = pending
  <2>1. closed # None
    BY <1>4, NoneAssumption
  <2>2. joined = [ticked EXCEPT !.member = closed, !.pending = pending]
    OBVIOUS
  <2> HIDE DEF joined
  <2>3. joined \in NodeStates
    BY <1>2, <1>4, <2>2 DEF NodeStates
  <2> QED BY <1>2, <2>1, <2>2, <2>3 DEF NodeStates
<1> HIDE DEF joined
<1>8. /\ r \in NodeStates
      /\ r.clock = joined.clock /\ r.stage = joined.stage /\ r.note = joined.note
      /\ r.head = joined.head /\ r.member = joined.member /\ r.pending = joined.pending
  BY <1>3, <1>7, ReceiveShape
<1> HIDE DEF r
<1>9. Adopts(s, r, e)
  BY <1>1, <1>2, <1>4, <1>6, <1>7, <1>8, Order DEF Adopts
<1> QED BY <1>2, <1>4, <1>5, <1>7, <1>8, <1>9 DEF Fences, r

-----------------------------------------------------------------------------
(* What every change of a node's records keeps.                            *)

\* The head is the version of the note, once there is one.
Rooted(s) ==
    /\ s.head # None => s.head.content = s.note
    /\ s.note # None /\ s.head = None => s.stage = "configured"

\* An open association, and what waits to be sent, is of the head or older.
Held(s) ==
    /\ Attached(s) => s.head # None /\ AtMost(s.member.event.version, s.head.version)
    /\ s.pending # None =>
          /\ s.member # None /\ s.member.event = s.pending
          /\ s.head # None /\ AtMost(s.pending.version, s.head.version)

Safe(s, r) ==
    /\ r \in NodeStates
    /\ AtMost(s.clock, r.clock) /\ r.clock.node = s.clock.node
    /\ Tracked(r)
    /\ Rooted(r)
    /\ s.member # None => r.member # None /\ Forward(s.member, r.member)

Rises(s, r) ==
    s.member # None /\ s.head # None =>
        r.head # None /\ AtMost(s.head.version, r.head.version)

States(e, f) == e.version = f.version /\ e.content = f.content

\* The head of r was the head of s, or was received, or is new: issued by the
\* node itself, and later than what it issued before.
HeadOrigin(s, r, received) ==
    r.head # None =>
        \/ s.head # None /\ States(r.head, s.head)
        \/ \E e \in received : States(r.head, e)
        \/ /\ r.head.version.node = s.clock.node
           /\ s.head # None => /\ Earlier(s.clock, r.head.version)
                               /\ s.member # None => Earlier(s.head.version, r.head.version)

MemberOrigin(s, r, received) ==
    r.member # None =>
        \/ s.member # None /\ States(r.member.event, s.member.event)
        \/ r.head # None /\ States(r.member.event, r.head)
        \/ \E e \in received : States(r.member.event, e)

Evolves(s, r, received) ==
    /\ Held(r)
    /\ s.head # None => r.head # None
    /\ Rises(s, r)
    /\ HeadOrigin(s, r, received)
    /\ MemberOrigin(s, r, received)

Keeps(s, r, received) == Rises(s, r) /\ (Held(s) => Evolves(s, r, received))

LEMMA ForwardReflexive ==
    ASSUME NEW m \in Members
    PROVE  Forward(m, m)
<1>1. m.event \in Events
  BY DEF Members
<1> QED BY <1>1, EventFields, Order DEF Forward

LEMMA ForwardTransitive ==
    ASSUME NEW a \in Members, NEW b \in Members, NEW c \in Members,
           Forward(a, b), Forward(b, c)
    PROVE  Forward(a, c)
<1>1. a.event \in Events /\ b.event \in Events /\ c.event \in Events
  BY DEF Members
<1>2. /\ a.event.generation \in Stamp /\ a.event.control \in Stamp
      /\ b.event.generation \in Stamp /\ b.event.control \in Stamp
      /\ c.event.generation \in Stamp /\ c.event.control \in Stamp
  BY <1>1, EventFields
<1> QED BY <1>2, Order, EarlierTransitive DEF Forward

LEMMA SafeTransitive ==
    ASSUME NEW s \in NodeStates, NEW c \in NodeStates, NEW r, Safe(s, c), Safe(c, r)
    PROVE  Safe(s, r)
<1>1. r \in NodeStates
  BY DEF Safe
<1>2. s.clock \in Stamp /\ c.clock \in Stamp /\ r.clock \in Stamp
  BY <1>1, StateFields
<1>3. AtMost(s.clock, r.clock) /\ r.clock.node = s.clock.node
  BY <1>2, Order DEF Safe
<1>4. s.member # None => r.member # None /\ Forward(s.member, r.member)
  <2> SUFFICES ASSUME s.member # None
               PROVE  r.member # None /\ Forward(s.member, r.member)
    OBVIOUS
  <2>1. c.member # None /\ r.member # None /\ Forward(s.member, c.member) /\ Forward(c.member, r.member)
    BY DEF Safe
  <2>2. s.member \in Members /\ c.member \in Members /\ r.member \in Members
    BY <1>1, <2>1, StateFields
  <2> QED BY <2>1, <2>2, ForwardTransitive
<1> QED BY <1>1, <1>3, <1>4 DEF Safe

(* Only the clock, the head, the member and the pending event matter.      *)
Alike(s, t) ==
    s.clock = t.clock /\ s.head = t.head /\ s.member = t.member /\ s.pending = t.pending

LEMMA AlikeBefore ==
    ASSUME NEW s, NEW t, NEW r, NEW received, Alike(s, t)
    PROVE  /\ Tracked(s) <=> Tracked(t)
           /\ Held(s) <=> Held(t)
           /\ Safe(s, r) <=> Safe(t, r)
           /\ Keeps(s, r, received) <=> Keeps(t, r, received)
  BY DEF Alike, Tracked, Held, Attached, Safe, Keeps, Evolves, Rises, HeadOrigin, MemberOrigin

LEMMA AlikeAfter ==
    ASSUME NEW s, NEW q, NEW r, NEW received, Alike(q, r)
    PROVE  Keeps(s, q, received) <=> Keeps(s, r, received)
  BY DEF Alike, Held, Attached, Keeps, Evolves, Rises, HeadOrigin, MemberOrigin

LEMMA StandsStill ==
    ASSUME NEW s \in NodeStates, Tracked(s), Rooted(s), NEW received
    PROVE  Safe(s, s) /\ Keeps(s, s, received)
<1>1. s.member # None => Forward(s.member, s.member)
  BY StateFields, ForwardReflexive
<1>2. AtMost(s.clock, s.clock) /\ (s.head # None => AtMost(s.head.version, s.head.version))
  BY StateFields, Order
<1> QED BY <1>1, <1>2 DEF Safe, Keeps, Evolves, Rises, HeadOrigin, MemberOrigin, States

LEMMA CaptureSafe ==
    ASSUME NEW s \in NodeStates, NEW r, NEW historical, Captures(s, r, historical)
    PROVE  Safe(s, r)
<1>1. s.member # None => r.member # None /\ Forward(s.member, r.member)
  BY StateFields, ForwardReflexive DEF Captures, Announced
<1> QED BY <1>1 DEF Captures, Continues, Safe, Rooted

LEMMA CaptureRaises ==
    ASSUME NEW s \in NodeStates, NEW r, NEW historical, Captures(s, r, historical)
    PROVE  /\ r \in NodeStates /\ r.head # None /\ r.head.content = s.note
           /\ s.head # None => AtMost(s.head.version, r.head.version)
<1>1. r \in NodeStates /\ r.head # None /\ r.head.content = s.note
  BY DEF Captures, Continues
<1>2. s.head # None => AtMost(s.head.version, r.head.version)
  BY <1>1, StateFields, Order DEF Captures, Issues
<1> QED BY <1>1, <1>2

LEMMA CaptureKeeps ==
    ASSUME NEW s \in NodeStates, NEW r, NEW historical, Captures(s, r, historical),
           historical /\ s.head # None => s.head.content = s.note,
           NEW received
    PROVE  Keeps(s, r, received)
<1>0. Rises(s, r)
  BY CaptureRaises DEF Rises
<1> SUFFICES ASSUME Held(s)
             PROVE  Evolves(s, r, received)
  BY <1>0 DEF Keeps
<1>1. r \in NodeStates /\ r.head # None /\ r.head.content = s.note
  BY CaptureRaises
<1>2. s.head # None => AtMost(s.head.version, r.head.version)
  BY CaptureRaises
<1>3. Held(r)
  <2>1. CASE ~Attached(s) /\ r.member = s.member /\ r.pending = s.pending
    <3> SUFFICES ASSUME s.pending # None
                 PROVE  AtMost(s.pending.version, r.head.version)
      BY <1>1, <2>1 DEF Held, Attached
    <3>1. /\ s.pending.version \in Stamp /\ s.head # None
          /\ s.head.version \in Stamp /\ r.head.version \in Stamp
          /\ AtMost(s.pending.version, s.head.version)
      BY <1>1, StateFields, EventFields DEF Held
    <3> QED BY <1>2, <3>1, Order
  <2>2. CASE Announced(s, r)
    BY <1>1, <2>2, StateFields, Order DEF Announced, Held
  <2> QED BY <2>1, <2>2 DEF Captures
<1>4. HeadOrigin(s, r, received)
  BY <1>1 DEF Captures, Issues, HeadOrigin, States
<1>5. MemberOrigin(s, r, received)
  BY <1>1 DEF Captures, Announced, MemberOrigin, States
<1> QED BY <1>1, <1>2, <1>3, <1>4, <1>5 DEF Evolves, Rises

\* Two captures in one deletion: the note as it was, then its absence.  The
\* version must not fall behind one that takes part in synchronization.
LEMMA PurgeSafe ==
    ASSUME NEW s \in NodeStates, NEW r, Purges(s, r), s.note = None
    PROVE  Safe(s, r)
<1>1. s.member # None => r.member # None /\ Forward(s.member, r.member)
  BY StateFields, ForwardReflexive DEF Purges, Announced
<1> QED BY <1>1 DEF Purges, Continues, Safe, Rooted

LEMMA PurgeKeeps ==
    ASSUME NEW s \in NodeStates, NEW r, Purges(s, r),
           s.member # None /\ s.head # None => AtMost(s.head.version, s.clock),
           NEW received
    PROVE  Keeps(s, r, received)
<1>1. r \in NodeStates /\ r.head # None /\ r.head.version \in Stamp /\ s.clock \in Stamp
  BY StateFields DEF Purges, Continues
<1>2. s.member # None /\ s.head # None =>
        Earlier(s.head.version, r.head.version) /\ AtMost(s.head.version, r.head.version)
  BY <1>1, StateFields, Order DEF Purges
<1>0. Rises(s, r)
  BY <1>1, <1>2 DEF Rises
<1> SUFFICES ASSUME Held(s)
             PROVE  Evolves(s, r, received)
  BY <1>0 DEF Keeps
<1>3. Held(r)
  <2>1. CASE ~Attached(s) /\ r.member = s.member /\ r.pending = s.pending
    <3> SUFFICES ASSUME s.pending # None
                 PROVE  AtMost(s.pending.version, r.head.version)
      BY <1>1, <2>1 DEF Held, Attached
    <3>1. /\ s.pending.version \in Stamp /\ s.head # None /\ s.member # None
          /\ s.head.version \in Stamp
          /\ AtMost(s.pending.version, s.head.version)
      BY <1>1, StateFields, EventFields DEF Held
    <3> QED BY <1>1, <1>2, <3>1, Order
  <2>2. CASE Announced(s, r)
    BY <1>1, <2>2, Order DEF Announced, Held
  <2> QED BY <2>1, <2>2 DEF Purges
<1>4. HeadOrigin(s, r, received)
  BY <1>1, <1>2 DEF Purges, HeadOrigin
<1>5. MemberOrigin(s, r, received)
  BY <1>1 DEF Purges, Announced, MemberOrigin, States
<1> QED BY <1>1, <1>2, <1>3, <1>4, <1>5 DEF Evolves, Rises

(* A note that was never captured with its association gets its history    *)
(* first.                                                                  *)
LEMMA PurgeAfterCapture ==
    ASSUME NEW s \in NodeStates, NEW c, NEW t, NEW r, Captures(s, c, TRUE),
           s.head = None \/ s.member = None,
           t \in NodeStates, Alike(t, c), Purges(t, r), NEW received
    PROVE  Keeps(s, r, received)
<1>0. Rises(s, r)
  BY DEF Rises
<1> SUFFICES ASSUME Held(s)
             PROVE  Evolves(s, r, received)
  BY <1>0 DEF Keeps
<1>1. c \in NodeStates /\ r \in NodeStates /\ r.head # None
  BY DEF Captures, Continues, Purges
<1>2. ~Attached(s) /\ s.pending = None
  BY DEF Held, Attached
<1>3. Earlier(s.clock, r.head.version) /\ r.head.version.node = s.clock.node
  BY <1>1, StateFields, Order DEF Purges, Captures, Continues, Alike
<1>4. CASE Attached(t)
  <2>1. Announced(t, r)
    BY <1>4 DEF Purges
  <2>2. Held(r)
    BY <1>1, <2>1, StateFields, Order DEF Announced, Held
  <2>3. MemberOrigin(s, r, received)
    BY <1>1, <2>1 DEF Announced, MemberOrigin, States
  <2> QED BY <1>1, <1>3, <2>2, <2>3 DEF Evolves, Rises, HeadOrigin
<1>5. CASE ~Attached(t)
  <2>1. CASE r.member = t.member /\ r.pending = t.pending
    <3>1. ~Attached(c)
      BY <1>5 DEF Alike, Attached
    <3>2. c.member = s.member /\ c.pending = s.pending
      BY <1>2, <3>1 DEF Captures
    <3>3. r.member = s.member /\ r.pending = None /\ ~Attached(r)
      BY <1>2, <2>1, <3>2 DEF Alike, Attached
    <3> QED BY <1>1, <1>3, <3>3 DEF Evolves, Held, Rises, HeadOrigin, MemberOrigin, States
  <2>2. CASE Announced(t, r)
    <3>1. Held(r)
      BY <1>1, <2>2, StateFields, Order DEF Announced, Held
    <3>2. MemberOrigin(s, r, received)
      BY <1>1, <2>2 DEF Announced, MemberOrigin, States
    <3> QED BY <1>1, <1>3, <3>1, <3>2 DEF Evolves, Rises, HeadOrigin
  <2> QED BY <1>5, <2>1, <2>2 DEF Purges
<1> QED BY <1>4, <1>5

LEMMA SettleSafe ==
    ASSUME NEW s \in NodeStates, NEW r, NEW ack, Settles(s, r, ack), Tracked(s), Rooted(s)
    PROVE  Safe(s, r)
<1>1. AtMost(s.clock, s.clock)
  BY StateFields, Order
<1>2. s.member # None => r.member # None /\ Forward(s.member, r.member)
  <2>1. CASE r.member = s.member
    BY <2>1, StateFields, ForwardReflexive
  <2>2. CASE Restates(s, r)
    <3>1. s.member # None => AtMost(s.member.event.control, s.member.event.control)
      BY StateFields, EventFields, Order
    <3> QED BY <2>2, <3>1 DEF Restates, Forward
  <2> QED BY <2>1, <2>2 DEF Settles
<1>3. Tracked(r)
  BY DEF Tracked, Settles, Restates
<1> QED BY <1>1, <1>2, <1>3 DEF Settles, Safe, Rooted

LEMMA SettleKeeps ==
    ASSUME NEW s \in NodeStates, NEW r, NEW ack, Settles(s, r, ack), NEW received
    PROVE  Keeps(s, r, received)
<1>1. s.head # None => AtMost(s.head.version, s.head.version)
  BY StateFields, Order
<1>0. Rises(s, r)
  BY <1>1 DEF Settles, Rises
<1> SUFFICES ASSUME Held(s)
             PROVE  Evolves(s, r, received)
  BY <1>0 DEF Keeps
<1>2. Held(r)
  BY DEF Held, Attached, Settles, Restates
<1> QED BY <1>1, <1>2 DEF Settles, Restates, Evolves, Rises, HeadOrigin, MemberOrigin, States

LEMMA RecoverSteps ==
    ASSUME NEW s \in NodeStates, Attached(s), Tracked(s), Rooted(s), NEW received
    PROVE  /\ Safe(s, Recover(s))
           /\ Recover(s).stage = s.stage
           /\ Keeps(s, Recover(s), received)
<1> DEFINE r == Recover(s)
<1>1. /\ r \in NodeStates
      /\ r.note = s.note /\ r.stage = s.stage /\ r.clock = s.clock /\ r.head = s.head
      /\ r.pending = r.member.event
      /\ Restates(s, r)
  BY RecoverShape
<1> HIDE DEF r
<1>2. /\ AtMost(s.clock, s.clock)
      /\ s.head # None => AtMost(s.head.version, s.head.version)
      /\ s.member # None => AtMost(s.member.event.control, s.member.event.control)
  BY StateFields, EventFields, Order
<1>3. Tracked(r) /\ Rooted(r)
  BY <1>1 DEF Tracked, Rooted, Restates
<1>4. Safe(s, r)
  BY <1>1, <1>2, <1>3 DEF Safe, Restates, Forward
<1>5. Held(s) => Held(r)
  BY <1>1 DEF Held, Attached, Restates
<1>6. Keeps(s, r, received)
  BY <1>1, <1>2, <1>5 DEF Keeps, Evolves, Rises, HeadOrigin, MemberOrigin, Restates, States
<1> QED BY <1>1, <1>4, <1>6 DEF r

(* A pending event is of the association, and the event replaces it.       *)
LEMMA NothingUncovered ==
    ASSUME NEW s \in NodeStates, NEW e \in Events, Held(s), Allowed(s, e),
           s.head # None => AtMost(s.head.version, e.version)
    PROVE  ~Uncovered(s, e)
<1> SUFFICES ASSUME s.pending # None
             PROVE  AtMost(s.pending.generation, e.generation) /\ AtMost(s.pending.version, e.version)
  BY DEF Uncovered
<1>1. /\ s.member # None /\ s.member.event = s.pending /\ s.head # None
      /\ AtMost(s.pending.version, s.head.version)
  BY DEF Held
<1>2. /\ s.pending.generation \in Stamp /\ s.pending.version \in Stamp
      /\ s.head.version \in Stamp /\ e.version \in Stamp /\ e.generation \in Stamp
  BY <1>1, StateFields, EventFields
<1>3. \/ Earlier(s.pending.generation, e.generation)
      \/ e.generation = s.pending.generation
  BY <1>1 DEF Allowed
<1> QED BY <1>1, <1>2, <1>3, Order

LEMMA AcceptSafe ==
    ASSUME NEW s \in NodeStates, NEW e \in Events, NEW r, Accepts(s, r, e),
           Allowed(s, e), AtMost(e.generation, e.control), Rooted(s)
    PROVE  Safe(s, r)
<1>1. Tracked(r)
  BY DEF Accepts, Adopts, Tracked
<1>2. Rooted(r)
  BY DEF Accepts, Rooted
<1>3. s.member # None => Forward(s.member, r.member)
  BY DEF Accepts, Adopts, Allowed, Forward
<1> QED BY <1>1, <1>2, <1>3 DEF Accepts, Adopts, Safe

LEMMA AcceptKeeps ==
    ASSUME NEW s \in NodeStates, NEW e \in Events, NEW r, Accepts(s, r, e),
           Allowed(s, e)
    PROVE  Keeps(s, r, {e})
<1>1. r.member # None /\ r.head # None
  BY DEF Accepts, Adopts
<1>2. s.head # None => s.head.version \in Stamp /\ AtMost(s.head.version, s.head.version)
  BY StateFields, Order
<1>0. Rises(s, r)
  <2>1. e.version \in Stamp
    BY EventFields
  <2> QED BY <1>1, <1>2, <2>1, Order DEF Accepts, Rises
<1> SUFFICES ASSUME Held(s)
             PROVE  Evolves(s, r, {e})
  BY <1>0 DEF Keeps
<1>3. CASE /\ s.head # None /\ Earlier(e.version, s.head.version)
           /\ r.head = s.head /\ r.note = s.note
           /\ r.member.event.version = s.head.version
           /\ r.member.event.content = s.head.content
           /\ r.pending = r.member.event
  <2>1. Held(r)
    BY <1>1, <1>2, <1>3 DEF Held
  <2> QED BY <1>1, <1>2, <1>3, <2>1 DEF Evolves, Rises, HeadOrigin, MemberOrigin, States
<1>4. CASE /\ \/ s.head # None /\ s.head.version = e.version /\ r.head = s.head /\ r.note = s.note
              \/ /\ s.head # None => Earlier(s.head.version, e.version)
                 /\ r.head # None /\ r.note = e.content
                 /\ r.head.version = e.version /\ r.head.content = e.content
           /\ r.member.event.version = e.version
           /\ r.member.event.content = e.content
           /\ \/ r.pending = None
              \/ r.pending = s.pending /\ Uncovered(s, e)
  <2>1. e.version \in Stamp
    BY EventFields
  <2>2. s.head # None => AtMost(s.head.version, e.version)
    BY <1>2, <1>4, <2>1, Order
  <2>3. r.pending = None
    BY <1>4, <2>2, NothingUncovered
  <2>4. r.head.version = e.version
    BY <1>4
  <2>5. Held(r)
    BY <1>1, <1>4, <2>1, <2>3, <2>4, Order DEF Held
  <2>6. HeadOrigin(s, r, {e})
    BY <1>4 DEF HeadOrigin, States
  <2>7. MemberOrigin(s, r, {e})
    BY <1>4 DEF MemberOrigin, States
  <2> QED BY <1>1, <2>2, <2>4, <2>5, <2>6, <2>7 DEF Evolves, Rises
<1> QED BY <1>3, <1>4 DEF Accepts

LEMMA FenceSafe ==
    ASSUME NEW s \in NodeStates, NEW e \in Events, NEW r, Fences(s, r, e),
           AtMost(e.generation, e.control), Rooted(s)
    PROVE  Safe(s, r)
<1>1. Tracked(r)
  BY DEF Fences, Adopts, Tracked
<1>2. Rooted(r)
  BY DEF Fences, Adopts, Rooted
<1>3. s.member # None => Forward(s.member, r.member)
  <2> SUFFICES ASSUME s.member # None
               PROVE  Forward(s.member, r.member)
    OBVIOUS
  <2>1. /\ s.member.event.generation \in Stamp /\ s.member.event.control \in Stamp
        /\ e.generation \in Stamp /\ e.control \in Stamp
    BY StateFields, EventFields
  <2>2. /\ ~Earlier(e.generation, s.member.event.generation)
        /\ e.generation = s.member.event.generation =>
              ~Earlier(e.control, s.member.event.control)
    BY DEF Fences, Overtaken
  <2>3. /\ \/ e.generation = s.member.event.generation
           \/ Earlier(s.member.event.generation, e.generation)
        /\ e.generation = s.member.event.generation => AtMost(s.member.event.control, e.control)
    BY <2>1, <2>2, Order
  <2> QED BY <2>3 DEF Fences, Adopts, Forward
<1> QED BY <1>1, <1>2, <1>3 DEF Fences, Adopts, Safe

LEMMA FenceKeeps ==
    ASSUME NEW s \in NodeStates, NEW e \in Events, NEW r, Fences(s, r, e)
    PROVE  Keeps(s, r, {e})
<1>3. s.head # None => AtMost(s.head.version, s.head.version)
  BY StateFields, Order
<1>0. Rises(s, r)
  BY <1>3 DEF Fences, Rises
<1> SUFFICES ASSUME Held(s)
             PROVE  Evolves(s, r, {e})
  BY <1>0 DEF Keeps
<1>1. r.pending = None
  <2> SUFFICES ASSUME s.pending # None, ~AtMost(s.pending.generation, e.generation)
               PROVE  FALSE
    BY DEF Fences
  <2>1. s.member # None /\ s.member.event = s.pending
    BY DEF Held
  <2>2. s.pending.generation \in Stamp /\ e.generation \in Stamp
    BY StateFields, EventFields
  <2>3. ~Earlier(e.generation, s.pending.generation)
    BY <2>1 DEF Fences, Overtaken
  <2> QED BY <2>2, <2>3, Order
<1>2. Held(r)
  BY <1>1 DEF Held, Attached, Fences
<1> QED BY <1>2, <1>3 DEF Fences, Evolves, Rises, HeadOrigin, MemberOrigin, States

(* A registered node knows its notes, so that what it applies is the event *)
(* itself.                                                                 *)
LEMMA ApplySteps ==
    ASSUME NEW s \in NodeStates, NEW e \in Events, AtMost(e.generation, e.control),
           Tracked(s), Rooted(s), s.stage = "registered",
           NEW now \in Nat, NEW updated \in Nat, ~Refused(Known(s, now, updated), e)
    PROVE  LET r == Apply(s, e, now, updated)
           IN /\ Safe(s, r)
              /\ r.stage = s.stage
              /\ Keeps(s, r, {e})
<1> DEFINE r == Apply(s, e, now, updated)
<1>1. Known(s, now, updated) = s
  BY DEF Known, Rooted
<1>2. CASE r = s
  BY <1>2, StandsStill
<1>3. CASE e.kind = "fence" /\ r # s
  <2>1. r = ApplyFence(s, e, now)
    BY <1>3 DEF Apply
  <2> HIDE DEF r
  <2>2. Fences(s, r, e)
    BY <1>3, <2>1, FenceShape
  <2>3. r.stage = s.stage
    BY <2>2 DEF Fences, Adopts
  <2> QED BY <2>2, <2>3, FenceSafe, FenceKeeps DEF r
<1>4. CASE e.kind # "fence" /\ r # s
  <2>1. ~Ignored(s, e) /\ r = Accept(s, e, now)
    BY <1>1, <1>4 DEF Apply
  <2> HIDE DEF r
  <2>2. Accepts(s, r, e)
    BY <1>4, <2>1, AcceptShape
  <2>3. CASE Allowed(s, e)
    <3>1. r.stage = s.stage
      BY <2>2 DEF Accepts, Adopts
    <3> QED BY <2>2, <2>3, <3>1, AcceptSafe, AcceptKeeps DEF r
  <2> QED BY <1>1, <1>4, <2>1, <2>3 DEF Ignored, Refused
<1> QED BY <1>2, <1>3, <1>4

-----------------------------------------------------------------------------
(* The steps of the specification.                                         *)

SceneRecords ==
    [start  : [Nodes -> [text : Texts, tagged : BOOLEAN] \cup {None}],
     uses   : [Nodes -> SUBSET {"edit", "import", "purge", "rule", "profile"}],
     times  : SUBSET Nat, edits : Nat, losses : Nat, drops : Nat]

TypeOK ==
    /\ node \in [Nodes -> NodeStates]
    /\ wire \in [Nodes -> SUBSET Events]
    /\ acks \in [Nodes -> SUBSET Events]
    /\ missing \in [Nodes -> SUBSET Events]
    /\ left \in SceneRecords

\* A node is known by its clock, and the stamps of what it stores and of what
\* is under way are in order.
NodesOK ==
    \A n \in Nodes :
        /\ node[n].clock.node = n
        /\ Tracked(node[n])
        /\ Rooted(node[n])
        /\ \A e \in wire[n] : AtMost(e.generation, e.control)

LEMMA TimesAreNatural ==
    ASSUME TypeOK
    PROVE  left.times \subseteq Nat
  BY DEF TypeOK, SceneRecords

LEMMA InitializeSteps ==
    ASSUME TypeOK, NodesOK, NEW n \in Nodes, Initialize(n)
    PROVE  \E r : /\ node' = [node EXCEPT ![n] = r]
                  /\ Safe(node[n], r)
                  /\ node[n].stage # "registered"
                  /\ Keeps(node[n], r, {})
<1> DEFINE s == node[n]
<1>1. s \in NodeStates /\ Tracked(s) /\ Rooted(s) /\ s.stage # "registered"
  BY DEF TypeOK, NodesOK, Initialize
<1>2. PICK now \in left.times, updated \in left.times :
        Become(n, [CaptureHistorical(s, now, updated) EXCEPT !.stage = "captured"])
  BY DEF Initialize
<1> DEFINE c == CaptureHistorical(s, now, updated)
           r == [c EXCEPT !.stage = "captured"]
<1>3. now \in Nat /\ updated \in Nat
  BY TimesAreNatural
<1>4. \/ c = s /\ (s.note # None => s.head # None)
      \/ Captures(s, c, TRUE)
  BY <1>1, <1>3, CaptureShape DEF CaptureHistorical
<1> HIDE DEF c
<1>5. c \in NodeStates /\ Safe(s, c) /\ (c.note # None => c.head # None)
  BY <1>1, <1>4, StandsStill, CaptureSafe DEF Captures, Continues
<1>6. Keeps(s, c, {})
  BY <1>1, <1>4, StandsStill, CaptureKeeps DEF Rooted
<1>7. /\ r \in NodeStates /\ Alike(r, c) /\ r.note = c.note /\ r.stage = "captured"
  BY <1>5 DEF NodeStates, Alike
<1>8. node' = [node EXCEPT ![n] = r]
  BY <1>2 DEF Become, c
<1> HIDE DEF s, r
<1>9. Safe(s, r)
  BY <1>5, <1>7 DEF Safe, Alike, Tracked, Rooted
<1>10. Keeps(s, r, {})
  BY <1>6, <1>7, AlikeAfter
<1> QED BY <1>1, <1>8, <1>9, <1>10 DEF s

LEMMA RegisterSteps ==
    ASSUME TypeOK, NodesOK, NEW n \in Nodes, Register(n)
    PROVE  \E r : /\ node' = [node EXCEPT ![n] = r]
                  /\ Safe(node[n], r)
                  /\ Keeps(node[n], r, {})
<1> DEFINE s == node[n]
           r == [s EXCEPT !.stage = "registered"]
<1>1. s \in NodeStates /\ Tracked(s) /\ Rooted(s) /\ s.stage = "captured"
  BY DEF TypeOK, NodesOK, Register
<1>2. node' = [node EXCEPT ![n] = r]
  BY DEF Register, Become
<1> HIDE DEF s
<1>3. r \in NodeStates /\ Alike(r, s) /\ r.note = s.note
  BY <1>1 DEF NodeStates, Alike
<1> HIDE DEF r
<1>4. Safe(s, s) /\ Keeps(s, s, {})
  BY <1>1, StandsStill
<1>5. Safe(s, r)
  BY <1>1, <1>3, <1>4 DEF Safe, Alike, Tracked, Rooted
<1>6. Keeps(s, r, {})
  BY <1>3, <1>4, AlikeAfter
<1> QED BY <1>2, <1>5, <1>6 DEF s

(* An operation that sets the note or the rule and captures the result.    *)
LEMMA CaptureAfterChange ==
    ASSUME NEW s \in NodeStates, NEW t \in NodeStates, NEW r, NEW historical,
           Alike(s, t), t.stage = s.stage, Captures(t, r, historical),
           historical /\ s.head # None => s.head.content = t.note,
           NEW received
    PROVE  /\ Safe(s, r)
           /\ r.stage = s.stage
           /\ Keeps(s, r, received)
<1>1. Safe(t, r) /\ r.stage = s.stage
  BY CaptureSafe DEF Captures, Continues
<1>2. Keeps(t, r, received)
  BY CaptureKeeps DEF Alike
<1> QED BY <1>1, <1>2, AlikeBefore

LEMMA NotedShape ==
    ASSUME NEW s \in NodeStates, NEW note \in Contents \cup {None}
    PROVE  LET t == [s EXCEPT !.note = note]
           IN t \in NodeStates /\ Alike(s, t) /\ t.stage = s.stage /\ t.note = note
  BY DEF NodeStates, Alike

LEMMA EditSteps ==
    ASSUME TypeOK, NodesOK, NEW n \in Nodes, Edit(n)
    PROVE  \E r : /\ node' = [node EXCEPT ![n] = r]
                  /\ Safe(node[n], r)
                  /\ r.stage = node[n].stage
                  /\ Keeps(node[n], r, {})
<1> DEFINE s == node[n]
<1>1. s \in NodeStates /\ Tracked(s) /\ Rooted(s)
  BY DEF TypeOK, NodesOK
<1>2. PICK content \in Contents, now \in left.times :
        Become(n, CaptureEdit([s EXCEPT !.note = content], now, now))
  BY DEF Edit, Local
<1> DEFINE t == [s EXCEPT !.note = content]
           r == CaptureEdit(t, now, now)
<1>3. now \in Nat
  BY TimesAreNatural
<1>4. node' = [node EXCEPT ![n] = r]
  BY <1>2 DEF Become
<1> HIDE DEF s
<1>5. t \in NodeStates /\ Alike(s, t) /\ t.stage = s.stage /\ t.note = content
  BY <1>1, NotedShape
<1>6. t.note # None
  BY <1>5, NoneAssumption
<1> HIDE DEF t
<1>7. Tracked(t)
  BY <1>1, <1>5, AlikeBefore
<1>8. Captures(t, r, FALSE)
  BY <1>3, <1>5, <1>6, <1>7, CaptureShape DEF CaptureEdit
<1> HIDE DEF r
<1>9. Safe(s, r) /\ r.stage = s.stage /\ Keeps(s, r, {})
  BY <1>1, <1>5, <1>8, CaptureAfterChange
<1> QED BY <1>4, <1>9 DEF s

LEMMA ImportSteps ==
    ASSUME TypeOK, NodesOK, NEW n \in Nodes, Import(n)
    PROVE  \E r : /\ node' = [node EXCEPT ![n] = r]
                  /\ Safe(node[n], r)
                  /\ r.stage = node[n].stage
                  /\ Keeps(node[n], r, {})
<1> DEFINE s == node[n]
<1>1. s \in NodeStates /\ Tracked(s) /\ Rooted(s)
  BY DEF TypeOK, NodesOK
<1>2. PICK content \in Contents, now \in left.times, updated \in left.times :
        Become(n, CaptureImported([s EXCEPT !.note = content], now, updated))
  BY DEF Import, Local
<1> DEFINE t          == [s EXCEPT !.note = content]
           historical == s.head = None
           recreated  == s.head # None
           r          == CaptureImported(t, now, updated)
<1>3. now \in Nat /\ updated \in Nat
  BY TimesAreNatural
<1>4. node' = [node EXCEPT ![n] = r]
  BY <1>2 DEF Become
<1> HIDE DEF s
<1>5. t \in NodeStates /\ Alike(s, t) /\ t.stage = s.stage /\ t.note = content
  BY <1>1, NotedShape
<1>6. t.note # None
  BY <1>5, NoneAssumption
<1>a. t.head = s.head
  BY <1>5 DEF Alike
<1> HIDE DEF t
<1>7. Tracked(t)
  BY <1>1, <1>5, AlikeBefore
<1>8. r = Capture(t, historical, FALSE, recreated, now, updated)
  BY <1>a DEF CaptureImported
<1>9. historical \in BOOLEAN /\ recreated \in BOOLEAN /\ (historical => s.head = None)
  OBVIOUS
<1>b. historical => t.head = None
  BY <1>a
<1> HIDE DEF r, historical, recreated
<1>10. Captures(t, r, historical)
  BY <1>3, <1>5, <1>6, <1>7, <1>8, <1>9, <1>b, CaptureShape
<1>11. Safe(s, r) /\ r.stage = s.stage /\ Keeps(s, r, {})
  BY <1>1, <1>5, <1>9, <1>10, CaptureAfterChange
<1> QED BY <1>4, <1>11 DEF s

LEMMA ReconcileSteps ==
    ASSUME NEW s \in NodeStates, NEW t \in NodeStates, Alike(s, t), t.note = s.note,
           Tracked(s), Rooted(s), s.note # None /\ s.head = None => t.stage = "configured",
           NEW now \in Nat, NEW updated \in Nat, NEW received
    PROVE  LET r == Reconcile(t, now, updated)
           IN /\ Safe(s, r)
              /\ r.stage = t.stage
              /\ s.head # None => r.head # None /\ AtMost(s.head.version, r.head.version)
              /\ Keeps(s, r, received)
<1> DEFINE r == Reconcile(t, now, updated)
<1>1. Tracked(t) /\ Rooted(t)
  BY AlikeBefore DEF Rooted, Alike
<1>2. \/ r = t
      \/ r = Capture(t, TRUE, TRUE, FALSE, now, updated) /\ t.note # None
  BY DEF Reconcile
<1>3. r = t \/ Captures(t, r, TRUE)
  BY <1>1, <1>2, CaptureShape
<1> HIDE DEF r
<1>4. /\ Safe(t, r) /\ r.stage = t.stage
      /\ Keeps(t, r, received)
  <2>1. CASE r = t
    BY <1>1, <2>1, StandsStill
  <2>2. CASE Captures(t, r, TRUE)
    <3>1. t.head # None => t.head.content = t.note
      BY <1>1 DEF Rooted
    <3> QED BY <2>2, <3>1, CaptureSafe, CaptureKeeps DEF Captures, Continues
  <2> QED BY <1>3, <2>1, <2>2
<1>5. t.head # None => r.head # None /\ AtMost(t.head.version, r.head.version)
  BY <1>3, CaptureRaises, StateFields, Order
<1> QED BY <1>4, <1>5, AlikeBefore DEF r, Alike

LEMMA ChangeRuleSteps ==
    ASSUME TypeOK, NodesOK, NEW n \in Nodes, ChangeRule(n)
    PROVE  \E r : /\ node' = [node EXCEPT ![n] = r]
                  /\ Safe(node[n], r)
                  /\ r.stage = node[n].stage
                  /\ Keeps(node[n], r, {})
<1> DEFINE s == node[n]
           t == [s EXCEPT !.rule = ~@]
<1>1. s \in NodeStates /\ Tracked(s) /\ Rooted(s)
  BY DEF TypeOK, NodesOK
<1>2. PICK now \in left.times, updated \in left.times : Become(n, Reconcile(t, now, updated))
  BY DEF ChangeRule, Local
<1> DEFINE r == Reconcile(t, now, updated)
<1>3. now \in Nat /\ updated \in Nat
  BY TimesAreNatural
<1>4. node' = [node EXCEPT ![n] = r]
  BY <1>2 DEF Become
<1> HIDE DEF s
<1>5. t \in NodeStates /\ Alike(s, t) /\ t.stage = s.stage /\ t.note = s.note
  BY <1>1 DEF NodeStates, Alike
<1> HIDE DEF t
<1>6. Safe(s, r) /\ r.stage = s.stage /\ Keeps(s, r, {})
  BY <1>1, <1>3, <1>5, ReconcileSteps DEF Rooted
<1> QED BY <1>4, <1>6 DEF s

\* A node that forgets its association, before any peer is registered.
Reset(s) == [s EXCEPT !.member = None, !.pending = None,
                      !.received = {}, !.stage = "configured"]

LEMMA ChangeProfileSteps ==
    ASSUME TypeOK, NodesOK, NEW n \in Nodes, ChangeProfile(n)
    PROVE  \E r, t : /\ node' = [node EXCEPT ![n] = r]
                     /\ t \in NodeStates /\ t.clock = node[n].clock /\ t.head = node[n].head
                     /\ t.member = None
                     /\ node[n].stage # "registered" /\ r.stage = "configured"
                     /\ Safe(t, r)
                     /\ t.head # None => r.head # None /\ AtMost(t.head.version, r.head.version)
                     /\ Evolves(t, r, {})
<1> DEFINE s == node[n]
           t == Reset(s)
<1>1. s \in NodeStates /\ Tracked(s) /\ Rooted(s)
  BY DEF TypeOK, NodesOK
<1>2. PICK now \in left.times, updated \in left.times : Become(n, Reconcile(t, now, updated))
  BY DEF ChangeProfile, Local, Reset
<1> DEFINE r == Reconcile(t, now, updated)
<1>3. now \in Nat /\ updated \in Nat
  BY TimesAreNatural
<1>4. node' = [node EXCEPT ![n] = r] /\ s.stage # "registered"
  BY <1>2 DEF Become, ChangeProfile
<1> HIDE DEF s
<1>5. /\ t \in NodeStates /\ t.clock = s.clock /\ t.head = s.head /\ t.note = s.note
      /\ t.member = None /\ t.pending = None /\ t.stage = "configured"
  BY <1>1 DEF NodeStates, Reset
<1> HIDE DEF t
<1>6. Tracked(t) /\ Rooted(t) /\ Held(t) /\ Alike(t, t)
  BY <1>1, <1>5 DEF Tracked, Rooted, Held, Attached, Alike
<1>7. /\ Safe(t, r) /\ r.stage = t.stage
      /\ t.head # None => r.head # None /\ AtMost(t.head.version, r.head.version)
      /\ Keeps(t, r, {})
  BY <1>3, <1>5, <1>6, ReconcileSteps
<1> QED BY <1>4, <1>5, <1>6, <1>7 DEF s, Keeps

LEMMA PurgeSteps ==
    ASSUME TypeOK, NodesOK, NEW n \in Nodes, Purge(n)
    PROVE  \E r : /\ node' = [node EXCEPT ![n] = r]
                  /\ Safe(node[n], r)
                  /\ r.stage = node[n].stage
                  /\ ~PurgesAhead(n) => Keeps(node[n], r, {})
<1> DEFINE s == node[n]
<1>1. s \in NodeStates /\ Tracked(s) /\ Rooted(s) /\ s.note # None
  BY DEF TypeOK, NodesOK, Purge
<1>2. PICK now \in left.times, updated \in left.times :
        Become(n, CapturePurge([CaptureHistorical(s, now, updated) EXCEPT !.note = None], now))
  BY DEF Purge, Local
<1> DEFINE c == CaptureHistorical(s, now, updated)
           t == [c EXCEPT !.note = None]
           r == CapturePurge(t, now)
<1>3. now \in Nat /\ updated \in Nat
  BY TimesAreNatural
<1>4. node' = [node EXCEPT ![n] = r]
  BY <1>2 DEF Become
<1>5. ~PurgesAhead(n) => (s.member # None /\ s.head # None =>
                            ~Earlier(s.clock, s.head.version))
  BY DEF PurgesAhead
<1> HIDE DEF s
<1>6. \/ c = s /\ s.head # None /\ s.member # None
      \/ Captures(s, c, TRUE) /\ (s.head = None \/ s.member = None)
  BY <1>1, <1>3, CaptureShape DEF CaptureHistorical, Capture
<1> HIDE DEF c
<1>7. c \in NodeStates /\ Safe(s, c) /\ c.stage = s.stage
  BY <1>1, <1>6, StandsStill, CaptureSafe DEF Captures, Continues
<1>8. t \in NodeStates /\ Alike(t, c) /\ t.stage = s.stage /\ t.note = None
  BY <1>7, NotedShape DEF Alike
<1> HIDE DEF t
<1>9. Tracked(c) /\ Tracked(t)
  BY <1>7, <1>8, AlikeBefore DEF Safe
<1>10. Purges(t, r)
  BY <1>3, <1>8, <1>9, PurgeShape
<1> HIDE DEF r
<1>11. Safe(t, r) /\ r.stage = s.stage
  BY <1>8, <1>10, PurgeSafe DEF Purges, Continues
<1>12. Safe(s, r)
  BY <1>1, <1>7, <1>8, <1>11, AlikeBefore, SafeTransitive
<1>13. ASSUME ~PurgesAhead(n)
       PROVE  Keeps(s, r, {})
  <2>1. CASE Captures(s, c, TRUE) /\ (s.head = None \/ s.member = None)
    BY <1>1, <1>8, <1>10, <1>13, <2>1, PurgeAfterCapture
  <2>2. CASE c = s
    <3>1. Alike(t, s)
      BY <1>8, <2>2
    <3>2. t.member # None /\ t.head # None => AtMost(t.head.version, t.clock)
      BY <1>1, <1>5, <1>13, <3>1, StateFields, Order DEF Alike
    <3>3. Keeps(t, r, {})
      BY <1>8, <1>10, <3>1, <3>2, PurgeKeeps
    <3> QED BY <3>1, <3>3, AlikeBefore
  <2> QED BY <1>6, <2>1, <2>2
<1> QED BY <1>4, <1>11, <1>12, <1>13 DEF s

LEMMA ConfirmSteps ==
    ASSUME TypeOK, NodesOK, NEW n \in Nodes, NEW ack \in acks[n], Confirm(n, ack)
    PROVE  \E r : /\ node' = [node EXCEPT ![n] = r]
                  /\ Safe(node[n], r)
                  /\ r.stage = node[n].stage
                  /\ Keeps(node[n], r, {})
<1> DEFINE s == node[n]
           r == Acknowledge(s, ack)
<1>1. s \in NodeStates /\ Tracked(s) /\ Rooted(s)
  BY DEF TypeOK, NodesOK
<1>2. node' = [node EXCEPT ![n] = r]
  BY DEF Confirm, Become
<1> HIDE DEF s
<1>3. Settles(s, r, ack)
  BY <1>1, AcknowledgeShape
<1> HIDE DEF r
<1>4. Safe(s, r) /\ r.stage = s.stage /\ Keeps(s, r, {})
  BY <1>1, <1>3, SettleSafe, SettleKeeps DEF Settles
<1> QED BY <1>2, <1>4 DEF s

LEMMA RecoverMissingSteps ==
    ASSUME TypeOK, NodesOK, NEW n \in Nodes, RecoverMissing(n)
    PROVE  \E r : /\ node' = [node EXCEPT ![n] = r]
                  /\ Safe(node[n], r)
                  /\ r.stage = node[n].stage
                  /\ Keeps(node[n], r, {})
<1> DEFINE s == node[n]
           r == Recover(s)
<1>1. s \in NodeStates /\ Tracked(s) /\ Rooted(s) /\ Attached(s)
  BY DEF TypeOK, NodesOK, RecoverMissing, CanRecover
<1>2. node' = [node EXCEPT ![n] = r]
  BY DEF RecoverMissing, Become
<1> HIDE DEF s
<1>3. Safe(s, r) /\ r.stage = s.stage /\ Keeps(s, r, {})
  BY <1>1, RecoverSteps
<1> QED BY <1>2, <1>3 DEF s

LEMMA DeliverSteps ==
    ASSUME TypeOK, NodesOK, NEW n \in Nodes, NEW m \in Nodes, NEW e \in wire[n],
           Deliver(n, m, e)
    PROVE  \E r : /\ node' = [node EXCEPT ![n] = r]
                  /\ Safe(node[n], r)
                  /\ r.stage = node[n].stage
                  /\ Keeps(node[n], r, {e})
<1> DEFINE s == node[n]
<1>1. /\ s \in NodeStates /\ Tracked(s) /\ Rooted(s) /\ s.stage = "registered"
      /\ e \in Events /\ AtMost(e.generation, e.control)
  BY DEF TypeOK, NodesOK, Deliver
<1>2. CASE UNCHANGED node
  <2>1. node' = [node EXCEPT ![n] = s]
    BY <1>2 DEF TypeOK
  <2> HIDE DEF s
  <2>2. Safe(s, s) /\ Keeps(s, s, {e})
    BY <1>1, StandsStill
  <2> QED BY <2>1, <2>2 DEF s
<1>3. CASE ~UNCHANGED node
  <2>1. PICK now \in left.times, updated \in left.times :
          ~Refused(Known(s, now, updated), e) /\ Become(n, Apply(s, e, now, updated))
    BY <1>3 DEF Deliver
  <2>2. now \in Nat /\ updated \in Nat
    BY TimesAreNatural
  <2> DEFINE r == Apply(s, e, now, updated)
  <2>3. node' = [node EXCEPT ![n] = r]
    BY <2>1 DEF Become
  <2> HIDE DEF s
  <2>4. Safe(s, r) /\ r.stage = s.stage /\ Keeps(s, r, {e})
    BY <1>1, <2>1, <2>2, ApplySteps
  <2> QED BY <2>3, <2>4 DEF s
<1> QED BY <1>2, <1>3

LEMMA EvolvesByMore ==
    ASSUME NEW s, NEW r, NEW some, NEW all, Evolves(s, r, some), some \subseteq all
    PROVE  Evolves(s, r, all)
<1>1. HeadOrigin(s, r, all)
  BY DEF Evolves, HeadOrigin
<1>2. MemberOrigin(s, r, all)
  BY DEF Evolves, MemberOrigin
<1> QED BY <1>1, <1>2 DEF Evolves

LEMMA KeepsByMore ==
    ASSUME NEW s, NEW r, NEW some, NEW all, Keeps(s, r, some), some \subseteq all
    PROVE  Keeps(s, r, all)
  BY EvolvesByMore DEF Keeps

\* An operation of n that keeps its association.
Works(n, r) ==
    /\ node' = [node EXCEPT ![n] = r]
    /\ Safe(node[n], r)
    /\ r.stage # "registered" => node[n].stage # "registered"
    /\ ~PurgesAhead(n) => Keeps(node[n], r, wire[n])

(* Every step changes one node at most.                                    *)
LEMMA NodeSteps ==
    ASSUME TypeOK, NodesOK, Next
    PROVE  \/ UNCHANGED node
           \/ \E n \in Nodes, r \in NodeStates : Works(n, r)
           \/ \E n \in Nodes : ChangeProfile(n) \/ Lose(n)
<1>1. ASSUME NEW n \in Nodes, NEW r, NEW received, received \subseteq wire[n],
             node' = [node EXCEPT ![n] = r], Safe(node[n], r),
             r.stage = node[n].stage \/ node[n].stage # "registered",
             ~PurgesAhead(n) => Keeps(node[n], r, received)
      PROVE  \E k \in Nodes, q \in NodeStates : Works(k, q)
  <2>1. r \in NodeStates
    BY <1>1 DEF Safe
  <2>2. ~PurgesAhead(n) => Keeps(node[n], r, wire[n])
    BY <1>1, KeepsByMore
  <2>3. Works(n, r)
    BY <1>1, <2>2 DEF Works
  <2> QED BY <2>1, <2>3
<1>3. PICK n \in Nodes :
       \/ Initialize(n) \/ Register(n)
       \/ Edit(n) \/ Import(n) \/ Purge(n) \/ ChangeRule(n) \/ ChangeProfile(n)
       \/ \E ack \in acks[n] : Confirm(n, ack)
       \/ \E e \in wire[n] : Refuse(n, e)
       \/ RecoverMissing(n)
       \/ Drop(n)
       \/ Lose(n)
       \/ \E m \in Nodes : Send(n, m) \/ Ask(n, m) \/ \E e \in wire[n] : Deliver(n, m, e)
  BY DEF Next
<1>4. {} \subseteq wire[n]
  OBVIOUS
<1>5. CASE Initialize(n)
  BY <1>1, <1>4, <1>5, InitializeSteps
<1>6. CASE Register(n)
  <2>1. node[n].stage # "registered"
    BY <1>6 DEF Register
  <2> QED BY <1>1, <1>4, <1>6, <2>1, RegisterSteps
<1>7. CASE Edit(n)
  BY <1>1, <1>4, <1>7, EditSteps
<1>8. CASE Import(n)
  BY <1>1, <1>4, <1>8, ImportSteps
<1>9. CASE Purge(n)
  <2>1. PICK r : /\ node' = [node EXCEPT ![n] = r]
                 /\ Safe(node[n], r)
                 /\ r.stage = node[n].stage
                 /\ ~PurgesAhead(n) => Keeps(node[n], r, {})
    BY <1>9, PurgeSteps
  <2>2. ~PurgesAhead(n) => Keeps(node[n], r, wire[n])
    BY <1>4, <2>1, KeepsByMore
  <2>3. r \in NodeStates /\ Works(n, r)
    BY <2>1, <2>2 DEF Works, Safe
  <2> QED BY <2>3
<1>10. CASE ChangeRule(n)
  BY <1>1, <1>4, <1>10, ChangeRuleSteps
<1>11. ASSUME NEW ack \in acks[n], Confirm(n, ack)
       PROVE  \E k \in Nodes, q \in NodeStates : Works(k, q)
  BY <1>1, <1>4, <1>11, ConfirmSteps
<1>12. CASE RecoverMissing(n)
  <2>1. PICK r : /\ node' = [node EXCEPT ![n] = r]
                 /\ Safe(node[n], r)
                 /\ r.stage = node[n].stage
                 /\ Keeps(node[n], r, {})
    BY <1>12, RecoverMissingSteps
  <2>2. ~PurgesAhead(n) => Keeps(node[n], r, wire[n])
    BY <1>4, <2>1, KeepsByMore
  <2>3. r \in NodeStates /\ Works(n, r)
    BY <2>1, <2>2 DEF Works, Safe
  <2> QED BY <2>3
<1>13. ASSUME NEW m \in Nodes, NEW e \in wire[n], Deliver(n, m, e)
       PROVE  \E k \in Nodes, q \in NodeStates : Works(k, q)
  <2>1. {e} \subseteq wire[n]
    OBVIOUS
  <2>2. PICK r : /\ node' = [node EXCEPT ![n] = r]
                 /\ Safe(node[n], r)
                 /\ r.stage = node[n].stage
                 /\ Keeps(node[n], r, {e})
    BY <1>13, DeliverSteps
  <2> QED BY <1>1, <2>1, <2>2
<1>14. ASSUME NEW e, Refuse(n, e)
       PROVE  UNCHANGED node
  BY <1>14 DEF Refuse
<1>15. ASSUME NEW m, Send(n, m) \/ Ask(n, m)
       PROVE  UNCHANGED node
  BY <1>15 DEF Send, Ask
<1>16. CASE Drop(n)
  BY <1>16 DEF Drop
<1> QED BY <1>3, <1>5, <1>6, <1>7, <1>8, <1>9, <1>10, <1>11, <1>12, <1>13, <1>14, <1>15, <1>16

\* The current event of a registered node joins what is under way.
Sends(n, m) ==
    /\ UNCHANGED node
    /\ node[n].stage = "registered" /\ node[n].member # None
    /\ wire' = [wire EXCEPT ![m] = @ \cup {node[n].member.event}]

LEMMA WireSteps ==
    ASSUME TypeOK, Next
    PROVE  /\ wire' \in [Nodes -> SUBSET Events]
           /\ \/ \A n \in Nodes : wire'[n] \subseteq wire[n]
              \/ \E n, m \in Nodes : Sends(n, m)
<1>1. PICK n \in Nodes :
       \/ Initialize(n) \/ Register(n)
       \/ Edit(n) \/ Import(n) \/ Purge(n) \/ ChangeRule(n) \/ ChangeProfile(n)
       \/ \E ack \in acks[n] : Confirm(n, ack)
       \/ \E e \in wire[n] : Refuse(n, e)
       \/ RecoverMissing(n)
       \/ Drop(n)
       \/ Lose(n)
       \/ \E m \in Nodes : Send(n, m) \/ Ask(n, m) \/ \E e \in wire[n] : Deliver(n, m, e)
  BY DEF Next
<1>2. wire \in [Nodes -> SUBSET Events]
  BY DEF TypeOK
<1>3. CASE UNCHANGED wire
  BY <1>2, <1>3
<1>4. ASSUME NEW e, wire' = [wire EXCEPT ![n] = @ \ {e}]
      PROVE  /\ wire' \in [Nodes -> SUBSET Events]
             /\ \A k \in Nodes : wire'[k] \subseteq wire[k]
  BY <1>2, <1>4
<1>5. ASSUME NEW m \in Nodes, Send(n, m)
      PROVE  wire' \in [Nodes -> SUBSET Events] /\ Sends(n, m)
  <2>1. node[n].member # None /\ node[n] \in NodeStates
    BY <1>5 DEF Send, TypeOK
  <2>2. node[n].member.event \in Events
    BY <2>1, StateFields
  <2>3. wire' = [wire EXCEPT ![m] = @ \cup {node[n].member.event}]
    BY <1>5 DEF Send
  <2>4. Sends(n, m)
    BY <1>5 DEF Send, Sends
  <2> QED BY <1>2, <2>2, <2>3, <2>4
<1>6. \/ UNCHANGED wire
      \/ \E e : wire' = [wire EXCEPT ![n] = @ \ {e}]
      \/ \E m \in Nodes : Send(n, m)
  <2>1. ASSUME \/ Initialize(n) \/ Register(n) \/ RecoverMissing(n) \/ Lose(n)
               \/ \E ack \in acks[n] : Confirm(n, ack)
               \/ \E m \in Nodes : Ask(n, m)
        PROVE  UNCHANGED wire
    BY <2>1 DEF Initialize, Register, RecoverMissing, Lose, Confirm, Ask
  <2>2. ASSUME Edit(n) \/ Import(n) \/ Purge(n) \/ ChangeRule(n) \/ ChangeProfile(n)
        PROVE  UNCHANGED wire
    BY <2>2 DEF Edit, Import, Purge, ChangeRule, ChangeProfile, Local
  <2>3. ASSUME \/ \E e \in wire[n] : Refuse(n, e)
               \/ \E m \in Nodes : \E e \in wire[n] : Deliver(n, m, e)
               \/ Drop(n)
        PROVE  UNCHANGED wire \/ \E e : wire' = [wire EXCEPT ![n] = @ \ {e}]
    BY <2>3 DEF Refuse, Deliver, Drop
  <2> QED BY <1>1, <2>1, <2>2, <2>3
<1> QED BY <1>3, <1>4, <1>5, <1>6

(* The rest: acknowledgements, descriptors and what is left of the scene.  *)
LEMMA RestSteps ==
    ASSUME TypeOK, Next
    PROVE  /\ acks' \in [Nodes -> SUBSET Events]
           /\ missing' \in [Nodes -> SUBSET Events]
           /\ left' \in SceneRecords
<1>1. PICK n \in Nodes :
       \/ Initialize(n) \/ Register(n)
       \/ Edit(n) \/ Import(n) \/ Purge(n) \/ ChangeRule(n) \/ ChangeProfile(n)
       \/ \E ack \in acks[n] : Confirm(n, ack)
       \/ \E e \in wire[n] : Refuse(n, e)
       \/ RecoverMissing(n)
       \/ Drop(n)
       \/ Lose(n)
       \/ \E m \in Nodes : Send(n, m) \/ Ask(n, m) \/ \E e \in wire[n] : Deliver(n, m, e)
  BY DEF Next
<1>2. /\ acks \in [Nodes -> SUBSET Events] /\ missing \in [Nodes -> SUBSET Events]
      /\ wire \in [Nodes -> SUBSET Events] /\ left \in SceneRecords
  BY DEF TypeOK
<1>3. CASE UNCHANGED <<acks, missing, left>>
  BY <1>2, <1>3
<1>4. ASSUME NEW use, NEW s, Local(n, use, s)
      PROVE  UNCHANGED <<acks, missing>> /\ left' \in SceneRecords
  <2>1. /\ UNCHANGED <<acks, missing>> /\ left.edits > 0
        /\ left' = [left EXCEPT !.edits = @ - 1]
    BY <1>4 DEF Local
  <2>2. left.edits - 1 \in Nat
    BY <1>2, <2>1 DEF SceneRecords
  <2> QED BY <1>2, <2>1, <2>2 DEF SceneRecords
<1>5. CASE Edit(n) \/ Import(n) \/ Purge(n) \/ ChangeRule(n) \/ ChangeProfile(n)
  <2>1. \E use, s : Local(n, use, s)
    BY <1>5 DEF Edit, Import, Purge, ChangeRule, ChangeProfile
  <2> QED BY <1>2, <1>4, <2>1
<1>6. ASSUME NEW ack, Confirm(n, ack)
      PROVE  /\ acks' \in [Nodes -> SUBSET Events] /\ UNCHANGED <<missing, left>>
  BY <1>2, <1>6 DEF Confirm
<1>7. ASSUME NEW m \in Nodes, NEW e \in wire[n], Deliver(n, m, e)
      PROVE  /\ acks' \in [Nodes -> SUBSET Events] /\ UNCHANGED <<missing, left>>
  BY <1>2, <1>7 DEF Deliver
<1>8. ASSUME NEW m \in Nodes, Ask(n, m)
      PROVE  /\ missing' \in [Nodes -> SUBSET Events] /\ UNCHANGED <<acks, left>>
  <2>1. node[n].member # None /\ node[n] \in NodeStates
    BY <1>8 DEF Ask, Attached, TypeOK
  <2>2. node[n].member.event \in Events
    BY <2>1, StateFields
  <2> QED BY <1>2, <1>8, <2>2 DEF Ask
<1>9. CASE Drop(n)
  <2>1. /\ left.drops > 0 /\ left' = [left EXCEPT !.drops = @ - 1]
        /\ UNCHANGED missing
        /\ UNCHANGED acks \/ \E a : acks' = [acks EXCEPT ![n] = @ \ {a}]
    BY <1>9 DEF Drop
  <2>2. left.drops - 1 \in Nat
    BY <1>2, <2>1 DEF SceneRecords
  <2>3. left' \in SceneRecords
    BY <1>2, <2>1, <2>2 DEF SceneRecords
  <2>4. acks' \in [Nodes -> SUBSET Events]
    BY <1>2, <2>1
  <2> QED BY <1>2, <2>1, <2>3, <2>4
<1>10. CASE Lose(n)
  <2>1. left.losses > 0 /\ left' = [left EXCEPT !.losses = @ - 1] /\ UNCHANGED <<acks, missing>>
    BY <1>10 DEF Lose
  <2>2. left.losses - 1 \in Nat
    BY <1>2, <2>1 DEF SceneRecords
  <2>3. left' \in SceneRecords
    BY <1>2, <2>1, <2>2 DEF SceneRecords
  <2> QED BY <1>2, <2>1, <2>3
<1>11. ASSUME \/ Initialize(n) \/ Register(n) \/ RecoverMissing(n)
              \/ \E e \in wire[n] : Refuse(n, e)
              \/ \E m \in Nodes : Send(n, m)
       PROVE  UNCHANGED <<acks, missing, left>>
  BY <1>11 DEF Initialize, Register, RecoverMissing, Refuse, Send
<1> QED BY <1>1, <1>2, <1>3, <1>5, <1>6, <1>7, <1>8, <1>9, <1>10, <1>11

LEMMA LoseSteps ==
    ASSUME TypeOK, NodesOK, NEW n \in Nodes, Lose(n)
    PROVE  \E r \in NodeStates :
              /\ node' = [node EXCEPT ![n] = r]
              /\ r.clock = node[n].clock /\ r.head = None /\ r.member = None /\ r.pending = None
              /\ Rooted(r)
              /\ left'.losses # left.losses
<1> DEFINE s == node[n]
           r == [s EXCEPT !.note = None, !.head = None, !.member = None,
                          !.pending = None, !.received = {}]
<1>1. s \in NodeStates
  BY DEF TypeOK
<1>2. node' = [node EXCEPT ![n] = r]
  BY DEF Lose, Become
<1>3. left'.losses # left.losses
  <2>1. left'.losses = left.losses - 1 /\ left.losses \in Nat
    BY DEF Lose, TypeOK, SceneRecords
  <2> QED BY <2>1
<1> HIDE DEF s
<1>4. /\ r \in NodeStates
      /\ r.clock = s.clock /\ r.head = None /\ r.member = None /\ r.pending = None
      /\ r.note = None
  BY <1>1 DEF NodeStates
<1> HIDE DEF r
<1>5. Rooted(r)
  BY <1>4 DEF Rooted
<1>6. r.clock = node[n].clock
  BY <1>4 DEF s
<1> QED BY <1>2, <1>3, <1>4, <1>5, <1>6

-----------------------------------------------------------------------------
(* Types, and the order of the stamps.                                     *)

LEMMA InitOK == Init => TypeOK /\ NodesOK
<1> SUFFICES ASSUME Init PROVE TypeOK /\ NodesOK
  OBVIOUS
<1>1. left \in SceneRecords
  BY SceneAssumption DEF Init, SceneRecords
<1>2. ASSUME NEW n \in Nodes
      PROVE  /\ node[n] \in NodeStates
             /\ node[n].clock.node = n /\ Tracked(node[n]) /\ Rooted(node[n])
  <2> DEFINE zero == [millis |-> 0, counter |-> 0, node |-> n]
             s    == [Fresh(n) EXCEPT !.note = left.start[n]]
  <2>1. zero \in Stamp /\ zero.node = n
    BY DEF Stamp
  <2>2. left.start[n] \in Contents \cup {None}
    BY <1>1 DEF SceneRecords, Contents
  <2>3. node[n] = s
    BY DEF Init
  <2>4. Fresh(n) = [clock |-> zero, minted |-> 0, stage |-> "configured", rule |-> TRUE,
                    note |-> None, head |-> None, member |-> None, pending |-> None,
                    received |-> {}]
    BY DEF Fresh
  <2> HIDE DEF zero
  <2>a. /\ Fresh(n) \in NodeStates
        /\ Fresh(n).clock = zero /\ Fresh(n).member = None /\ Fresh(n).head = None
        /\ Fresh(n).stage = "configured"
    BY <2>1, <2>4 DEF NodeStates
  <2>5. s \in NodeStates
    BY <2>2, <2>a DEF NodeStates
  <2>6. s.clock = zero /\ s.member = None /\ s.head = None /\ s.stage = "configured"
    BY <2>a DEF NodeStates
  <2> HIDE DEF s
  <2> QED BY <2>1, <2>3, <2>5, <2>6 DEF Tracked, Rooted
<1>3. /\ DOMAIN node = Nodes /\ node = [n \in Nodes |-> node[n]]
      /\ wire = [n \in Nodes |-> {}] /\ acks = [n \in Nodes |-> {}]
      /\ missing = [n \in Nodes |-> {}]
  BY DEF Init
<1>4. TypeOK
  BY <1>1, <1>2, <1>3 DEF TypeOK
<1> QED BY <1>2, <1>3, <1>4 DEF NodesOK

LEMMA NextOK == TypeOK /\ NodesOK /\ [Next]_vars => (TypeOK /\ NodesOK)'
<1> SUFFICES ASSUME TypeOK, NodesOK, [Next]_vars PROVE (TypeOK /\ NodesOK)'
  OBVIOUS
<1>1. CASE UNCHANGED vars
  BY <1>1 DEF vars, TypeOK, NodesOK, Tracked, Rooted
<1>2. CASE Next
  <2> DEFINE NodeOK(n, r) == /\ r \in NodeStates
                             /\ r.clock.node = n /\ Tracked(r) /\ Rooted(r)
  <2>1. \/ UNCHANGED node
        \/ \E n \in Nodes : \E r : node' = [node EXCEPT ![n] = r] /\ NodeOK(n, r)
    <3>1. ASSUME NEW n \in Nodes, NEW r \in NodeStates, Works(n, r)
          PROVE  node' = [node EXCEPT ![n] = r] /\ NodeOK(n, r)
      BY <3>1 DEF Works, Safe, NodesOK
    <3>2. ASSUME NEW n \in Nodes, ChangeProfile(n)
          PROVE  \E r : node' = [node EXCEPT ![n] = r] /\ NodeOK(n, r)
      <4>1. PICK r, t : /\ node' = [node EXCEPT ![n] = r]
                        /\ t.clock = node[n].clock
                        /\ Safe(t, r)
        BY <3>2, ChangeProfileSteps
      <4>2. NodeOK(n, r)
        BY <4>1 DEF Safe, NodesOK
      <4> QED BY <4>1, <4>2
    <3>3. ASSUME NEW n \in Nodes, Lose(n)
          PROVE  \E r : node' = [node EXCEPT ![n] = r] /\ NodeOK(n, r)
      <4>1. PICK r \in NodeStates : /\ node' = [node EXCEPT ![n] = r]
                                    /\ r.clock = node[n].clock /\ r.member = None
                                    /\ Rooted(r)
        BY <3>3, LoseSteps
      <4>2. NodeOK(n, r)
        BY <4>1 DEF Tracked, NodesOK
      <4> QED BY <4>1, <4>2
    <3> HIDE DEF NodeOK
    <3> QED BY <1>2, <3>1, <3>2, <3>3, NodeSteps
  <2>2. \A k \in Nodes : NodeOK(k, node[k])
    BY DEF TypeOK, NodesOK
  <2>3. node \in [Nodes -> NodeStates]
    BY DEF TypeOK
  <2>4. node' \in [Nodes -> NodeStates] /\ \A k \in Nodes : NodeOK(k, node'[k])
    <3>1. CASE UNCHANGED node
      BY <2>2, <2>3, <3>1
    <3>2. ASSUME NEW n \in Nodes, NEW r, node' = [node EXCEPT ![n] = r], NodeOK(n, r)
          PROVE  node' \in [Nodes -> NodeStates] /\ \A k \in Nodes : NodeOK(k, node'[k])
      <4>1. r \in NodeStates
        BY <3>2
      <4> HIDE DEF NodeOK
      <4> QED BY <2>2, <2>3, <3>2, <4>1
    <3> HIDE DEF NodeOK
    <3> QED BY <2>1, <3>1, <3>2
  <2>5. TypeOK'
    BY <1>2, <2>4, RestSteps, WireSteps DEF TypeOK
  <2>6. \A k \in Nodes : \A e \in wire'[k] : AtMost(e.generation, e.control)
    <3>1. \A k \in Nodes : \A e \in wire[k] : AtMost(e.generation, e.control)
      BY DEF NodesOK
    <3>2. ASSUME NEW n \in Nodes, NEW m \in Nodes, Sends(n, m)
          PROVE  \A k \in Nodes : \A e \in wire'[k] : AtMost(e.generation, e.control)
      <4>1. AtMost(node[n].member.event.generation, node[n].member.event.control)
        BY <3>2 DEF Sends, NodesOK, Tracked
      <4>2. wire' = [wire EXCEPT ![m] = @ \cup {node[n].member.event}]
        BY <3>2 DEF Sends
      <4> QED BY <3>1, <4>1, <4>2 DEF TypeOK
    <3> QED BY <1>2, <3>1, <3>2, WireSteps
  <2>7. \A k \in Nodes : /\ node'[k].clock.node = k
                         /\ Tracked(node'[k]) /\ Rooted(node'[k])
    BY <2>4
  <2>8. NodesOK'
    BY <2>6, <2>7 DEF NodesOK, Tracked, Rooted
  <2> QED BY <2>5, <2>8
<1> QED BY <1>1, <1>2

(* Everything that a node stores or that is under way is well formed, and  *)
(* a node's clock is never behind the stamps of its association.           *)
THEOREM TypeCorrect == Spec => [](TypeOK /\ NodesOK)
BY InitOK, NextOK, PTL DEF Spec

LEMMA AssociationSteps ==
    ASSUME TypeOK, NodesOK, [Next]_vars, NEW n \in Nodes,
           node[n].member # None, node[n].stage = "registered", left'.losses = left.losses
    PROVE  node'[n].member # None /\ Forward(node[n].member, node'[n].member)
<1>1. node[n] \in NodeStates /\ node \in [Nodes -> NodeStates]
  BY DEF TypeOK
<1>2. CASE node'[n] = node[n]
  BY <1>1, <1>2, StateFields, ForwardReflexive
<1>3. CASE node'[n] # node[n]
  <2>1. Next
    BY <1>3 DEF vars
  <2>2. ASSUME NEW k \in Nodes, NEW r \in NodeStates, Works(k, r)
        PROVE  Safe(node[n], node'[n])
    <3>1. node' = [node EXCEPT ![k] = r] /\ Safe(node[k], r)
      BY <2>2 DEF Works
    <3>2. k = n /\ node'[n] = r
      BY <1>1, <1>3, <3>1
    <3> QED BY <3>1, <3>2
  <2>3. ASSUME NEW k \in Nodes, ChangeProfile(k)
        PROVE  FALSE
    <3>1. PICK r : node' = [node EXCEPT ![k] = r] /\ node[k].stage # "registered"
      BY <2>3, ChangeProfileSteps
    <3> QED BY <1>1, <1>3, <3>1
  <2>4. ASSUME NEW k \in Nodes, Lose(k)
        PROVE  FALSE
    BY <2>4, LoseSteps
  <2>5. Safe(node[n], node'[n])
    BY <1>3, <2>1, <2>2, <2>3, <2>4, NodeSteps
  <2> QED BY <2>5 DEF Safe
<1> QED BY <1>2, <1>3

(* Events that arrive late, twice or out of order never set an association *)
(* of a registered node back, and never reopen a generation that was       *)
(* closed: apply_sync_event, apply_fence, captures and acknowledgements.   *)
THEOREM AssociationsMoveForward == Spec => AssociationMovesForward
<1>1. TypeOK /\ NodesOK /\ [Next]_vars =>
        [\A n \in Nodes :
         (node[n].member # None /\ node[n].stage = "registered" /\ left'.losses = left.losses) =>
            /\ node'[n].member # None
            /\ LET was == node[n].member   is == node'[n].member
               IN \/ Earlier(was.event.generation, is.event.generation)
                  \/ /\ was.event.generation = is.event.generation
                     /\ AtMost(was.event.control, is.event.control)
                     /\ is.attached => was.attached]_vars
  BY AssociationSteps DEF Forward
<1> QED BY <1>1, TypeCorrect, PTL DEF Spec, AssociationMovesForward

LEMMA HeadSteps ==
    ASSUME TypeOK, NodesOK, [Next]_vars, NEW n \in Nodes,
           node[n].member # None, node[n].head # None, left'.losses = left.losses,
           ~PurgesAhead(n)
    PROVE  node'[n].head # None /\ AtMost(node[n].head.version, node'[n].head.version)
<1>1. node \in [Nodes -> NodeStates] /\ node[n] \in NodeStates
  BY DEF TypeOK
<1>2. CASE node'[n] = node[n]
  BY <1>1, <1>2, StateFields, Order
<1>3. CASE node'[n] # node[n]
  <2>1. Next
    BY <1>3 DEF vars
  <2>2. ASSUME NEW k \in Nodes, NEW r \in NodeStates, Works(k, r)
        PROVE  Rises(node[n], node'[n])
    <3>1. node' = [node EXCEPT ![k] = r]
      BY <2>2 DEF Works
    <3>2. k = n /\ node'[n] = r
      BY <1>1, <1>3, <3>1
    <3> QED BY <2>2, <3>2 DEF Works, Keeps
  <2>3. ASSUME NEW k \in Nodes, ChangeProfile(k)
        PROVE  Rises(node[n], node'[n])
    <3>1. PICK r, t : /\ node' = [node EXCEPT ![k] = r] /\ t.head = node[k].head
                      /\ t.head # None => r.head # None /\ AtMost(t.head.version, r.head.version)
      BY <2>3, ChangeProfileSteps
    <3>2. k = n /\ node'[n] = r
      BY <1>1, <1>3, <3>1
    <3> QED BY <3>1, <3>2 DEF Rises
  <2>4. ASSUME NEW k \in Nodes, Lose(k)
        PROVE  FALSE
    BY <2>4, LoseSteps
  <2>5. Rises(node[n], node'[n])
    BY <1>3, <2>1, <2>2, <2>3, <2>4, NodeSteps
  <2> QED BY <2>5 DEF Rises
<1> QED BY <1>2, <1>3

(* The version of a note that takes part in synchronization never          *)
(* decreases, whatever the wall clocks say and whatever arrives.           *)
THEOREM HeadsMoveForward == Spec => HeadMovesForward
<1>1. TypeOK /\ NodesOK /\ [Next]_vars =>
        [\A n \in Nodes :
         (/\ node[n].member # None /\ node[n].head # None
          /\ left'.losses = left.losses
          /\ ~PurgesAhead(n)) =>
            /\ node'[n].head # None
            /\ AtMost(node[n].head.version, node'[n].head.version)]_vars
  BY HeadSteps
<1> QED BY <1>1, TypeCorrect, PTL DEF Spec, HeadMovesForward

-----------------------------------------------------------------------------
(* The outbox.                                                             *)
(*                                                                         *)
(* capture_purge is the one place that issues a version without observing  *)
(* the one it replaces.  What follows is about behaviours without such a   *)
(* deletion of a note that is dated ahead of its node's clock.  After one, *)
(* a closing event may stay in the outbox behind a newer association, and  *)
(* the deletion may get the very version that the note had.                *)

NoneAhead == \A n \in Nodes : ~PurgesAhead(n)

NoPurgeAhead == [][NoneAhead]_vars

HeldOK == \A n \in Nodes : Held(node[n])

IInv == TypeOK /\ NodesOK /\ HeldOK

LEMMA HeldNext ==
    ASSUME IInv, Next, NoneAhead
    PROVE  HeldOK'
<1>1. node \in [Nodes -> NodeStates]
  BY DEF IInv, TypeOK
<1>2. ASSUME NEW n \in Nodes, NEW r, node' = [node EXCEPT ![n] = r], Held(r)
      PROVE  \A k \in Nodes : Held(node'[k])
  <2>1. ASSUME NEW k \in Nodes
        PROVE  node'[k] = r \/ node'[k] = node[k]
    BY <1>1, <1>2
  <2>2. \A k \in Nodes : Held(node[k])
    BY DEF IInv, HeldOK
  <2> QED BY <1>2, <2>1, <2>2
<1>3. ASSUME NEW n \in Nodes, NEW r \in NodeStates, Works(n, r)
      PROVE  \A k \in Nodes : Held(node'[k])
  <2>1. Held(node[n]) /\ ~PurgesAhead(n)
    BY DEF IInv, HeldOK, NoneAhead
  <2>2. node' = [node EXCEPT ![n] = r] /\ Held(r)
    BY <1>3, <2>1 DEF Works, Keeps, Evolves
  <2> QED BY <1>2, <2>2
<1>4. ASSUME NEW n \in Nodes, ChangeProfile(n)
      PROVE  \A k \in Nodes : Held(node'[k])
  <2>1. PICK r, t : node' = [node EXCEPT ![n] = r] /\ Evolves(t, r, {})
    BY <1>4, ChangeProfileSteps DEF IInv
  <2>2. Held(r)
    BY <2>1 DEF Evolves
  <2> QED BY <1>2, <2>1, <2>2
<1>5. ASSUME NEW n \in Nodes, Lose(n)
      PROVE  \A k \in Nodes : Held(node'[k])
  <2>1. PICK r \in NodeStates : node' = [node EXCEPT ![n] = r] /\ r.member = None /\ r.pending = None
    BY <1>5, LoseSteps DEF IInv
  <2>2. Held(r)
    BY <2>1 DEF Held, Attached
  <2> QED BY <1>2, <2>1, <2>2
<1>6. ASSUME UNCHANGED node
      PROVE  \A k \in Nodes : Held(node'[k])
  BY <1>6 DEF IInv, HeldOK
<1>7. \A k \in Nodes : Held(node'[k])
  <2>1. TypeOK /\ NodesOK
    BY DEF IInv
  <2> QED BY <1>3, <1>4, <1>5, <1>6, <2>1, NodeSteps
<1> QED BY <1>7 DEF HeldOK, Held, Attached

LEMMA IInvNext == IInv /\ [Next]_vars /\ [NoneAhead]_vars => IInv'
<1> SUFFICES ASSUME IInv, [Next]_vars, [NoneAhead]_vars PROVE IInv'
  OBVIOUS
<1>1. (TypeOK /\ NodesOK)'
  BY NextOK DEF IInv
<1>2. HeldOK'
  <2>1. CASE UNCHANGED vars
    BY <2>1 DEF vars, IInv, HeldOK, Held, Attached
  <2>2. CASE Next /\ NoneAhead
    BY <2>2, HeldNext
  <2> QED BY <2>1, <2>2
<1> QED BY <1>1, <1>2 DEF IInv

LEMMA IInvInit == Init => IInv
<1> SUFFICES ASSUME Init PROVE IInv
  OBVIOUS
<1>1. TypeOK /\ NodesOK
  BY InitOK
<1>2. ASSUME NEW n \in Nodes
      PROVE  Held(node[n])
  <2>1. node[n] = [Fresh(n) EXCEPT !.note = left.start[n]]
    BY <1>2 DEF Init
  <2>2. node[n].member = None /\ node[n].pending = None
    BY <2>1 DEF Fresh
  <2> QED BY <2>2 DEF Held, Attached
<1> QED BY <1>1, <1>2 DEF IInv, HeldOK

LEMMA Invariant == Spec /\ NoPurgeAhead => []IInv
BY IInvInit, IInvNext, PTL DEF Spec, NoPurgeAhead

(* What waits in the outbox is always the current event of the note's      *)
(* association: no capture, answer, acknowledgement or recovery leaves an  *)
(* outdated row behind.                                                    *)
THEOREM PendingStaysCurrent == Spec /\ NoPurgeAhead => []PendingIsCurrent
<1>1. IInv => PendingIsCurrent
  BY DEF IInv, HeldOK, Held, PendingIsCurrent
<1> QED BY <1>1, Invariant, PTL

-----------------------------------------------------------------------------
(* Which contents a version stands for.                                    *)

OfHead(s, v, c)   == s.head # None /\ s.head.version = v /\ s.head.content = c
OfMember(s, v, c) == s.member # None /\ s.member.event.version = v /\ s.member.event.content = c

Wired(v, c) == \E m \in Nodes : \E e \in wire[m] : e.version = v /\ e.content = c

\* Stated elsewhere than in what n stores.
Abroad(n, v, c) ==
    \/ Wired(v, c)
    \/ \E m \in Nodes \ {n} : OfHead(node[m], v, c) \/ OfMember(node[m], v, c)

Anywhere(v, c) == \E n \in Nodes : Abroad(n, v, c) \/ OfHead(node[n], v, c) \/ OfMember(node[n], v, c)

\* A version that n issued is not ahead of both its clock and its head.
Covers(s, v) ==
    \/ AtMost(v, s.clock)
    \/ s.member # None /\ s.head # None /\ AtMost(v, s.head.version)

Issued(n) ==
    \A v \in Stamp, c \in Contents \cup {None} :
        v.node = n /\ (Abroad(n, v, c) \/ OfMember(node[n], v, c)) =>
            node[n].head # None /\ Covers(node[n], v)

\* Before a peer is registered no version of n is known to others.
Quiet(n) ==
    node[n].stage # "registered" =>
        \A v \in Stamp, c \in Contents \cup {None} : Abroad(n, v, c) => v.node # n

Named ==
    \A v \in Stamp, c, d \in Contents \cup {None} :
        Anywhere(v, c) /\ Anywhere(v, d) => c = d

NamesOK == Named /\ \A n \in Nodes : Issued(n) /\ Quiet(n)

LEMMA CoversStays ==
    ASSUME NEW t \in NodeStates, NEW r \in NodeStates, NEW v \in Stamp,
           Safe(t, r), Rises(t, r), Covers(t, v)
    PROVE  Covers(r, v)
<1>1. t.clock \in Stamp /\ r.clock \in Stamp /\ AtMost(t.clock, r.clock)
  BY StateFields DEF Safe
<1>2. CASE AtMost(v, t.clock)
  BY <1>1, <1>2, Order DEF Covers
<1>3. CASE t.member # None /\ t.head # None /\ AtMost(v, t.head.version)
  <2>1. r.member # None /\ r.head # None /\ AtMost(t.head.version, r.head.version)
    BY <1>3 DEF Safe, Rises
  <2>2. t.head.version \in Stamp /\ r.head.version \in Stamp
    BY <1>3, <2>1, StateFields
  <2> QED BY <1>3, <2>1, <2>2, Order DEF Covers
<1> QED BY <1>2, <1>3 DEF Covers

(* A change of n's records, from t to r, names contents as before.  t is   *)
(* what n stores, or that without its association.                         *)
LEMMA ChangeNames ==
    ASSUME TypeOK, NodesOK, NamesOK,
           NEW n \in Nodes, NEW t \in NodeStates, NEW r \in NodeStates,
           node' = [node EXCEPT ![n] = r],
           \A m \in Nodes : wire'[m] \subseteq wire[m],
           t.clock = node[n].clock, t.head = node[n].head,
           t.member = node[n].member \/ t.member = None,
           r.stage # "registered" => node[n].stage # "registered",
           Safe(t, r), Evolves(t, r, wire[n]),
           \A v \in Stamp, c \in Contents \cup {None} :
              v.node = n /\ (Abroad(n, v, c) \/ OfMember(t, v, c)) => t.head # None /\ Covers(t, v)
    PROVE  NamesOK'
<1> DEFINE C == Contents \cup {None}
           New(v) == /\ v.node = n
                     /\ t.head # None => /\ Earlier(t.clock, v)
                                         /\ t.member # None => Earlier(t.head.version, v)
<1>1. /\ node \in [Nodes -> NodeStates] /\ node'[n] = r
      /\ \A k \in Nodes \ {n} : node'[k] = node[k]
      /\ t.clock.node = n /\ node[n] \in NodeStates
  BY DEF TypeOK, NodesOK
<1>2. \A v, c : Wired(v, c)' => Wired(v, c)
  BY DEF Wired
<1>3. \A v, c : Abroad(n, v, c)' => Abroad(n, v, c)
  BY <1>1, <1>2 DEF Abroad, OfHead, OfMember
<1>4. ASSUME NEW v, NEW c, OfHead(r, v, c)
      PROVE  OfHead(t, v, c) \/ Wired(v, c) \/ New(v)
  BY <1>1, <1>4 DEF Evolves, HeadOrigin, States, OfHead, Wired
<1>5. ASSUME NEW v, NEW c, OfMember(r, v, c)
      PROVE  OfMember(t, v, c) \/ OfHead(r, v, c) \/ Wired(v, c)
  BY <1>5 DEF Evolves, MemberOrigin, States, OfHead, OfMember, Wired
<1>6. \A v, c : OfHead(t, v, c) <=> OfHead(node[n], v, c)
  BY DEF OfHead
<1>7. \A v, c : OfMember(t, v, c) => OfMember(node[n], v, c)
  BY DEF OfMember
<1>8. ASSUME NEW k \in Nodes \ {n}, NEW v, NEW c, Abroad(k, v, c)'
      PROVE  Abroad(k, v, c) \/ v.node = n
  <2>1. CASE Wired(v, c)'
    BY <1>2, <2>1 DEF Abroad
  <2>2. ASSUME NEW m \in Nodes \ {k}, m # n, OfHead(node'[m], v, c) \/ OfMember(node'[m], v, c)
        PROVE  Abroad(k, v, c)
    BY <1>1, <2>2 DEF Abroad
  <2>3. CASE OfHead(r, v, c) \/ OfMember(r, v, c)
    <3>1. OfMember(t, v, c) \/ OfHead(t, v, c) \/ Wired(v, c) \/ New(v)
      BY <1>4, <1>5, <2>3
    <3> QED BY <1>6, <1>7, <3>1 DEF Abroad
  <2> QED BY <1>1, <1>8, <2>1, <2>2, <2>3 DEF Abroad, OfHead, OfMember
<1>9. Issued(n)'
  <2> SUFFICES ASSUME NEW v \in Stamp, NEW c \in C, v.node = n,
                      Abroad(n, v, c)' \/ OfMember(r, v, c)
               PROVE  r.head # None /\ Covers(r, v)
    BY <1>1 DEF Issued, OfMember, Covers
  <2>1. CASE Abroad(n, v, c) \/ OfMember(t, v, c)
    <3>1. t.head # None /\ Covers(t, v)
      BY <2>1
    <3> QED BY <3>1, CoversStays DEF Evolves
  <2>2. CASE OfMember(r, v, c) /\ OfHead(r, v, c)
    BY <2>2, Order DEF OfMember, OfHead, Covers
  <2> QED BY <1>3, <1>5, <2>1, <2>2 DEF Abroad
<1>10. Quiet(n)'
  BY <1>1, <1>3 DEF NamesOK, Quiet
<1>11. ASSUME NEW k \in Nodes \ {n}
       PROVE  Issued(k)' /\ Quiet(k)'
  <2>1. Issued(k) /\ Quiet(k) /\ node'[k] = node[k]
    BY <1>1 DEF NamesOK
  <2>2. \A v \in Stamp, c \in C : v.node = k /\ Abroad(k, v, c)' => Abroad(k, v, c)
    BY <1>8
  <2>3. Issued(k)'
    BY <2>1, <2>2 DEF Issued, OfMember, Covers
  <2>4. Quiet(k)'
    BY <2>1, <2>2 DEF Quiet
  <2> QED BY <2>3, <2>4
<1>12. Named'
  <2> SUFFICES ASSUME NEW v \in Stamp, NEW c \in C, NEW d \in C, Anywhere(v, c)', Anywhere(v, d)'
               PROVE  c = d
    BY DEF Named
  <2> DEFINE Kept(x) == Abroad(n, v, x) \/ OfMember(t, v, x)
  <2>1. ASSUME NEW x \in C, Anywhere(v, x)'
        PROVE  Kept(x) \/ OfHead(r, v, x)
    <3>1. Abroad(n, v, x)' \/ OfHead(r, v, x) \/ OfMember(r, v, x)
      BY <1>1, <2>1 DEF Anywhere, Abroad, OfHead, OfMember
    <3> QED BY <1>3, <1>5, <3>1 DEF Abroad
  <2>2. \A x \in C : Kept(x) => Anywhere(v, x)
    BY <1>7 DEF Anywhere
  <2>3. \A x, y \in C : Anywhere(v, x) /\ Anywhere(v, y) => x = y
    BY DEF NamesOK, Named
  <2>4. ASSUME NEW x \in C, NEW y \in C, Kept(x), OfHead(r, v, y)
        PROVE  x = y
    <3>1. CASE OfHead(t, v, y) \/ Wired(v, y)
      <4>1. Anywhere(v, y)
        BY <1>6, <3>1 DEF Anywhere, Abroad
      <4> QED BY <2>2, <2>3, <2>4, <4>1
    <3>2. CASE New(v)
      <4>1. t.head # None /\ Covers(t, v)
        BY <2>4, <3>2
      <4>2. t.clock \in Stamp /\ t.head.version \in Stamp
        BY <4>1, StateFields
      <4> QED BY <3>2, <4>1, <4>2, Order DEF Covers
    <3> QED BY <1>4, <2>4, <3>1, <3>2
  <2>5. \A x, y \in C : OfHead(r, v, x) /\ OfHead(r, v, y) => x = y
    BY DEF OfHead
  <2> HIDE DEF Kept
  <2> QED BY <2>1, <2>2, <2>3, <2>4, <2>5
<1> QED BY <1>9, <1>10, <1>11, <1>12 DEF NamesOK

(* What is under way was under way, or is the current event of a node that *)
(* has a peer.                                                              *)
LEMMA SendNames ==
    ASSUME NamesOK, UNCHANGED node, NEW n \in Nodes, node[n].stage = "registered",
           \A v, c : Wired(v, c)' => Wired(v, c) \/ OfMember(node[n], v, c)
    PROVE  NamesOK'
<1>1. ASSUME NEW k \in Nodes, NEW v, NEW c, Abroad(k, v, c)'
      PROVE  Abroad(k, v, c) \/ (k = n /\ OfMember(node[k], v, c))
  BY <1>1 DEF Abroad, OfHead, OfMember
<1>2. ASSUME NEW v, NEW c, Anywhere(v, c)'
      PROVE  Anywhere(v, c)
  BY <1>1, <1>2 DEF Anywhere, OfHead, OfMember
<1>3. Named'
  BY <1>2 DEF NamesOK, Named
<1>4. ASSUME NEW k \in Nodes
      PROVE  Issued(k)' /\ Quiet(k)'
  <2>1. Issued(k) /\ Quiet(k)
    BY DEF NamesOK
  <2>2. Issued(k)'
    BY <1>1, <2>1 DEF Issued, OfMember, Covers
  <2>3. Quiet(k)'
    BY <1>1, <2>1 DEF Quiet
  <2> QED BY <2>2, <2>3
<1> QED BY <1>3, <1>4 DEF NamesOK

LEMMA NamesNext ==
    IInv /\ NamesOK /\ [Next]_vars /\ [NoneAhead]_vars /\ [left'.losses = left.losses]_vars
        => NamesOK'
<1> SUFFICES ASSUME IInv, NamesOK, [Next]_vars, [NoneAhead]_vars,
                    [left'.losses = left.losses]_vars
             PROVE  NamesOK'
  OBVIOUS
<1>1. CASE UNCHANGED vars
  BY <1>1 DEF vars, NamesOK, Named, Issued, Quiet, Anywhere, Abroad, Wired, OfHead, OfMember, Covers
<1>2. CASE Next /\ NoneAhead /\ left'.losses = left.losses
  <2>1. TypeOK /\ NodesOK /\ \A n \in Nodes : Held(node[n]) /\ ~PurgesAhead(n)
    BY <1>2 DEF IInv, HeldOK, NoneAhead
  <2>2. CASE UNCHANGED node
    <3>1. CASE \A n \in Nodes : wire'[n] \subseteq wire[n]
      <4>1. \A v, c : Wired(v, c)' => Wired(v, c)
        BY <3>1 DEF Wired
      <4>2. \A n \in Nodes : \A v, c : Abroad(n, v, c)' => Abroad(n, v, c)
        BY <2>2, <4>1 DEF Abroad, OfHead, OfMember
      <4>3. \A v, c : Anywhere(v, c)' => Anywhere(v, c)
        BY <2>2, <4>2 DEF Anywhere, OfHead, OfMember
      <4>4. Named'
        BY <4>3 DEF NamesOK, Named
      <4>5. \A n \in Nodes : Issued(n)' /\ Quiet(n)'
        BY <2>2, <4>2 DEF NamesOK, Issued, Quiet, OfMember, Covers
      <4> QED BY <4>4, <4>5 DEF NamesOK
    <3>2. ASSUME NEW n \in Nodes, NEW m \in Nodes, Sends(n, m)
          PROVE  NamesOK'
      <4>1. ASSUME NEW v, NEW c, Wired(v, c)'
            PROVE  Wired(v, c) \/ OfMember(node[n], v, c)
        <5>1. PICK k \in Nodes : \E e \in wire'[k] : e.version = v /\ e.content = c
          BY <4>1 DEF Wired
        <5>2. wire'[k] \subseteq wire[k] \cup {node[n].member.event}
          BY <2>1, <3>2 DEF Sends, TypeOK
        <5>3. node[n].member # None
          BY <3>2 DEF Sends
        <5> QED BY <5>1, <5>2, <5>3 DEF Wired, OfMember
      <4>2. node[n].stage = "registered"
        BY <3>2 DEF Sends
      <4> QED BY <2>2, <4>1, <4>2, SendNames
    <3> QED BY <1>2, <2>1, <3>1, <3>2, WireSteps
  <2>3. CASE ~UNCHANGED node
    <3>1. \A n \in Nodes : wire'[n] \subseteq wire[n]
      BY <1>2, <2>1, <2>3, WireSteps DEF Sends
    <3>2. ASSUME NEW n \in Nodes, NEW r \in NodeStates, Works(n, r)
          PROVE  NamesOK'
      <4>1. /\ node' = [node EXCEPT ![n] = r] /\ Safe(node[n], r) /\ Evolves(node[n], r, wire[n])
            /\ r.stage # "registered" => node[n].stage # "registered"
        BY <2>1, <3>2 DEF Works, Keeps
      <4>2. Issued(n) /\ node[n] \in NodeStates
        BY <2>1 DEF NamesOK, TypeOK
      <4> QED BY <2>1, <3>1, <4>1, <4>2, ChangeNames DEF Issued
    <3>3. ASSUME NEW n \in Nodes, ChangeProfile(n)
          PROVE  NamesOK'
      <4>1. PICK r, t : /\ node' = [node EXCEPT ![n] = r]
                        /\ t \in NodeStates /\ t.clock = node[n].clock /\ t.head = node[n].head
                        /\ t.member = None
                        /\ node[n].stage # "registered" /\ r.stage = "configured"
                        /\ Safe(t, r)
                        /\ Evolves(t, r, {})
        BY <2>1, <3>3, ChangeProfileSteps
      <4>2. r \in NodeStates /\ Evolves(t, r, wire[n])
        BY <4>1, EvolvesByMore DEF Safe
      <4>3. ASSUME NEW v \in Stamp, NEW c \in Contents \cup {None},
                   v.node = n, Abroad(n, v, c) \/ OfMember(t, v, c)
            PROVE  t.head # None /\ Covers(t, v)
        BY <4>1, <4>3 DEF NamesOK, Quiet, OfMember
      <4> QED BY <2>1, <3>1, <4>1, <4>2, <4>3, ChangeNames
    <3>4. ASSUME NEW n \in Nodes, Lose(n)
          PROVE  FALSE
      BY <1>2, <2>1, <3>4, LoseSteps
    <3> QED BY <1>2, <2>1, <2>3, <3>2, <3>3, <3>4, NodeSteps
  <2> QED BY <2>2, <2>3
<1> QED BY <1>1, <1>2

LEMMA NamesInit == Init => NamesOK
<1> SUFFICES ASSUME Init PROVE NamesOK
  OBVIOUS
<1>1. ASSUME NEW n \in Nodes
      PROVE  node[n].head = None /\ node[n].member = None /\ wire[n] = {}
  <2>1. node[n] = [Fresh(n) EXCEPT !.note = left.start[n]] /\ wire[n] = {}
    BY <1>1 DEF Init
  <2> QED BY <2>1 DEF Fresh
<1>2. \A n \in Nodes : \A v, c : ~Abroad(n, v, c) /\ ~OfHead(node[n], v, c) /\ ~OfMember(node[n], v, c)
  BY <1>1 DEF Abroad, Wired, OfHead, OfMember
<1> QED BY <1>2 DEF NamesOK, Named, Issued, Quiet, Anywhere

LEMMA NamesStated ==
    ASSUME TypeOK, NamesOK
    PROVE  VersionNamesContent
<1> DEFINE C == Contents \cup {None}
<1>1. ASSUME NEW n \in Nodes, NEW p \in Stated(n)
      PROVE  p[1] \in Stamp /\ p[2] \in C /\ Anywhere(p[1], p[2])
  <2>1. node[n] \in NodeStates /\ wire[n] \subseteq Events
    BY DEF TypeOK
  <2>2. CASE node[n].head # None /\ p = <<node[n].head.version, node[n].head.content>>
    <3>1. node[n].head.version \in Stamp /\ node[n].head.content \in C
      BY <2>1, <2>2, StateFields
    <3> QED BY <2>2, <3>1 DEF Anywhere, OfHead
  <2>3. CASE node[n].member # None
             /\ p = <<node[n].member.event.version, node[n].member.event.content>>
    <3>1. node[n].member.event \in Events
      BY <2>1, <2>3, StateFields
    <3> QED BY <2>3, <3>1 DEF Anywhere, OfMember, Events
  <2>4. ASSUME NEW e \in wire[n], p = <<e.version, e.content>>
        PROVE  p[1] \in Stamp /\ p[2] \in C /\ Anywhere(p[1], p[2])
    BY <2>1, <2>4 DEF Anywhere, Abroad, Wired, Events
  <2> QED BY <1>1, <2>2, <2>3, <2>4 DEF Stated
<1>2. ASSUME NEW a \in UNION {Stated(n) : n \in Nodes}, NEW b \in UNION {Stated(n) : n \in Nodes},
             a[1] = b[1]
      PROVE  a[2] = b[2]
  BY <1>1, <1>2 DEF NamesOK, Named
<1> QED BY <1>2 DEF VersionNamesContent

\* No node loses its database.  A node that did has forgotten what it issued,
\* and a note imported again gets its historical version from its time stamp.
NothingIsLost == [][left'.losses = left.losses]_vars

(* A version is never given to two contents, in any store and on any wire, *)
(* on which apply_sync_event relies when it compares versions only.        *)
THEOREM VersionsNameContents ==
    Spec /\ NoPurgeAhead /\ NothingIsLost => []VersionNamesContent
<1>1. IInv /\ NamesOK => VersionNamesContent
  BY NamesStated DEF IInv
<1> QED BY <1>1, NamesInit, NamesNext, IInvInit, IInvNext, PTL DEF Spec, NoPurgeAhead, NothingIsLost
=============================================================================
