-------------------------- MODULE Attachments_proofs --------------------------
(***************************************************************************)
(* Proofs of the safety properties of Attachments.                         *)
(***************************************************************************)
EXTENDS Attachments, TLAPS

Kinds == {"attach", "snapshot", "detach", "purge", "fence"}

Events == [id : {1, 2}, kind : Kinds, object : Objects \cup {None}, attached : BOOLEAN]

Notes == [status : {"absent", "active", "trashed"}, object : Objects \cup {None},
          selected : BOOLEAN, revision : Nat]

Heads == {None} \cup [object : Objects \cup {None}, selected : BOOLEAN]

Jobs == [job : {"rest", "put", "apply", "undo", "sweep", "clean", "delete", "deleted"},
         object : Objects \cup {None}, seen : Nat, todo : SUBSET Objects]

Rows == [status : {"none", "open", "completed"}, owner : Workers \cup {None}]

(* What a transaction works on.                                            *)
States == [note : Notes, head : Heads, member : Events \cup {None},
           pending : Events \cup {None}]

Rowed == {o \in Objects : operations[o].status # "none"}

Holding(w) == worker[w].job \in {"put", "apply", "undo"}

(* Every variable the argument is about has its shape; keys are given out  *)
(* in order.                                                               *)
RecordsOK == Records \in States

LeasesOK ==
    /\ inflight \subseteq Events /\ None \notin inflight
    /\ \A l, k \in inflight : l = k

RestOK ==
    /\ created \in Nat /\ created <= MaxObjects
    /\ store \subseteq 1 .. created
    /\ operations \in [Objects -> Rows]
    /\ Rowed \subseteq 1 .. created
    /\ configured \in BOOLEAN
    /\ worker \in [Workers -> Jobs]

(* The head is never scanned for pins: it says what the note says.         *)
HeadFollowsNote == head # None => head.object = note.object

(* An object with a cleanup row is not the note's any more, and never will *)
(* be: what becomes the note's was just published.                         *)
RowsAreReplaced ==
    \A o \in Rowed : o # note.object /\ \A w \in Workers : Holding(w) => worker[w].object # o

(* A published object belongs to one worker, and nothing refers to it yet. *)
HeldIsPrivate ==
    \A w \in Workers : Holding(w) =>
        /\ worker[w].object \in store \ Referenced
        /\ \A v \in Workers \ {w} : Holding(v) => worker[v].object # worker[w].object

ReferencedIsStored == Referenced \subseteq store

(* A cleanup pass works on rows, and deletes what nothing refers to.       *)
PassesAreSafe ==
    \A w \in Workers :
        /\ worker[w].job \in {"clean", "delete", "deleted"} => worker[w].todo \subseteq Rowed
        /\ worker[w].job = "delete" => worker[w].object \in Rowed \ Referenced
        /\ worker[w].job = "deleted" => worker[w].object \in Rowed \ store

(* Before a profile is selected nothing is recorded.                       *)
NothingIsRecorded ==
    ~configured => head = None /\ member = None /\ pending = None /\ inflight = {}

IInv ==
    /\ RecordsOK /\ LeasesOK /\ RestOK
    /\ HeadFollowsNote /\ RowsAreReplaced /\ HeldIsPrivate /\ ReferencedIsStored
    /\ PassesAreSafe /\ NothingIsRecorded /\ OrphansAreKnown

LEMMA NoneIsNoObject == None \notin Objects
  BY ObjectsAssumption DEF Objects

LEMMA InitInv == Init => IInv
  <1> SUFFICES ASSUME Init PROVE IInv
    OBVIOUS
  <1> USE ObjectsAssumption DEF Objects
  <1>1. RecordsOK /\ LeasesOK
    BY DEF Init, RecordsOK, LeasesOK, Records, States, Notes, Heads, Events, Kinds
  <1>2. RestOK
    <2>1. operations \in [Objects -> Rows] /\ worker \in [Workers -> Jobs]
      BY DEF Init, Rows, Jobs, Resting
    <2>2. Rowed = {}
      BY DEF Init, Rowed
    <2>3. created \in Nat /\ created <= MaxObjects /\ store \subseteq 1 .. created
      BY DEF Init
    <2>4. configured \in BOOLEAN
      BY DEF Init
    <2> QED BY <2>1, <2>2, <2>3, <2>4 DEF RestOK
  <1>3. Referenced = {1} /\ store = {1} /\ note.object = 1 /\ Rowed = {}
    BY DEF Init, Referenced, Get, Rowed
  <1>4. \A w \in Workers : worker[w].job = "rest"
    BY DEF Init, Resting
  <1>5. HeadFollowsNote /\ NothingIsRecorded
    BY DEF Init, HeadFollowsNote, NothingIsRecorded
  <1>6. RowsAreReplaced /\ HeldIsPrivate /\ ReferencedIsStored /\ PassesAreSafe
    BY <1>3, <1>4 DEF RowsAreReplaced, HeldIsPrivate, ReferencedIsStored, PassesAreSafe, Holding
  <1>7. OrphansAreKnown
    BY <1>3 DEF OrphansAreKnown
  <1> QED BY <1>1, <1>2, <1>5, <1>6, <1>7 DEF IInv

-----------------------------------------------------------------------------
(***************************************************************************)
(* Transactions: operators from records to records.                        *)
(***************************************************************************)

(* At most one lease is out, so a fresh id exists.                         *)
LEMMA FreshId == ASSUME LeasesOK PROVE NewId \in {1, 2}
  <1>1. \E id \in 1 .. 2 : \A lease \in inflight : lease.id # id
    <2>1. CASE inflight = {}
      <3> 1 \in 1 .. 2 OBVIOUS
      <3> QED BY <2>1
    <2>2. CASE inflight # {}
      <3>1. PICK l \in inflight : inflight = {l}
        BY <2>2 DEF LeasesOK
      <3>2. l.id \in {1, 2}
        BY DEF LeasesOK, Events
      <3> QED BY <3>1, <3>2
    <2> QED BY <2>1, <2>2
  <1> QED BY <1>1 DEF NewId

LEMMA AnnounceFacts ==
    ASSUME LeasesOK, NEW s \in States, NEW object \in Objects \cup {None}, NEW kind \in Kinds
    PROVE  /\ Announce(s, kind, object) \in States
           /\ Announce(s, kind, object).note = s.note
           /\ Announce(s, kind, object).head = s.head
           /\ Get(Announce(s, kind, object).member) \subseteq {object} \ {None}
           /\ Get(Announce(s, kind, object).pending) \subseteq {object} \ {None}
  <1> DEFINE e == [id |-> NewId, kind |-> kind, object |-> object,
                   attached |-> kind \notin {"detach", "fence"}]
  <1>1. e \in Events
    BY FreshId DEF Events
  <1>2. Announce(s, kind, object) = [s EXCEPT !.member = e, !.pending = e]
    BY DEF Announce
  <1>3. Get(e) \subseteq {object} \ {None}
    BY DEF Get
  <1> HIDE DEF e
  <1> QED BY <1>1, <1>2, <1>3 DEF States

(* A capture refers to the object of the note, and to nothing else.        *)
LEMMA CapturedFacts ==
    ASSUME LeasesOK, NEW s \in States
    PROVE  /\ Captured(s) \in States
           /\ Captured(s).note = s.note
           /\ Captured(s).head.object = s.note.object
           /\ Get(Captured(s).member) \subseteq Get(s.member) \cup ({s.note.object} \ {None})
           /\ Get(Captured(s).pending) \subseteq Get(s.pending) \cup ({s.note.object} \ {None})
  <1> DEFINE h == [object |-> s.note.object, selected |-> s.note.selected]
             c == [s EXCEPT !.head = h]
             attached == s.member # None /\ s.member.attached
             kind == IF ~s.note.selected THEN "detach"
                     ELSE IF attached /\ s.member.kind # "attach" THEN "snapshot" ELSE "attach"
  <1>1. h \in Heads /\ s.note.object \in Objects \cup {None} /\ h.object = s.note.object
    BY DEF Heads, Notes, States
  <1>2. /\ c \in States /\ c.note = s.note /\ c.member = s.member /\ c.pending = s.pending
        /\ c.head = h
    BY <1>1 DEF States
  <1>3. kind \in Kinds
    BY Zenon DEF Kinds
  <1>4. Captured(s) = c \/ Captured(s) = Announce(c, kind, s.note.object)
    BY Zenon DEF Captured
  <1> HIDE DEF h, c, kind
  <1>5. CASE Captured(s) = c
    BY <1>5, <1>2, <1>1
  <1>6. CASE Captured(s) = Announce(c, kind, s.note.object)
    <2>1. PICK k \in Kinds : Captured(s) = Announce(c, k, s.note.object)
      BY <1>3, <1>6
    <2>2. PICK d \in States : d = c
      BY <1>2
    <2>3. PICK o \in Objects \cup {None} : o = s.note.object
      BY <1>1
    <2>4. /\ Announce(d, k, o) \in States
          /\ Announce(d, k, o).note = d.note
          /\ Announce(d, k, o).head = d.head
          /\ Get(Announce(d, k, o).member) \subseteq {o} \ {None}
          /\ Get(Announce(d, k, o).pending) \subseteq {o} \ {None}
      BY AnnounceFacts
    <2>5. Captured(s) = Announce(d, k, o)
      BY <2>1, <2>2, <2>3
    <2>6. d.note = s.note /\ d.head = h
      BY <1>2, <2>2
    <2> HIDE DEF h
    <2> QED BY <2>3, <2>4, <2>5, <2>6, <1>1
  <1> QED BY <1>4, <1>5, <1>6

Pins(s) == Get(s.member) \cup Get(s.pending)

Blank(s) == s.head = None /\ s.member = None /\ s.pending = None

(* A capture refers to what was referred to, and to the note's object.     *)
LEMMA CaptureFacts ==
    ASSUME LeasesOK, NEW s \in States, s.note.status # "absent", ~configured => Blank(s)
    PROVE  /\ Capture(s) \in States
           /\ Capture(s).note = s.note
           /\ Capture(s).head # None => Capture(s).head.object = s.note.object
           /\ Pins(Capture(s)) \subseteq Pins(s) \cup ({s.note.object} \ {None})
           /\ ~configured => Blank(Capture(s))
  <1>1. CASE configured
    <2>1. Capture(s) = Captured(s)
      BY <1>1 DEF Capture
    <2>2. /\ Captured(s) \in States
          /\ Captured(s).note = s.note
          /\ Captured(s).head.object = s.note.object
          /\ Get(Captured(s).member) \subseteq Get(s.member) \cup ({s.note.object} \ {None})
          /\ Get(Captured(s).pending) \subseteq Get(s.pending) \cup ({s.note.object} \ {None})
      BY CapturedFacts
    <2> QED BY <1>1, <2>1, <2>2 DEF Pins
  <1>2. CASE ~configured
    <2>1. Capture(s) = s
      BY <1>2 DEF Capture
    <2> QED BY <1>2, <2>1 DEF Pins, Blank
  <1> QED BY <1>1, <1>2

LEMMA CapturePurgeFacts ==
    ASSUME LeasesOK, NEW s \in States, ~configured => Blank(s)
    PROVE  /\ CapturePurge(s) \in States
           /\ CapturePurge(s).note = s.note
           /\ CapturePurge(s).head # None => CapturePurge(s).head.object = None
           /\ Pins(CapturePurge(s)) \subseteq Pins(s)
           /\ ~configured => Blank(CapturePurge(s))
  <1> DEFINE h == [object |-> None, selected |-> FALSE]
             c == [s EXCEPT !.head = h]
  <1>1. h \in Heads /\ h.object = None
    BY DEF Heads
  <1>2. /\ c \in States /\ c.note = s.note /\ c.member = s.member /\ c.pending = s.pending
        /\ c.head = h
    BY <1>1 DEF States
  <1>3. CASE ~configured
    <2>1. CapturePurge(s) = s
      BY <1>3 DEF CapturePurge
    <2> QED BY <1>3, <2>1 DEF Pins, Blank
  <1>4. CASE configured
    <2>1. CapturePurge(s) = c \/ CapturePurge(s) = Announce(c, "purge", None)
      BY <1>4, Zenon DEF CapturePurge
    <2> HIDE DEF h, c
    <2>2. CASE CapturePurge(s) = c
      BY <1>4, <2>2, <1>1, <1>2 DEF Pins
    <2>3. CASE CapturePurge(s) = Announce(c, "purge", None)
      <3>1. PICK d \in States : d = c
        BY <1>2
      <3>2. PICK k \in Kinds : k = "purge"
        BY DEF Kinds
      <3>3. PICK o \in Objects \cup {None} : o = None
        OBVIOUS
      <3>4. /\ Announce(d, k, o) \in States
            /\ Announce(d, k, o).note = d.note
            /\ Announce(d, k, o).head = d.head
            /\ Get(Announce(d, k, o).member) \subseteq {o} \ {None}
            /\ Get(Announce(d, k, o).pending) \subseteq {o} \ {None}
        BY AnnounceFacts
      <3>5. CapturePurge(s) = Announce(d, k, o)
        BY <2>3, <3>1, <3>2, <3>3
      <3> QED BY <1>4, <3>1, <3>3, <3>4, <3>5, <1>1, <1>2 DEF Pins
    <2> QED BY <2>1, <2>2, <2>3
  <1> QED BY <1>3, <1>4

(* What a transaction leaves in the records.                               *)
LEMMA StoreFacts ==
    ASSUME NEW s \in States, Store(s)
    PROVE  /\ RecordsOK'
           /\ note' = s.note /\ head' = s.head /\ member' = s.member /\ pending' = s.pending
           /\ Get(member') \cup Get(pending') = Pins(s)
  <1>1. note' = s.note /\ head' = s.head /\ member' = s.member /\ pending' = s.pending
    BY DEF Store
  <1>2. RecordsOK'
    BY <1>1 DEF RecordsOK, Records, States
  <1>3. Get(member') \cup Get(pending') = Pins(s)
    BY <1>1 DEF Pins
  <1> QED BY <1>1, <1>2, <1>3

-----------------------------------------------------------------------------
(***************************************************************************)
(* What every change of the records does.                                  *)
(***************************************************************************)

(* Records come to name nothing but the note's object; an object the note  *)
(* gives up gets a row; a worker that lets go of its object has handed it  *)
(* to the note, or it is given up.                                         *)
RecordsChange ==
    /\ RecordsOK' /\ LeasesOK' /\ HeadFollowsNote' /\ NothingIsRecorded'
    /\ store' = store /\ created' = created /\ configured' \in BOOLEAN
    /\ Referenced' \subseteq Referenced \cup ({note'.object} \ {None})
    /\ \/ note'.object = note.object /\ operations' = operations
       \/ /\ Enqueue(note.object)
          /\ \/ note'.object = None
             \/ \E w \in Workers : /\ Holding(w) /\ ~Holding(w)'
                                   /\ note'.object = worker[w].object
    /\ worker' \in [Workers -> Jobs]
    /\ \A v \in Workers :
          \/ worker'[v] = worker[v]
          \/ worker'[v].job \in {"rest", "sweep"}
          \/ worker'[v].job = "undo" /\ Holding(v) /\ worker'[v].object = worker[v].object
    /\ lost \subseteq lost'
    /\ \A v \in Workers : Holding(v) /\ ~Holding(v)'
                             => worker[v].object \in lost' \cup {note'.object}

LEMMA EnqueueFacts ==
    ASSUME RestOK, NEW o \in Objects \cup {None}, Enqueue(o)
    PROVE  /\ operations' \in [Objects -> Rows]
           /\ Rowed \subseteq Rowed'
           /\ Rowed' \subseteq Rowed \cup ({o} \ {None})
           /\ Open \subseteq Open'
           /\ o # None /\ o \notin Rowed => o \in Open'
  <1>1. CASE o = None \/ operations[o].status # "none"
    <2>1. operations' = operations
      BY <1>1, Zenon DEF Enqueue
    <2>2. o \in Rowed \/ o = None
      BY <1>1 DEF Rowed
    <2> QED BY <2>1, <2>2 DEF RestOK, Rowed, Open
  <1>2. CASE ~(o = None \/ operations[o].status # "none")
    <2> DEFINE row == [status |-> "open", owner |-> None]
    <2>1. operations' = [operations EXCEPT ![o] = row]
      BY <1>2, Zenon DEF Enqueue
    <2>2. row \in Rows /\ row.status = "open"
      BY DEF Rows
    <2> HIDE DEF row
    <2>3. o \in Objects /\ operations \in [Objects -> Rows]
      BY <1>2 DEF RestOK
    <2>4. /\ operations' \in [Objects -> Rows] /\ operations'[o] = row
          /\ \A p \in Objects \ {o} : operations'[p] = operations[p]
      BY <2>1, <2>2, <2>3
    <2>5. operations[o].status = "none"
      BY <1>2
    <2> QED BY <2>2, <2>3, <2>4, <2>5, <1>2, NoneIsNoObject DEF Rowed, Open
  <1> QED BY <1>1, <1>2

LEMMA StoredAreObjects == RestOK => store \subseteq Objects
  BY ObjectsAssumption DEF RestOK, Objects

LEMMA RecordsStep == IInv /\ RecordsChange => IInv'
  <1> SUFFICES ASSUME IInv, RecordsChange PROVE IInv'
    OBVIOUS
  <1>1. RecordsOK' /\ LeasesOK' /\ HeadFollowsNote' /\ NothingIsRecorded'
    BY DEF RecordsChange
  <1>2. RestOK /\ note.object \in Objects \cup {None} /\ note'.object \in Objects \cup {None}
    BY <1>1 DEF IInv, RecordsOK, Records, States, Notes
  <1>3. /\ operations' \in [Objects -> Rows]
        /\ Rowed \subseteq Rowed' /\ Open \subseteq Open'
        /\ Rowed' \subseteq Rowed \cup ({note.object} \ {None})
        /\ note.object \notin Rowed' \/ note'.object # note.object
        /\ note.object \in Open' \cup {None, note'.object}
    <2>1. note.object \notin Rowed
      BY DEF IInv, RowsAreReplaced
    <2>2. CASE note'.object = note.object /\ operations' = operations
      BY <1>2, <2>1, <2>2 DEF RestOK, Rowed, Open
    <2>3. CASE /\ Enqueue(note.object)
               /\ \/ note'.object = None
                  \/ \E w \in Workers : /\ Holding(w) /\ ~Holding(w)'
                                        /\ note'.object = worker[w].object
      <3>1. /\ operations' \in [Objects -> Rows]
            /\ Rowed \subseteq Rowed'
            /\ Rowed' \subseteq Rowed \cup ({note.object} \ {None})
            /\ Open \subseteq Open'
            /\ note.object # None /\ note.object \notin Rowed => note.object \in Open'
        BY <2>3, <1>2, EnqueueFacts
      <3>2. note'.object # note.object \/ note.object = None
        BY <2>3 DEF IInv, HeldIsPrivate, Referenced
      <3> QED BY <3>1, <3>2, <2>1, <1>2, NoneIsNoObject DEF Rowed
    <2> QED BY <2>2, <2>3 DEF RecordsChange
  <1>4. /\ note'.object \in {note.object, None}
           \/ \E w \in Workers : /\ Holding(w) /\ ~Holding(w)'
                                 /\ note'.object = worker[w].object
        /\ store' = store /\ Referenced' \subseteq Referenced \cup ({note'.object} \ {None})
    BY DEF RecordsChange
  <1>5. \A v \in Workers : Holding(v)' =>
            /\ Holding(v) /\ worker'[v].object = worker[v].object
            /\ worker[v].object # note.object
            /\ worker[v].object \notin Referenced'
    <2> SUFFICES ASSUME NEW v \in Workers, Holding(v)'
                 PROVE  /\ Holding(v) /\ worker'[v].object = worker[v].object
                        /\ worker[v].object # note.object
                        /\ worker[v].object \notin Referenced'
      OBVIOUS
    <2>1. Holding(v) /\ worker'[v].object = worker[v].object
      BY DEF RecordsChange, Holding
    <2>2. worker[v].object \in store \ Referenced
      BY <2>1 DEF IInv, HeldIsPrivate
    <2>3. worker[v].object \in Objects
      BY <2>2, <1>2, StoredAreObjects
    <2>4. worker[v].object # note.object
      BY <2>2, <2>3, NoneIsNoObject DEF Referenced
    <2>5. worker[v].object # note'.object
      BY <2>1, <2>3, <2>4, <1>4, NoneIsNoObject DEF IInv, HeldIsPrivate
    <2> QED BY <2>1, <2>2, <2>4, <2>5, <1>4
  <1>6. RestOK'
    <2>1. {note.object} \ {None} \subseteq store
      BY DEF IInv, ReferencedIsStored, Referenced
    <2> QED BY <2>1, <1>2, <1>3 DEF RecordsChange, RestOK
  <1>7. \A o \in Rowed : o # note'.object /\ (o \notin Referenced => o \notin Referenced')
    <2>1. \A o \in Rowed : o # note'.object
      BY <1>4, NoneIsNoObject DEF IInv, RowsAreReplaced, Rowed
    <2> QED BY <2>1, <1>4
  <1>8. RowsAreReplaced'
    <2> SUFFICES ASSUME NEW o \in Rowed'
                 PROVE  /\ o # note'.object
                        /\ \A v \in Workers : Holding(v)' => worker'[v].object # o
      BY DEF RowsAreReplaced
    <2>1. CASE o \in Rowed
      BY <2>1, <1>5, <1>7 DEF IInv, RowsAreReplaced
    <2>2. CASE o \notin Rowed
      <3>1. o = note.object
        BY <2>2, <1>3
      <3> QED BY <3>1, <1>3, <1>5
    <2> QED BY <2>1, <2>2
  <1>9. HeldIsPrivate'
    <2> SUFFICES ASSUME NEW v \in Workers, Holding(v)'
                 PROVE  /\ worker'[v].object \in store' \ Referenced'
                        /\ \A u \in Workers \ {v} :
                              Holding(u)' => worker'[u].object # worker'[v].object
      BY DEF HeldIsPrivate
    <2> QED BY <1>4, <1>5 DEF IInv, HeldIsPrivate
  <1>10. ReferencedIsStored'
    BY <1>4 DEF IInv, ReferencedIsStored, HeldIsPrivate, Referenced
  <1>11. PassesAreSafe'
    <2> SUFFICES ASSUME NEW v \in Workers
                 PROVE  /\ worker'[v].job \in {"clean", "delete", "deleted"}
                              => worker'[v].todo \subseteq Rowed'
                        /\ worker'[v].job = "delete" => worker'[v].object \in Rowed' \ Referenced'
                        /\ worker'[v].job = "deleted" => worker'[v].object \in Rowed' \ store'
      BY DEF PassesAreSafe
    <2>1. CASE worker'[v] = worker[v]
      BY <2>1, <1>3, <1>4, <1>7 DEF IInv, PassesAreSafe
    <2>2. CASE worker'[v].job \in {"rest", "sweep", "undo"}
      BY <2>2
    <2> QED BY <2>1, <2>2 DEF RecordsChange
  <1>12. OrphansAreKnown'
    <2> SUFFICES ASSUME NEW o \in store, o # note'.object
                 PROVE  o \in Open' \/ o \in Held' \/ o \in lost'
      BY <1>4 DEF OrphansAreKnown
    <2>1. o \in Objects
      BY <1>2, StoredAreObjects
    <2>2. CASE o = note.object
      BY <2>1, <2>2, <1>3, NoneIsNoObject
    <2>3. CASE o # note.object
      <3>1. CASE o \in Open
        BY <3>1, <1>3
      <3>2. CASE o \in lost
        BY <3>2 DEF RecordsChange
      <3>3. CASE o \in Held
        <4>1. PICK v \in Workers : Holding(v) /\ worker[v].object = o
          BY <3>3 DEF Held, Holding
        <4>2. CASE Holding(v)'
          BY <4>1, <4>2, <1>5 DEF Held, Holding
        <4>3. CASE ~Holding(v)'
          BY <4>1, <4>3 DEF RecordsChange
        <4> QED BY <4>2, <4>3
      <3> QED BY <2>3, <3>1, <3>2, <3>3 DEF IInv, OrphansAreKnown
    <2> QED BY <2>2, <2>3
  <1> QED BY <1>1, <1>6, <1>8, <1>9, <1>10, <1>11, <1>12 DEF IInv

(* A transaction that stores s.                                            *)
LEMMA StoreStep ==
    ASSUME IInv, NEW s \in States, Store(s), inflight' = inflight, configured' = configured,
           s.head # None => s.head.object = s.note.object,
           Pins(s) \subseteq Referenced \cup ({s.note.object} \ {None}),
           ~configured => Blank(s)
    PROVE  /\ RecordsOK' /\ LeasesOK' /\ HeadFollowsNote' /\ NothingIsRecorded'
           /\ note' = s.note
           /\ Referenced' \subseteq Referenced \cup ({note'.object} \ {None})
  <1>1. /\ RecordsOK'
        /\ note' = s.note /\ head' = s.head /\ member' = s.member /\ pending' = s.pending
        /\ Get(member') \cup Get(pending') = Pins(s)
    BY StoreFacts
  <1>2. LeasesOK'
    BY DEF IInv, LeasesOK
  <1>3. HeadFollowsNote' /\ NothingIsRecorded'
    BY <1>1 DEF IInv, HeadFollowsNote, NothingIsRecorded, Blank
  <1>4. UNION {Get(lease) : lease \in inflight} \subseteq Referenced
    BY DEF Referenced
  <1>5. Referenced' = (IF note'.object = None THEN {} ELSE {note'.object})
                      \cup Get(pending') \cup Get(member') \cup UNION {Get(lease) : lease \in inflight}
    BY DEF Referenced, Get
  <1>6. Referenced' \subseteq Referenced \cup ({note'.object} \ {None})
    BY <1>1, <1>4, <1>5
  <1> QED BY <1>1, <1>2, <1>3, <1>6

LEMMA RecordsAre ==
    ASSUME IInv
    PROVE  /\ Records \in States /\ LeasesOK /\ RestOK
           /\ Records.note = note /\ Records.head = head
           /\ Pins(Records) \subseteq Referenced
           /\ ~configured => Blank(Records)
           /\ note \in Notes /\ note.object \in Objects \cup {None} /\ note.revision \in Nat
           /\ note.status \in {"absent", "active", "trashed"} /\ note.selected \in BOOLEAN
           /\ head # None => head.object = note.object
  <1>1. Records \in States /\ LeasesOK /\ RestOK
    BY DEF IInv, RecordsOK
  <1>2. Records.note = note /\ Records.head = head /\ Records.member = member /\ Records.pending = pending
    BY DEF Records
  <1>3. Pins(Records) \subseteq Referenced
    BY <1>2 DEF Pins, Referenced
  <1>4. ~configured => Blank(Records)
    BY <1>2 DEF IInv, NothingIsRecorded, Blank
  <1>5. note \in Notes
    BY <1>1, <1>2 DEF States
  <1>6. head # None => head.object = note.object
    BY DEF IInv, HeadFollowsNote
  <1> QED BY <1>1, <1>2, <1>3, <1>4, <1>5, <1>6 DEF Notes

LEMMA ChangeFacts ==
    ASSUME IInv, NEW w \in Workers, NEW changed \in Notes, changed.status # "absent",
           Change(w, changed)
    PROVE  /\ RecordsOK' /\ LeasesOK' /\ HeadFollowsNote' /\ NothingIsRecorded'
           /\ note'.object = changed.object
           /\ UNCHANGED <<store, created, configured, lost>>
           /\ Referenced' \subseteq Referenced \cup ({note'.object} \ {None})
  <1> DEFINE before == Records
             edited == [changed EXCEPT !.revision = @ + 1]
             next == [before EXCEPT !.note = edited]
  <1>1. /\ before \in States /\ LeasesOK
        /\ Pins(before) \subseteq Referenced
        /\ ~configured => Blank(before)
    BY RecordsAre
  <1>2. Store(Capture(next)) /\ UNCHANGED <<store, created, inflight, configured, lost>>
    BY DEF Change
  <1> HIDE DEF before
  <1>3. edited \in Notes /\ edited.object = changed.object /\ edited.status = changed.status
    BY DEF Notes
  <1> HIDE DEF edited
  <1>4. /\ next \in States /\ next.note = edited /\ next.head = before.head
        /\ next.member = before.member /\ next.pending = before.pending
    BY <1>1, <1>3 DEF States
  <1>5. Pins(next) = Pins(before) /\ (~configured => Blank(next))
    BY <1>1, <1>4 DEF Pins, Blank
  <1>6. next.note.status # "absent" /\ next.note.object = changed.object
    BY <1>3, <1>4
  <1> HIDE DEF next
  <1>7. PICK s \in States : s = next
    BY <1>4
  <1>8. /\ Capture(s) \in States
        /\ Capture(s).note = s.note
        /\ Capture(s).head # None => Capture(s).head.object = s.note.object
        /\ Pins(Capture(s)) \subseteq Pins(s) \cup ({s.note.object} \ {None})
        /\ ~configured => Blank(Capture(s))
    BY <1>1, <1>5, <1>6, <1>7, CaptureFacts
  <1>9. PICK c \in States : c = Capture(s)
    BY <1>8
  <1>10. Pins(c) \subseteq Referenced \cup ({c.note.object} \ {None})
    BY <1>1, <1>5, <1>7, <1>8, <1>9
  <1>11. /\ Store(c) /\ inflight' = inflight /\ configured' = configured
         /\ c.head # None => c.head.object = c.note.object
         /\ ~configured => Blank(c)
    BY <1>2, <1>7, <1>8, <1>9
  <1>12. /\ RecordsOK' /\ LeasesOK' /\ HeadFollowsNote' /\ NothingIsRecorded'
         /\ note' = c.note
         /\ Referenced' \subseteq Referenced \cup ({note'.object} \ {None})
    BY <1>10, <1>11, StoreStep
  <1> QED BY <1>2, <1>6, <1>7, <1>8, <1>9, <1>12

-----------------------------------------------------------------------------
(***************************************************************************)
(* Steps that change the records.                                          *)
(***************************************************************************)

(* What a worker turns to.                                                 *)
LEMMA BecomeFacts ==
    ASSUME RestOK, NEW w \in Workers, NEW job \in Jobs, Become(w, job)
    PROVE  /\ worker' \in [Workers -> Jobs] /\ worker'[w] = job
           /\ \A v \in Workers \ {w} : worker'[v] = worker[v]
  BY DEF Become, RestOK

LEMMA RestingFacts ==
    /\ Resting \in Jobs /\ Resting.job = "rest"
    /\ Sweep \in Jobs /\ Sweep.job = "sweep"
  BY DEF Resting, Sweep, Jobs

(* A worker that held nothing, or hands its object to the note, goes to     *)
(* rest or starts a pass.                                                  *)
LEMMA LetGo ==
    ASSUME IInv, NEW w \in Workers, Become(w, Resting) \/ Become(w, Sweep),
           Holding(w) => worker[w].object \in lost' \cup {note'.object},
           lost \subseteq lost'
    PROVE  /\ worker' \in [Workers -> Jobs] /\ ~Holding(w)'
           /\ \A v \in Workers : worker'[v] = worker[v] \/ worker'[v].job \in {"rest", "sweep"}
           /\ \A v \in Workers : Holding(v) /\ ~Holding(v)'
                                    => worker[v].object \in lost' \cup {note'.object}
  <1>1. RestOK
    BY DEF IInv
  <1>2. /\ worker' \in [Workers -> Jobs] /\ worker'[w].job \in {"rest", "sweep"}
        /\ \A v \in Workers \ {w} : worker'[v] = worker[v]
    BY <1>1, BecomeFacts, RestingFacts
  <1>3. ~Holding(w)' /\ \A v \in Workers \ {w} : Holding(v)' = Holding(v)
    BY <1>2 DEF Holding
  <1> QED BY <1>2, <1>3

LEMMA PutStep ==
    ASSUME IInv, NEW w \in Workers, Put(w)
    PROVE  IInv'
  <1> DEFINE changed == [note EXCEPT !.object = worker[w].object]
  <1>1. RestOK /\ note \in Notes /\ worker[w].object \in Objects \cup {None}
    BY RecordsAre DEF RestOK, Jobs
  <1>2. changed \in Notes /\ changed.status # "absent" /\ changed.object = worker[w].object
    BY <1>1 DEF Put, Notes
  <1>3. Change(w, changed) /\ Enqueue(note.object) /\ Holding(w)
    BY DEF Put, Holding
  <1>4. Become(w, Resting) \/ Become(w, Sweep)
    BY DEF Put, Retain
  <1> HIDE DEF changed
  <1>5. /\ RecordsOK' /\ LeasesOK' /\ HeadFollowsNote' /\ NothingIsRecorded'
        /\ note'.object = worker[w].object
        /\ UNCHANGED <<store, created, configured, lost>>
        /\ Referenced' \subseteq Referenced \cup ({note'.object} \ {None})
    BY <1>2, <1>3, ChangeFacts
  <1>6. /\ worker' \in [Workers -> Jobs] /\ ~Holding(w)'
        /\ \A v \in Workers : worker'[v] = worker[v] \/ worker'[v].job \in {"rest", "sweep"}
        /\ \A v \in Workers : Holding(v) /\ ~Holding(v)'
                                 => worker[v].object \in lost' \cup {note'.object}
    BY <1>4, <1>5, LetGo
  <1>7. configured' \in BOOLEAN
    BY <1>1, <1>5 DEF RestOK
  <1>8. RecordsChange
    BY <1>3, <1>5, <1>6, <1>7 DEF RecordsChange
  <1> QED BY <1>8, RecordsStep

LEMMA RemoveStep ==
    ASSUME IInv, NEW w \in Workers, Remove(w)
    PROVE  IInv'
  <1> DEFINE changed == [note EXCEPT !.object = None]
  <1>1. RestOK /\ note \in Notes
    BY RecordsAre
  <1>2. changed \in Notes /\ changed.status # "absent" /\ changed.object = None
    BY <1>1 DEF Remove, Notes
  <1>3. Change(w, changed) /\ Enqueue(note.object) /\ ~Holding(w)
    BY DEF Remove, Holding
  <1>4. Become(w, Resting) \/ Become(w, Sweep)
    BY DEF Remove
  <1> HIDE DEF changed
  <1>5. /\ RecordsOK' /\ LeasesOK' /\ HeadFollowsNote' /\ NothingIsRecorded'
        /\ note'.object = None
        /\ UNCHANGED <<store, created, configured, lost>>
        /\ Referenced' \subseteq Referenced \cup ({note'.object} \ {None})
    BY <1>2, <1>3, ChangeFacts
  <1>6. /\ worker' \in [Workers -> Jobs] /\ ~Holding(w)'
        /\ \A v \in Workers : worker'[v] = worker[v] \/ worker'[v].job \in {"rest", "sweep"}
        /\ \A v \in Workers : Holding(v) /\ ~Holding(v)'
                                 => worker[v].object \in lost' \cup {note'.object}
    BY <1>3, <1>4, <1>5, LetGo
  <1>7. configured' \in BOOLEAN
    BY <1>1, <1>5 DEF RestOK
  <1>8. RecordsChange
    BY <1>3, <1>5, <1>6, <1>7 DEF RecordsChange
  <1> QED BY <1>8, RecordsStep

LEMMA EditStep ==
    ASSUME IInv, NEW w \in Workers, Edit(w)
    PROVE  IInv'
  <1>1. RestOK /\ note \in Notes
    BY RecordsAre
  <1>2. PICK changed \in Notes : /\ Change(w, changed) /\ changed.status # "absent"
                                 /\ changed.object = note.object
    <2>1. [note EXCEPT !.selected = ~@] \in Notes
          /\ [note EXCEPT !.selected = ~@].object = note.object
          /\ [note EXCEPT !.selected = ~@].status = note.status
      BY <1>1 DEF Notes
    <2>2. \A status \in {"trashed", "active"} :
             /\ [note EXCEPT !.status = status] \in Notes
             /\ [note EXCEPT !.status = status].object = note.object
             /\ [note EXCEPT !.status = status].status = status
      BY <1>1 DEF Notes
    <2> QED BY <2>1, <2>2 DEF Edit
  <1>3. UNCHANGED <<operations, worker>>
    BY DEF Edit
  <1>5. /\ RecordsOK' /\ LeasesOK' /\ HeadFollowsNote' /\ NothingIsRecorded'
        /\ note'.object = note.object
        /\ UNCHANGED <<store, created, configured, lost>>
        /\ Referenced' \subseteq Referenced \cup ({note'.object} \ {None})
    BY <1>2, ChangeFacts
  <1>6. \A v \in Workers : Holding(v)' = Holding(v)
    BY <1>3 DEF Holding
  <1>7. configured' \in BOOLEAN /\ worker' \in [Workers -> Jobs]
    BY <1>1, <1>3, <1>5 DEF RestOK
  <1>8. RecordsChange
    BY <1>3, <1>5, <1>6, <1>7 DEF RecordsChange
  <1> QED BY <1>8, RecordsStep

LEMMA PurgeStep ==
    ASSUME IInv, NEW w \in Workers, Purge(w)
    PROVE  IInv'
  <1> DEFINE captured == IF head # None /\ member # None THEN Records ELSE Capture(Records)
             gone == [captured EXCEPT !.note = NoNote]
  <1>0. Store(CapturePurge(gone))
    BY Zenon DEF Purge
  <1>1. /\ Records \in States /\ LeasesOK /\ RestOK
        /\ Pins(Records) \subseteq Referenced
        /\ ~configured => Blank(Records)
        /\ Records.note = note /\ note.object \in Objects \cup {None}
    BY RecordsAre
  <1>2. note.status # "absent" /\ {note.object} \ {None} \subseteq Referenced
    BY DEF Purge, Referenced
  <1>3. /\ captured \in States
        /\ Pins(captured) \subseteq Referenced
        /\ ~configured => Blank(captured)
    <2>1. PICK s \in States : s = Records
      BY <1>1
    <2>2. s.note.status # "absent" /\ (~configured => Blank(s))
      BY <1>1, <1>2, <2>1
    <2>3. /\ Capture(s) \in States
          /\ Pins(Capture(s)) \subseteq Pins(s) \cup ({s.note.object} \ {None})
          /\ ~configured => Blank(Capture(s))
      BY <1>1, <2>2, CaptureFacts
    <2>4. captured = s \/ captured = Capture(s)
      BY <2>1
    <2> HIDE DEF captured
    <2> QED BY <1>1, <1>2, <2>1, <2>3, <2>4
  <1> HIDE DEF captured
  <1>4. NoNote \in Notes /\ NoNote.object = None
    BY DEF NoNote, Notes
  <1>5. /\ gone \in States /\ gone.note = NoNote /\ gone.head = captured.head
        /\ gone.member = captured.member /\ gone.pending = captured.pending
    BY <1>3, <1>4 DEF States
  <1>6. Pins(gone) \subseteq Referenced /\ (~configured => Blank(gone))
    BY <1>3, <1>5 DEF Pins, Blank
  <1>7. /\ Store(CapturePurge(gone)) /\ Enqueue(note.object) /\ ~Holding(w)
        /\ UNCHANGED <<store, created, inflight, configured, lost>>
    BY <1>0 DEF Purge, Holding
  <1>8. Become(w, Resting) \/ Become(w, Sweep)
    BY DEF Purge
  <1> HIDE DEF gone
  <1>9. PICK s \in States : s = gone
    BY <1>5
  <1>10. /\ CapturePurge(s) \in States
         /\ CapturePurge(s).note = s.note
         /\ CapturePurge(s).head # None => CapturePurge(s).head.object = None
         /\ Pins(CapturePurge(s)) \subseteq Pins(s)
         /\ ~configured => Blank(CapturePurge(s))
    BY <1>1, <1>6, <1>9, CapturePurgeFacts
  <1>11. PICK c \in States : c = CapturePurge(s)
    BY <1>10
  <1>12. /\ c.note = NoNote /\ c.note.object = None
         /\ c.head # None => c.head.object = c.note.object
         /\ Pins(c) \subseteq Referenced \cup ({c.note.object} \ {None})
         /\ ~configured => Blank(c)
         /\ Store(c) /\ inflight' = inflight /\ configured' = configured
    BY <1>4, <1>5, <1>6, <1>7, <1>9, <1>10, <1>11
  <1>13. /\ RecordsOK' /\ LeasesOK' /\ HeadFollowsNote' /\ NothingIsRecorded'
         /\ note' = c.note
         /\ Referenced' \subseteq Referenced \cup ({note'.object} \ {None})
    BY <1>12, StoreStep
  <1>14. /\ worker' \in [Workers -> Jobs] /\ ~Holding(w)'
         /\ \A v \in Workers : worker'[v] = worker[v] \/ worker'[v].job \in {"rest", "sweep"}
         /\ \A v \in Workers : Holding(v) /\ ~Holding(v)'
                                  => worker[v].object \in lost' \cup {note'.object}
    BY <1>7, <1>8, LetGo
  <1>15. configured' \in BOOLEAN /\ note'.object = None
    BY <1>1, <1>7, <1>12, <1>13 DEF RestOK
  <1>16. RecordsChange
    BY <1>7, <1>13, <1>14, <1>15 DEF RecordsChange
  <1> QED BY <1>16, RecordsStep

(* A step of synchronization that leaves the note and the workers alone.   *)
LEMMA QuietStep ==
    ASSUME IInv, RecordsOK', LeasesOK', HeadFollowsNote', NothingIsRecorded',
           note'.object = note.object, Referenced' \subseteq Referenced \cup ({note'.object} \ {None}),
           UNCHANGED <<store, created, operations, worker, lost>>, configured' \in BOOLEAN
    PROVE  IInv'
  <1>1. worker' \in [Workers -> Jobs] /\ \A v \in Workers : Holding(v)' = Holding(v)
    BY DEF IInv, RestOK, Holding
  <1>2. RecordsChange
    BY <1>1 DEF RecordsChange
  <1> QED BY <1>2, RecordsStep

LEMMA ConfigureStep == ASSUME IInv, Configure PROVE IInv'
  <1>1. /\ RecordsOK' /\ LeasesOK' /\ HeadFollowsNote' /\ note'.object = note.object
        /\ Referenced' = Referenced
    BY DEF Configure, records, IInv, RecordsOK, Records, LeasesOK, HeadFollowsNote, Referenced, Get
  <1>2. NothingIsRecorded' /\ configured' \in BOOLEAN
    BY DEF Configure, NothingIsRecorded
  <1> QED BY <1>1, <1>2, QuietStep DEF Configure

LEMMA InitializeStep == ASSUME IInv, Initialize PROVE IInv'
  <1>1. /\ Records \in States /\ LeasesOK /\ RestOK
        /\ Pins(Records) \subseteq Referenced
        /\ ~configured => Blank(Records)
        /\ Records.note = note
    BY RecordsAre
  <1>2. PICK s \in States : s = Records
    BY <1>1
  <1>3. s.note.status # "absent" /\ (~configured => Blank(s))
    BY <1>1, <1>2 DEF Initialize
  <1>4. /\ Capture(s) \in States
        /\ Capture(s).note = s.note
        /\ Capture(s).head # None => Capture(s).head.object = s.note.object
        /\ Pins(Capture(s)) \subseteq Pins(s) \cup ({s.note.object} \ {None})
        /\ ~configured => Blank(Capture(s))
    BY <1>1, <1>3, CaptureFacts
  <1>5. PICK c \in States : c = Capture(s)
    BY <1>4
  <1>6. Store(c) /\ inflight' = inflight /\ configured' = configured
    BY <1>2, <1>5 DEF Initialize
  <1>7. /\ RecordsOK' /\ LeasesOK' /\ HeadFollowsNote' /\ NothingIsRecorded'
        /\ note' = c.note
        /\ Referenced' \subseteq Referenced \cup ({note'.object} \ {None})
    BY <1>1, <1>2, <1>4, <1>5, <1>6, StoreStep
  <1>8. note'.object = note.object /\ configured' \in BOOLEAN
    BY <1>1, <1>2, <1>4, <1>5, <1>6, <1>7 DEF RestOK
  <1> QED BY <1>7, <1>8, QuietStep DEF Initialize

(* Release, Reserve, Acknowledge and GiveUp pin less than before.          *)
LEMMA OutboundStep == ASSUME IInv, Outbound PROVE IInv'
  <1>1. /\ RecordsOK /\ LeasesOK /\ RestOK /\ note \in Notes
    BY RecordsAre DEF RecordsOK
  <1>2. member \in Events \cup {None} /\ pending \in Events \cup {None}
    BY <1>1 DEF RecordsOK, Records, States
  <1>3. /\ UNCHANGED <<store, created, operations, worker, lost, note, head, configured>>
        /\ pending' \in {pending, None} /\ member' \in Events \cup {None}
        /\ Get(member') \subseteq Get(member)
        /\ inflight' \subseteq inflight \/ (inflight' = {member} /\ member # None)
        /\ member # None \/ member' = None
        /\ LeasesOK'
    <2>1. CASE Release \/ GiveUp
      BY <2>1, <1>2 DEF Release, GiveUp, records, LeasesOK
    <2>2. CASE Reserve
      BY <2>2, <1>2 DEF Reserve, records, LeasesOK
    <2>3. CASE Acknowledge
      <3>1. /\ UNCHANGED <<store, created, operations, worker, lost, note, head, configured>>
            /\ inflight' \subseteq inflight /\ pending' \in {pending, None} /\ LeasesOK'
        BY <2>3, <1>1 DEF Acknowledge, LeasesOK
      <3>2. PICK lease \in inflight :
               \/ /\ member = lease /\ lease.kind = "attach"
                  /\ member' = [lease EXCEPT !.kind = "snapshot", !.id = NewId]
               \/ /\ member = lease /\ lease.kind = "detach"
                  /\ member' = [lease EXCEPT !.kind = "fence", !.id = NewId, !.object = None]
               \/ UNCHANGED member
        BY <2>3 DEF Acknowledge
      <3>3. NewId \in {1, 2}
        BY <1>1, FreshId
      <3>4. lease \in Events /\ lease # None
        BY <1>1 DEF LeasesOK
      <3>5. CASE UNCHANGED member
        BY <3>1, <3>5, <1>2
      <3>6. CASE /\ member = lease /\ lease.kind = "attach"
                 /\ member' = [lease EXCEPT !.kind = "snapshot", !.id = NewId]
        <4>1. member' \in Events /\ member'.object = lease.object
          BY <3>3, <3>4, <3>6 DEF Events, Kinds
        <4>2. Get(member') \subseteq Get(member) /\ (member # None \/ member' = None)
          BY <3>4, <3>6, <4>1 DEF Get
        <4> QED BY <3>1, <4>1, <4>2
      <3>7. CASE /\ member = lease /\ lease.kind = "detach"
                 /\ member' = [lease EXCEPT !.kind = "fence", !.id = NewId, !.object = None]
        <4>1. member' \in Events /\ member'.object = None
          BY <3>3, <3>4, <3>7 DEF Events, Kinds
        <4>2. Get(member') \subseteq Get(member) /\ (member # None \/ member' = None)
          BY <3>4, <3>7, <4>1 DEF Get
        <4> QED BY <3>1, <4>1, <4>2
      <3> QED BY <3>2, <3>5, <3>6, <3>7
    <2> QED BY <2>1, <2>2, <2>3 DEF Outbound
  <1>4. RecordsOK'
    BY <1>1, <1>2, <1>3 DEF RecordsOK, Records, States
  <1>5. HeadFollowsNote' /\ NothingIsRecorded'
    BY <1>3 DEF IInv, HeadFollowsNote, NothingIsRecorded
  <1>6. Referenced' \subseteq Referenced
    <2>1. Get(None) = {}
      BY DEF Get
    <2>2. Get(pending') \subseteq Get(pending) /\ Get(member') \subseteq Get(member)
      BY <1>3, <2>1
    <2>3. \A l \in inflight' : Get(l) \subseteq Referenced
      BY <1>3 DEF Referenced
    <2> QED BY <1>3, <2>2, <2>3 DEF Referenced, Get
  <1> QED BY <1>1, <1>3, <1>4, <1>5, <1>6, QuietStep DEF RestOK

LEMMA ReceivedFacts ==
    ASSUME LeasesOK, NEW kind \in Kinds, NEW object \in Objects \cup {None}
    PROVE  /\ Received(kind, object) \in Events
           /\ Get(Received(kind, object)) \subseteq {object} \ {None}
  <1>1. NewId \in {1, 2}
    BY FreshId
  <1>2. Received(kind, object).object = object
    BY DEF Received
  <1>3. (IF kind = "attach" THEN "snapshot" ELSE kind) \in Kinds
    BY DEF Kinds
  <1> HIDE DEF Kinds
  <1> QED BY <1>1, <1>2, <1>3 DEF Received, Events, Get

LEMMA AcceptStep ==
    ASSUME IInv, NEW w \in Workers, NEW kind \in {"attach", "snapshot", "detach"}, Accept(w, kind)
    PROVE  IInv'
  <1> DEFINE o == worker[w].object
  <1>1. /\ LeasesOK /\ RestOK /\ note \in Notes /\ note.revision \in Nat
        /\ o \in Objects \cup {None} /\ kind \in Kinds
    BY RecordsAre DEF RestOK, Jobs, Kinds
  <1>2. PICK status \in {"active", "trashed"}, selected \in BOOLEAN :
           Store([note |-> [status |-> status, object |-> o,
                            selected |-> selected, revision |-> note.revision + 1],
                  head |-> [object |-> o, selected |-> selected],
                  member |-> Received(kind, o),
                  pending |-> None])
    BY DEF Accept
  <1> DEFINE s == [note |-> [status |-> status, object |-> o,
                             selected |-> selected, revision |-> note.revision + 1],
                   head |-> [object |-> o, selected |-> selected],
                   member |-> Received(kind, o),
                   pending |-> None]
  <1> HIDE DEF o
  <1>3. Received(kind, o) \in Events /\ Get(Received(kind, o)) \subseteq {o} \ {None}
    BY <1>1, ReceivedFacts
  <1>4. s \in States
    BY <1>1, <1>3 DEF States, Notes, Heads
  <1>5. /\ s.note.object = o /\ s.head.object = o /\ Pins(s) \subseteq {o} \ {None}
    BY <1>3 DEF Pins, Get
  <1>6. Store(s)
    BY <1>2
  <1>7. /\ Become(w, Resting) /\ Enqueue(note.object) /\ configured /\ Holding(w)
        /\ UNCHANGED <<store, created, inflight, configured, lost>>
    BY DEF Accept, Admitted, Holding
  <1> HIDE DEF s
  <1>8. PICK c \in States : c = s
    BY <1>4
  <1>9. /\ RecordsOK' /\ LeasesOK' /\ HeadFollowsNote' /\ NothingIsRecorded'
        /\ note' = c.note
        /\ Referenced' \subseteq Referenced \cup ({note'.object} \ {None})
    BY <1>5, <1>6, <1>7, <1>8, StoreStep
  <1>10. note'.object = worker[w].object
    BY <1>5, <1>8, <1>9 DEF o
  <1>11. /\ worker' \in [Workers -> Jobs] /\ ~Holding(w)'
         /\ \A v \in Workers : worker'[v] = worker[v] \/ worker'[v].job \in {"rest", "sweep"}
         /\ \A v \in Workers : Holding(v) /\ ~Holding(v)'
                                  => worker[v].object \in lost' \cup {note'.object}
    BY <1>7, <1>10, LetGo
  <1>12. configured' \in BOOLEAN
    BY <1>1, <1>7 DEF RestOK
  <1>13. RecordsChange
    BY <1>7, <1>9, <1>10, <1>11, <1>12 DEF RecordsChange
  <1> QED BY <1>13, RecordsStep

(* A worker that keeps its object, to undo its publication.                *)
LEMMA KeepToUndo ==
    ASSUME IInv, NEW w \in Workers, Holding(w), Become(w, [worker[w] EXCEPT !.job = "undo"])
    PROVE  /\ worker' \in [Workers -> Jobs]
           /\ \A v \in Workers :
                 /\ Holding(v)' = Holding(v)
                 /\ \/ worker'[v] = worker[v]
                    \/ worker'[v].job = "undo" /\ Holding(v) /\ worker'[v].object = worker[v].object
  <1> DEFINE job == [worker[w] EXCEPT !.job = "undo"]
  <1>1. RestOK
    BY DEF IInv
  <1>2. job \in Jobs /\ job.job = "undo" /\ job.object = worker[w].object
    BY <1>1 DEF RestOK, Jobs
  <1> HIDE DEF job
  <1>3. Become(w, job)
    BY DEF job
  <1>4. /\ worker' \in [Workers -> Jobs] /\ worker'[w] = job
        /\ \A v \in Workers \ {w} : worker'[v] = worker[v]
    BY <1>1, <1>2, <1>3, BecomeFacts
  <1> QED BY <1>2, <1>4 DEF Holding

LEMMA IgnoreStep ==
    ASSUME IInv, NEW w \in Workers, NEW kind \in {"attach", "snapshot", "detach"}, Ignore(w, kind)
    PROVE  IInv'
  <1>1. /\ Records \in States /\ LeasesOK /\ RestOK /\ Records.note = note /\ Records.head = head
        /\ head.object = note.object /\ note.object \in Objects \cup {None}
    BY RecordsAre DEF Ignore
  <1>2. /\ Become(w, [worker[w] EXCEPT !.job = "undo"]) /\ configured /\ Holding(w)
        /\ UNCHANGED <<store, created, operations, inflight, configured, lost>>
    BY DEF Ignore, Admitted, Holding
  <1>3. PICK c \in States : /\ Store(c) /\ c.note = note /\ c.head = head
                            /\ Pins(c) \subseteq {note.object} \ {None}
    <2>1. CASE Store([Records EXCEPT !.member = Same(w, kind), !.pending = None])
      <3> DEFINE e == Same(w, kind)
      <3>1. e \in Events /\ Get(e) \subseteq {note.object} \ {None}
        <4>1. PICK k \in Kinds : k = kind
          BY DEF Kinds
        <4>2. PICK o \in Objects \cup {None} : o = head.object
          BY <1>1
        <4>3. Received(k, o) \in Events /\ Get(Received(k, o)) \subseteq {o} \ {None}
          BY <1>1, ReceivedFacts
        <4>4. e = Received(k, o)
          BY <4>1, <4>2 DEF Same
        <4> HIDE DEF e
        <4> QED BY <4>2, <4>3, <4>4, <1>1
      <3> HIDE DEF e
      <3> DEFINE r == Records
      <3>2. r \in States /\ r.note = note /\ r.head = head
        BY <1>1
      <3> HIDE DEF r
      <3> DEFINE n == [r EXCEPT !.member = e, !.pending = None]
      <3>3. /\ n \in States /\ n.note = note /\ n.head = head /\ n.member = e /\ n.pending = None
        BY <3>1, <3>2 DEF States
      <3>4. Store(n)
        BY <2>1 DEF r, e
      <3> HIDE DEF n
      <3>5. Pins(n) \subseteq {note.object} \ {None}
        BY <3>1, <3>3 DEF Pins, Get
      <3> QED BY <3>3, <3>4, <3>5
    <2>2. CASE Store(Winner(kind))
      <3>1. PICK k \in Kinds : Winner(kind) = Announce(Records, k, head.object)
        <4>1. \/ Winner(kind) = Announce(Records, kind, head.object)
              \/ Winner(kind) = Announce(Records, "fence", head.object)
              \/ Winner(kind) = Announce(Records, "purge", head.object)
          BY Zenon DEF Winner
        <4> QED BY <4>1 DEF Kinds
      <3>2. PICK r \in States : r = Records
        BY <1>1
      <3>3. PICK o \in Objects \cup {None} : o = head.object
        BY <1>1
      <3>4. /\ Announce(r, k, o) \in States
            /\ Announce(r, k, o).note = r.note
            /\ Announce(r, k, o).head = r.head
            /\ Get(Announce(r, k, o).member) \subseteq {o} \ {None}
            /\ Get(Announce(r, k, o).pending) \subseteq {o} \ {None}
        BY <1>1, AnnounceFacts
      <3>5. Winner(kind) = Announce(r, k, o)
        BY <3>1, <3>2, <3>3
      <3>6. PICK n \in States : n = Announce(r, k, o)
        BY <3>4
      <3> QED BY <2>2, <3>2, <3>3, <3>4, <3>5, <3>6, <1>1 DEF Pins
    <2> QED BY <2>1, <2>2 DEF Ignore
  <1>4. /\ RecordsOK' /\ LeasesOK' /\ HeadFollowsNote' /\ NothingIsRecorded'
        /\ note' = c.note
        /\ Referenced' \subseteq Referenced \cup ({note'.object} \ {None})
    BY <1>1, <1>2, <1>3, StoreStep
  <1>5. /\ worker' \in [Workers -> Jobs]
        /\ \A v \in Workers :
              /\ Holding(v)' = Holding(v)
              /\ \/ worker'[v] = worker[v]
                 \/ worker'[v].job = "undo" /\ Holding(v) /\ worker'[v].object = worker[v].object
    BY <1>2, KeepToUndo
  <1>6. configured' \in BOOLEAN /\ note'.object = note.object
    BY <1>1, <1>2, <1>3, <1>4 DEF RestOK
  <1>7. RecordsChange
    BY <1>2, <1>4, <1>5, <1>6 DEF RecordsChange
  <1> QED BY <1>7, RecordsStep

LEMMA AcceptPurgeStep == ASSUME IInv, AcceptPurge PROVE IInv'
  <1>1. LeasesOK /\ RestOK
    BY RecordsAre
  <1> DEFINE s == [note |-> NoNote, head |-> [object |-> None, selected |-> FALSE],
                   member |-> Received("purge", None), pending |-> None]
  <1>2. Received("purge", None) \in Events /\ Get(Received("purge", None)) = {}
    <2>1. PICK k \in Kinds : k = "purge"
      BY DEF Kinds
    <2>2. PICK o \in Objects \cup {None} : o = None
      OBVIOUS
    <2>3. Received(k, o) \in Events /\ Get(Received(k, o)) \subseteq {o} \ {None}
      BY <1>1, ReceivedFacts
    <2> QED BY <2>1, <2>2, <2>3
  <1>3. /\ Store(s) /\ Enqueue(note.object) /\ configured
        /\ UNCHANGED <<store, created, inflight, configured, worker, lost>>
    BY DEF AcceptPurge, Admitted
  <1>4. s \in States /\ s.note.object = None /\ s.head.object = None /\ Pins(s) = {}
    BY <1>2 DEF NoNote, States, Notes, Heads, Pins, Get
  <1> HIDE DEF s
  <1>5. PICK c \in States : c = s
    BY <1>4
  <1>6. /\ RecordsOK' /\ LeasesOK' /\ HeadFollowsNote' /\ NothingIsRecorded'
        /\ note' = c.note
        /\ Referenced' \subseteq Referenced \cup ({note'.object} \ {None})
    BY <1>3, <1>4, <1>5, StoreStep
  <1>7. /\ note'.object = None /\ configured' \in BOOLEAN /\ worker' \in [Workers -> Jobs]
        /\ \A v \in Workers : Holding(v)' = Holding(v)
    BY <1>1, <1>3, <1>4, <1>5, <1>6 DEF RestOK, Holding
  <1>8. RecordsChange
    BY <1>3, <1>6, <1>7 DEF RecordsChange
  <1> QED BY <1>8, RecordsStep

LEMMA AcceptFenceStep == ASSUME IInv, AcceptFence PROVE IInv'
  <1>1. /\ Records \in States /\ LeasesOK /\ RestOK /\ Records.note = note /\ Records.head = head
        /\ head # None => head.object = note.object
    BY RecordsAre
  <1>2. Received("fence", None) \in Events /\ Get(Received("fence", None)) = {}
    <2>1. PICK k \in Kinds : k = "fence"
      BY DEF Kinds
    <2>2. PICK o \in Objects \cup {None} : o = None
      OBVIOUS
    <2>3. Received(k, o) \in Events /\ Get(Received(k, o)) \subseteq {o} \ {None}
      BY <1>1, ReceivedFacts
    <2> QED BY <2>1, <2>2, <2>3
  <1> DEFINE r == Records
             e == Received("fence", None)
             s == [r EXCEPT !.member = e, !.pending = None]
  <1>3. r \in States /\ r.note = note /\ r.head = head /\ e \in Events /\ Get(e) = {}
    BY <1>1, <1>2
  <1>4. /\ Store(s) /\ configured
        /\ UNCHANGED <<store, created, operations, inflight, configured, worker, lost>>
    BY DEF AcceptFence
  <1> HIDE DEF r, e
  <1>5. s \in States /\ s.note = note /\ s.head = head /\ s.member = e /\ s.pending = None
    BY <1>3 DEF States
  <1> HIDE DEF s
  <1>6. Pins(s) = {}
    BY <1>3, <1>5 DEF Pins, Get
  <1>7. PICK c \in States : c = s
    BY <1>5
  <1>8. /\ RecordsOK' /\ LeasesOK' /\ HeadFollowsNote' /\ NothingIsRecorded'
        /\ note' = c.note
        /\ Referenced' \subseteq Referenced \cup ({note'.object} \ {None})
    BY <1>1, <1>4, <1>5, <1>6, <1>7, StoreStep
  <1>9. note'.object = note.object /\ configured' \in BOOLEAN
    BY <1>1, <1>4, <1>5, <1>7, <1>8 DEF RestOK
  <1> QED BY <1>4, <1>8, <1>9, QuietStep

-----------------------------------------------------------------------------
(***************************************************************************)
(* Steps of workers that leave the records alone.                          *)
(***************************************************************************)

LEMMA SameRecords ==
    ASSUME IInv, UNCHANGED <<records, inflight, configured>>
    PROVE  /\ RecordsOK' /\ LeasesOK' /\ HeadFollowsNote' /\ NothingIsRecorded'
           /\ note' = note /\ Referenced' = Referenced
           /\ configured' \in BOOLEAN
  <1>1. UNCHANGED <<note, head, member, pending, inflight, configured>>
    BY DEF records
  <1>2. RecordsOK' /\ LeasesOK'
    BY <1>1 DEF IInv, RecordsOK, Records, LeasesOK
  <1>3. HeadFollowsNote' /\ NothingIsRecorded' /\ configured' \in BOOLEAN
    BY <1>1 DEF IInv, HeadFollowsNote, NothingIsRecorded, RestOK
  <1>4. Referenced' = Referenced
    BY <1>1 DEF Referenced, Get
  <1> QED BY <1>1, <1>2, <1>3, <1>4

SafeJob(v) ==
    /\ worker[v].job \in {"clean", "delete", "deleted"} => worker[v].todo \subseteq Rowed
    /\ worker[v].job = "delete" => worker[v].object \in Rowed \ Referenced
    /\ worker[v].job = "deleted" => worker[v].object \in Rowed \ store

(* Nothing that is referred to is removed, no row appears or disappears,   *)
(* and what is no longer on record is gone or given up.                    *)
WorkChange ==
    /\ UNCHANGED <<records, inflight, configured>>
    /\ created' = created
    /\ store' \subseteq store /\ Referenced \subseteq store'
    /\ operations' \in [Objects -> Rows] /\ Rowed' = Rowed
    /\ Open \cap store' \subseteq Open'
    /\ lost \subseteq lost'
    /\ worker' \in [Workers -> Jobs]
    /\ \A v \in Workers :
          /\ worker'[v] = worker[v] \/ SafeJob(v)'
          /\ Holding(v)' => /\ Holding(v) /\ worker'[v].object = worker[v].object
                            /\ worker[v].object \in store'
          /\ Holding(v) /\ ~Holding(v)' => worker[v].object \notin store' \ lost'

LEMMA WorkStep == ASSUME IInv, WorkChange PROVE IInv'
  <1>1. /\ RecordsOK' /\ LeasesOK' /\ HeadFollowsNote' /\ NothingIsRecorded'
        /\ note' = note /\ Referenced' = Referenced /\ configured' \in BOOLEAN
    BY SameRecords DEF WorkChange
  <1>2. RestOK' /\ Rowed' = Rowed
    BY <1>1 DEF WorkChange, IInv, RestOK
  <1>3. \A v \in Workers : Holding(v)' => /\ Holding(v) /\ worker'[v].object = worker[v].object
                                          /\ worker[v].object \in store'
    BY DEF WorkChange
  <1>4. RowsAreReplaced'
    BY <1>1, <1>2, <1>3 DEF IInv, RowsAreReplaced
  <1>5. HeldIsPrivate'
    BY <1>1, <1>3 DEF IInv, HeldIsPrivate
  <1>6. ReferencedIsStored'
    BY <1>1 DEF WorkChange, ReferencedIsStored
  <1>7. PassesAreSafe'
    <2>1. \A v \in Workers : SafeJob(v)
      BY DEF IInv, PassesAreSafe, SafeJob
    <2>2. \A v \in Workers : SafeJob(v)'
      <3> SUFFICES ASSUME NEW v \in Workers, worker'[v] = worker[v] PROVE SafeJob(v)'
        BY DEF WorkChange
      <3>1. store' \subseteq store
        BY DEF WorkChange
      <3> QED BY <1>1, <1>2, <2>1, <3>1 DEF SafeJob
    <2> QED BY <2>2 DEF PassesAreSafe, SafeJob
  <1>8. OrphansAreKnown'
    <2> SUFFICES ASSUME NEW o \in store', o # note.object
                 PROVE  o \in Open' \/ o \in Held' \/ o \in lost'
      BY <1>1 DEF OrphansAreKnown
    <2>1. o \in Open \/ o \in Held \/ o \in lost
      BY DEF IInv, OrphansAreKnown, WorkChange
    <2>2. CASE o \in Held
      <3>1. PICK v \in Workers : Holding(v) /\ worker[v].object = o
        BY <2>2 DEF Held, Holding
      <3>2. CASE Holding(v)'
        BY <3>1, <3>2, <1>3 DEF Held, Holding
      <3>3. CASE ~Holding(v)'
        BY <3>1, <3>3 DEF WorkChange
      <3> QED BY <3>2, <3>3
    <2> QED BY <2>1, <2>2 DEF WorkChange
  <1> QED BY <1>1, <1>2, <1>4, <1>5, <1>6, <1>7, <1>8 DEF IInv

(* One worker goes on; the store stays as it is.                           *)
LEMMA OneWorks ==
    ASSUME IInv, NEW w \in Workers, NEW job \in Jobs, Become(w, job), ~Holding(w), ~Holding(w)',
           SafeJob(w)', UNCHANGED <<records, inflight, configured, created, lost>>,
           store' \subseteq store, Referenced \subseteq store',
           \A v \in Workers : Holding(v) => worker[v].object \in store',
           operations' \in [Objects -> Rows], Rowed' = Rowed, Open \cap store' \subseteq Open'
    PROVE  IInv'
  <1>1. RestOK
    BY DEF IInv
  <1>2. /\ worker' \in [Workers -> Jobs] /\ worker'[w] = job
        /\ \A v \in Workers \ {w} : worker'[v] = worker[v]
    BY <1>1, BecomeFacts
  <1>3. \A v \in Workers : /\ worker'[v] = worker[v] \/ v = w
                           /\ Holding(v)' = Holding(v)
                           /\ Holding(v) => worker'[v].object = worker[v].object
    BY <1>2 DEF Holding
  <1>4. WorkChange
    BY <1>2, <1>3 DEF WorkChange
  <1> QED BY <1>4, WorkStep

LEMMA UncertainStep ==
    ASSUME IInv, NEW w \in Workers, PutUncertain(w)
    PROVE  IInv'
  <1>1. RestOK
    BY DEF IInv
  <1>2. /\ worker' \in [Workers -> Jobs] /\ worker'[w] = Resting
        /\ \A v \in Workers \ {w} : worker'[v] = worker[v]
    BY <1>1, BecomeFacts, RestingFacts DEF PutUncertain
  <1>3. /\ UNCHANGED <<records, inflight, configured, created, store, operations>>
        /\ lost' = lost \cup {worker[w].object}
    BY DEF PutUncertain
  <1>4. ~Holding(w)' /\ \A v \in Workers \ {w} : Holding(v)' = Holding(v)
    BY <1>2, RestingFacts DEF Holding
  <1>5. SafeJob(w)'
    BY <1>2, RestingFacts DEF SafeJob
  <1>6. WorkChange
    BY <1>1, <1>2, <1>3, <1>4, <1>5
       DEF WorkChange, IInv, HeldIsPrivate, ReferencedIsStored, RestOK, Rowed, Open
  <1> QED BY <1>6, WorkStep

LEMMA RefuseStep ==
    ASSUME IInv, NEW w \in Workers, Refuse(w)
    PROVE  IInv'
  <1>1. /\ Become(w, [worker[w] EXCEPT !.job = "undo"]) /\ Holding(w)
        /\ UNCHANGED <<records, inflight, configured, created, store, operations, lost>>
    BY DEF Refuse, Holding
  <1>2. /\ worker' \in [Workers -> Jobs]
        /\ \A v \in Workers :
              /\ Holding(v)' = Holding(v)
              /\ \/ worker'[v] = worker[v]
                 \/ worker'[v].job = "undo" /\ Holding(v) /\ worker'[v].object = worker[v].object
    BY <1>1, KeepToUndo
  <1>3. \A v \in Workers : worker'[v] = worker[v] \/ SafeJob(v)'
    BY <1>2 DEF SafeJob
  <1>4. WorkChange
    BY <1>1, <1>2, <1>3
       DEF WorkChange, IInv, HeldIsPrivate, ReferencedIsStored, RestOK, Rowed, Open
  <1> QED BY <1>4, WorkStep

LEMMA UndoStep ==
    ASSUME IInv, NEW w \in Workers, Undo(w)
    PROVE  IInv'
  <1>1. RestOK /\ Holding(w)
    BY DEF IInv, Undo, Holding
  <1>2. /\ worker' \in [Workers -> Jobs] /\ worker'[w] = Resting
        /\ \A v \in Workers \ {w} : worker'[v] = worker[v]
    BY <1>1, BecomeFacts, RestingFacts DEF Undo
  <1>3. /\ UNCHANGED <<records, inflight, configured, created, operations>>
        /\ \/ store' = store \ {worker[w].object} /\ lost' = lost
           \/ store' = store /\ lost' = lost \cup {worker[w].object}
    BY DEF Undo
  <1>4. ~Holding(w)' /\ \A v \in Workers \ {w} : Holding(v)' = Holding(v)
    BY <1>2, RestingFacts DEF Holding
  <1>5. SafeJob(w)'
    BY <1>2, RestingFacts DEF SafeJob
  <1>6. \A v \in Workers \ {w} : Holding(v) => worker[v].object \in store'
    BY <1>1, <1>3 DEF IInv, HeldIsPrivate
  <1>7. Referenced \subseteq store'
    BY <1>1, <1>3 DEF IInv, HeldIsPrivate, ReferencedIsStored
  <1>8. WorkChange
    BY <1>1, <1>2, <1>3, <1>4, <1>5, <1>6, <1>7 DEF WorkChange, RestOK, Rowed, Open
  <1> QED BY <1>8, WorkStep

LEMMA CrashStep == ASSUME IInv, Crash PROVE IInv'
  <1>1. RestOK
    BY DEF IInv
  <1>2. /\ worker' = [w \in Workers |-> Resting] /\ lost' = lost \cup Held
        /\ UNCHANGED <<records, inflight, configured, created, store, operations>>
    BY DEF Crash
  <1>3. worker' \in [Workers -> Jobs]
    BY <1>2, RestingFacts
  <1>4. \A v \in Workers : ~Holding(v)' /\ SafeJob(v)'
    BY <1>2, RestingFacts DEF Holding, SafeJob
  <1>5. \A v \in Workers : Holding(v) => worker[v].object \in lost'
    BY <1>2 DEF Held, Holding
  <1>6. WorkChange
    BY <1>1, <1>2, <1>3, <1>4, <1>5
       DEF WorkChange, IInv, ReferencedIsStored, RestOK, Rowed, Open
  <1> QED BY <1>6, WorkStep

-----------------------------------------------------------------------------
(***************************************************************************)
(* The cleanup.                                                            *)
(***************************************************************************)

LEMMA ClaimStep ==
    ASSUME IInv, NEW w \in Workers, NEW some \in SUBSET Open, Claim(w, some)
    PROVE  IInv'
  <1>1. RestOK
    BY DEF IInv
  <1>2. some \subseteq Rowed /\ some \subseteq Objects
    BY DEF Open, Rowed
  <1>3. /\ UNCHANGED <<records, inflight, configured, created, store, lost>> /\ ~Holding(w)
        /\ operations' = [o \in Objects |->
              IF o \in some THEN [operations[o] EXCEPT !.owner = w] ELSE operations[o]]
    BY DEF Claim, Holding
  <1>4. /\ operations' \in [Objects -> Rows]
        /\ \A o \in Objects : operations'[o].status = operations[o].status
    <2>1. \A o \in Objects : /\ [operations[o] EXCEPT !.owner = w] \in Rows
                             /\ [operations[o] EXCEPT !.owner = w].status = operations[o].status
      BY <1>1 DEF RestOK, Rows
    <2> QED BY <1>1, <1>3, <2>1 DEF RestOK
  <1>5. Rowed' = Rowed /\ Open' = Open
    BY <1>4 DEF Rowed, Open
  <1> DEFINE job == IF some = {} THEN Resting ELSE [Resting EXCEPT !.job = "clean", !.todo = some]
  <1>6. /\ job \in Jobs /\ job.job \in {"rest", "clean"}
        /\ job.job = "clean" => job.todo \subseteq Rowed
    BY <1>2 DEF Resting, Jobs
  <1>7. Become(w, job)
    BY DEF Claim
  <1> HIDE DEF job
  <1>8. worker'[w] = job
    BY <1>1, <1>6, <1>7, BecomeFacts
  <1>9. ~Holding(w)' /\ SafeJob(w)'
    BY <1>5, <1>6, <1>8 DEF Holding, SafeJob
  <1> QED
    BY <1>3, <1>4, <1>5, <1>6, <1>7, <1>9, OneWorks DEF IInv, HeldIsPrivate, ReferencedIsStored

(* What a pass does to the row of one object.                              *)
LEMMA ConcludeFacts ==
    ASSUME RestOK, NEW w \in Workers, NEW o \in Rowed, NEW status \in {"open", "completed"},
           Conclude(w, o, status)
    PROVE  /\ operations' \in [Objects -> Rows] /\ Rowed' = Rowed
           /\ Open \ {o} \subseteq Open'
           /\ status = "open" => Open \subseteq Open'
  <1> DEFINE row == [status |-> status, owner |-> None]
  <1>1. row \in Rows /\ row.status = status
    BY DEF Rows
  <1>2. o \in Objects /\ operations[o].status # "none"
    BY DEF Rowed
  <1>3. CASE operations' = operations
    BY <1>3 DEF RestOK, Rowed, Open
  <1>4. CASE operations' = [operations EXCEPT ![o] = row]
    <2> HIDE DEF row
    <2>1. /\ operations' \in [Objects -> Rows] /\ operations'[o] = row
          /\ \A p \in Objects \ {o} : operations'[p] = operations[p]
      BY <1>1, <1>2, <1>4 DEF RestOK
    <2> QED BY <1>1, <1>2, <2>1 DEF Rowed, Open
  <1> QED BY <1>3, <1>4, Zenon DEF Conclude

LEMMA OnwardFacts ==
    ASSUME IInv, NEW w \in Workers, worker[w].job \in {"clean", "delete", "deleted"},
           NEW o, Onward(w, o), Rowed' = Rowed
    PROVE  \E job \in Jobs : Become(w, job) /\ ~Holding(w)' /\ SafeJob(w)'
  <1> DEFINE rest == worker[w].todo \ {o}
             job == IF rest = {} THEN Resting ELSE [Resting EXCEPT !.job = "clean", !.todo = rest]
  <1>1. rest \subseteq Rowed /\ RestOK
    BY DEF IInv, PassesAreSafe
  <1>2. rest \subseteq Objects
    BY <1>1 DEF Rowed
  <1> HIDE DEF rest
  <1>3. /\ job \in Jobs /\ job.job \in {"rest", "clean"}
        /\ job.job = "clean" => job.todo \subseteq Rowed
    BY <1>1, <1>2 DEF Resting, Jobs
  <1>4. Become(w, job)
    BY DEF Onward, rest
  <1> HIDE DEF job
  <1>5. worker'[w] = job
    BY <1>1, <1>3, <1>4, BecomeFacts
  <1>6. ~Holding(w)' /\ SafeJob(w)'
    BY <1>3, <1>5 DEF Holding, SafeJob
  <1> QED BY <1>3, <1>4, <1>6

(* Postpone, DeleteFails, Complete: the worker is done with a row.         *)
LEMMA DoneStep ==
    ASSUME IInv, NEW w \in Workers, worker[w].job \in {"clean", "delete", "deleted"},
           NEW o \in Rowed, NEW status \in {"open", "completed"},
           status = "completed" => o \notin store,
           Conclude(w, o, status), Onward(w, o),
           UNCHANGED <<store, created, records, inflight, configured, lost>>
    PROVE  IInv'
  <1>1. RestOK /\ ~Holding(w)
    BY DEF IInv, Holding
  <1>2. /\ operations' \in [Objects -> Rows] /\ Rowed' = Rowed
        /\ Open \ {o} \subseteq Open'
        /\ status = "open" => Open \subseteq Open'
    BY <1>1, ConcludeFacts
  <1>3. PICK job \in Jobs : Become(w, job) /\ ~Holding(w)' /\ SafeJob(w)'
    BY <1>2, OnwardFacts
  <1>4. Open \cap store' \subseteq Open'
    BY <1>2
  <1> QED BY <1>1, <1>2, <1>3, <1>4, OneWorks DEF IInv, HeldIsPrivate, ReferencedIsStored

LEMMA CleanStep ==
    ASSUME IInv, NEW w \in Workers, Clean(w) \/ DeleteFails(w)
    PROVE  IInv'
  <1>1. RestOK /\ SafeJob(w)
    BY DEF IInv, PassesAreSafe, SafeJob
  <1>2. ASSUME NEW o \in worker[w].todo, Postpone(w, o) PROVE IInv'
    <2>1. o \in Rowed
      BY <1>1, <1>2 DEF Postpone, SafeJob
    <2> QED BY <1>2, <2>1, DoneStep DEF Postpone
  <1>3. ASSUME DeleteFails(w) PROVE IInv'
    BY <1>1, <1>3, DoneStep DEF DeleteFails, SafeJob
  <1>4. ASSUME Complete(w) PROVE IInv'
    BY <1>1, <1>4, DoneStep DEF Complete, SafeJob
  <1>5. ASSUME NEW o \in worker[w].todo, ReserveDeletion(w, o) PROVE IInv'
    <2>1. /\ o \in Rowed /\ ~Holding(w) /\ worker[w].todo \subseteq Rowed
          /\ UNCHANGED <<records, inflight, configured, created, store, operations, lost>>
      BY <1>1, <1>5 DEF ReserveDeletion, SafeJob, Holding
    <2>2. o \notin Referenced
      <3>1. CASE configured
        BY <1>5, <3>1 DEF ReserveDeletion, Pinned
      <3>2. CASE ~configured
        <4>1. o # note.object
          BY <2>1 DEF IInv, RowsAreReplaced
        <4>2. Referenced \subseteq {note.object}
          BY <3>2 DEF IInv, NothingIsRecorded, Referenced, Get
        <4> QED BY <4>1, <4>2
      <3> QED BY <3>1, <3>2
    <2> DEFINE job == [worker[w] EXCEPT !.job = "delete", !.object = o]
    <2>3. o \in Objects
      BY <2>1 DEF Rowed
    <2>4. job \in Jobs /\ job.job = "delete" /\ job.object = o /\ job.todo = worker[w].todo
      BY <1>1, <2>3 DEF RestOK, Jobs
    <2>5. Become(w, job)
      BY <1>5 DEF ReserveDeletion
    <2> HIDE DEF job
    <2>6. worker'[w] = job
      BY <1>1, <2>4, <2>5, BecomeFacts
    <2>7. Referenced' = Referenced
      BY <2>1, SameRecords
    <2>8. Rowed' = Rowed /\ Open' = Open /\ operations' \in [Objects -> Rows]
      BY <1>1, <2>1 DEF Rowed, Open, RestOK
    <2>9. ~Holding(w)' /\ SafeJob(w)'
      BY <2>1, <2>2, <2>4, <2>6, <2>7, <2>8 DEF Holding, SafeJob
    <2> QED
      BY <2>1, <2>4, <2>5, <2>8, <2>9, OneWorks DEF IInv, HeldIsPrivate, ReferencedIsStored
  <1>6. ASSUME Delete(w) PROVE IInv'
    <2> DEFINE o == worker[w].object
               job == [worker[w] EXCEPT !.job = "deleted"]
    <2>1. /\ o \in Rowed \ Referenced /\ ~Holding(w) /\ worker[w].todo \subseteq Rowed
          /\ store' = store \ {o}
          /\ UNCHANGED <<records, inflight, configured, created, operations, lost>>
      BY <1>1, <1>6 DEF Delete, SafeJob, Holding
    <2>2. job \in Jobs /\ job.job = "deleted" /\ job.object = o /\ job.todo = worker[w].todo
      BY <1>1 DEF RestOK, Jobs
    <2>3. Become(w, job)
      BY <1>6 DEF Delete
    <2>4. \A v \in Workers : Holding(v) => worker[v].object \in store'
      BY <2>1 DEF IInv, HeldIsPrivate, RowsAreReplaced
    <2> HIDE DEF job, o
    <2>5. worker'[w] = job
      BY <1>1, <2>2, <2>3, BecomeFacts
    <2>6. Rowed' = Rowed /\ Open' = Open /\ operations' \in [Objects -> Rows]
      BY <1>1, <2>1 DEF Rowed, Open, RestOK
    <2>7. ~Holding(w)' /\ SafeJob(w)'
      BY <2>1, <2>2, <2>5, <2>6 DEF Holding, SafeJob
    <2>8. Referenced \subseteq store' /\ store' \subseteq store
      BY <2>1 DEF IInv, ReferencedIsStored
    <2> QED BY <2>1, <2>2, <2>3, <2>4, <2>6, <2>7, <2>8, OneWorks
  <1> QED BY <1>2, <1>3, <1>4, <1>5, <1>6 DEF Clean

(* A key that was never used is no one's yet.                              *)
LEMMA PublishStep ==
    ASSUME IInv, NEW w \in Workers, NEW job \in {"put", "apply"}, Publish(w, job)
    PROVE  IInv'
  <1> DEFINE o == created + 1
             next == [Resting EXCEPT !.job = job, !.object = o, !.seen = note.revision]
  <1>1. /\ RestOK /\ note.revision \in Nat /\ created \in Nat /\ created < MaxObjects
        /\ created' = o /\ store' = store \cup {o} /\ ~Holding(w)
        /\ UNCHANGED <<records, inflight, configured, operations, lost>>
    BY RecordsAre DEF Publish, RestOK, Holding
  <1>2. o \in Objects /\ o \notin store /\ o \notin Rowed /\ o <= MaxObjects /\ o \in Nat
    BY <1>1, ObjectsAssumption DEF RestOK, Objects
  <1>3. Become(w, next)
    BY DEF Publish
  <1>4. next \in Jobs /\ next.job = job /\ next.object = o
    BY <1>1, <1>2 DEF Resting, Jobs
  <1>5. store \subseteq 1 .. o /\ Rowed \subseteq 1 .. o /\ o \in 1 .. o
    BY <1>1 DEF RestOK
  <1> HIDE DEF next, o
  <1>6. /\ worker' \in [Workers -> Jobs] /\ worker'[w] = next
        /\ \A v \in Workers \ {w} : worker'[v] = worker[v]
    BY <1>1, <1>3, <1>4, BecomeFacts
  <1>7. /\ RecordsOK' /\ LeasesOK' /\ HeadFollowsNote' /\ NothingIsRecorded'
        /\ note' = note /\ Referenced' = Referenced /\ configured' \in BOOLEAN
    BY <1>1, SameRecords
  <1>8. Rowed' = Rowed /\ Open' = Open /\ operations' \in [Objects -> Rows]
    BY <1>1 DEF Rowed, Open, RestOK
  <1>9. RestOK'
    BY <1>1, <1>2, <1>5, <1>6, <1>7, <1>8 DEF RestOK
  <1>10. Holding(w)' /\ \A v \in Workers \ {w} : Holding(v)' = Holding(v)
    BY <1>4, <1>6 DEF Holding
  <1>11. RowsAreReplaced'
    BY <1>2, <1>4, <1>6, <1>7, <1>8, <1>10 DEF IInv, RowsAreReplaced
  <1>12. \A v \in Workers : Holding(v) => worker[v].object \in store \ Referenced
    BY DEF IInv, HeldIsPrivate
  <1>13. HeldIsPrivate'
    <2>1. \A v, u \in Workers : Holding(v) /\ Holding(u) /\ u # v => worker[u].object # worker[v].object
      BY DEF IInv, HeldIsPrivate
    <2>2. o \notin Referenced
      BY <1>2 DEF IInv, ReferencedIsStored
    <2> SUFFICES ASSUME NEW v \in Workers, Holding(v)'
                 PROVE  /\ worker'[v].object \in store' \ Referenced'
                        /\ \A u \in Workers \ {v} :
                              Holding(u)' => worker'[u].object # worker'[v].object
      BY DEF HeldIsPrivate
    <2>3. CASE v = w
      BY <2>2, <2>3, <1>1, <1>2, <1>4, <1>6, <1>7, <1>10, <1>12
    <2>4. CASE v # w
      BY <2>1, <2>4, <1>1, <1>2, <1>4, <1>6, <1>7, <1>10, <1>12
    <2> QED BY <2>3, <2>4
  <1>14. ReferencedIsStored'
    BY <1>1, <1>7 DEF IInv, ReferencedIsStored
  <1>15. PassesAreSafe'
    <2>1. \A v \in Workers : worker'[v].job \in {"clean", "delete", "deleted"} => v # w
      BY <1>4, <1>6
    <2> QED BY <2>1, <1>1, <1>2, <1>6, <1>7, <1>8 DEF IInv, PassesAreSafe
  <1>16. OrphansAreKnown'
    <2>1. Held \cup {o} \subseteq Held'
      <3>1. Held = {worker[v].object : v \in {u \in Workers : Holding(u)}}
        BY DEF Held, Holding
      <3>2. Held' = {worker'[v].object : v \in {u \in Workers : Holding(u)'}}
        BY DEF Held, Holding
      <3> QED BY <3>1, <3>2, <1>1, <1>4, <1>6, <1>10
    <2>2. store \ {note.object} \subseteq Open \cup Held \cup lost
      BY DEF IInv, OrphansAreKnown
    <2> QED BY <2>1, <2>2, <1>1, <1>7, <1>8 DEF OrphansAreKnown
  <1> QED BY <1>7, <1>9, <1>11, <1>13, <1>14, <1>15, <1>16 DEF IInv

-----------------------------------------------------------------------------
(***************************************************************************)
(* The theorems.                                                           *)
(***************************************************************************)

LEMMA NextInv == IInv /\ [Next]_vars => IInv'
  <1> SUFFICES ASSUME IInv, [Next]_vars PROVE IInv'
    OBVIOUS
  <1> USE DEF Workers
  <1>1. ASSUME NEW w \in Workers, Mutation(w) PROVE IInv'
    <2>1. PICK job \in {"put", "apply"} : job = "put"
      OBVIOUS
    <2> QED BY <2>1, <1>1, PublishStep, PutStep, RemoveStep, EditStep, PurgeStep DEF Mutation
  <1>2. ASSUME NEW w \in Workers, Pass(w) PROVE IInv'
    BY <1>2, ClaimStep, CleanStep DEF Pass
  <1>3. ASSUME NEW w \in Workers, PutUncertain(w) \/ Refuse(w) \/ Undo(w) PROVE IInv'
    BY <1>3, UncertainStep, RefuseStep, UndoStep
  <1>4. ASSUME Inbound PROVE IInv'
    <2>1. PICK job \in {"put", "apply"} : job = "apply"
      OBVIOUS
    <2> QED BY <2>1, <1>4, PublishStep, AcceptStep, IgnoreStep, AcceptPurgeStep, AcceptFenceStep
            DEF Inbound
  <1>5. CASE UNCHANGED vars
    <2>1. /\ UNCHANGED <<records, inflight, configured, store, created, operations, worker, lost>>
      BY <1>5 DEF vars
    <2>2. note' = note /\ Referenced' \subseteq Referenced
      BY <2>1, SameRecords
    <2> QED BY <2>1, <2>2, SameRecords, QuietStep
  <1> QED
    BY <1>1, <1>2, <1>3, <1>4, <1>5, OutboundStep, ConfigureStep, InitializeStep, CrashStep DEF Next

LEMMA SpecInv == Spec => []IInv
  BY InitInv, NextInv, PTL DEF Spec

(* Whatever answer its commits had, whenever the process ends and whichever *)
(* passes run: the object a note names is stored.                          *)
THEOREM NoteKeepsItsObject == Spec => []NoteHasItsObject
  <1>1. IInv => NoteHasItsObject
    BY DEF IInv, ReferencedIsStored, Referenced, NoteHasItsObject
  <1> QED BY <1>1, SpecInv, PTL

(* So are the objects the outbox, the inventory and the running transfer    *)
(* refer to.                                                               *)
THEOREM PinsKeepTheirObjects == Spec => []PinsHaveTheirObjects
  <1>1. IInv => PinsHaveTheirObjects
    BY DEF IInv, ReferencedIsStored, PinsHaveTheirObjects
  <1> QED BY <1>1, SpecInv, PTL

(* And an object nobody refers to any more is on record for removal.       *)
THEOREM OrphansStayKnown == Spec => []OrphansAreKnown
  <1>1. IInv => OrphansAreKnown
    BY DEF IInv
  <1> QED BY <1>1, SpecInv, PTL

=============================================================================
