----------------------- MODULE ObservedHistoryProofs -----------------------
(***************************************************************************)
(* Proofs about ObservedHistory: both consumers admit every history the    *)
(* daemon publishes, event ids are never reused, and the newest retained   *)
(* event of a container agrees with the inventory.                         *)
(*                                                                         *)
(* The argument is about the numbers of the events.  The deltas of one     *)
(* observation are totally ordered, so their positions number them from 1  *)
(* without repetition; every event retained is therefore numbered within   *)
(* the last MaxEvents numbers drawn, and no two have the same number.      *)
(***************************************************************************)
EXTENDS ObservedHistory, FiniteSetTheorems, TLAPS

-----------------------------------------------------------------------------
(* The inductive invariant, as a predicate on one history value *)

\* Each event belongs to the epoch, is numbered within the retained window,
\* is no later than the last observation and has a closed transition.
EventsFit(h) ==
  \A e \in h.events :
    /\ e.boot = h.boot
    /\ 1 <= e.seq /\ e.seq <= h.sequence /\ e.seq > h.sequence - MaxEvents
    /\ e.at <= MaxSafe
    /\ \E t \in h.lastAt : e.at <= t
    /\ ValidTransition(e)

\* Numbers tell events apart, and follow the clock.
EventsOrdered(h) ==
  \A e, f \in h.events :
    /\ e.seq = f.seq => e = f
    /\ e.seq < f.seq => e.at <= f.at

\* At most one baseline and one time of last observation; no event before the
\* first baseline.
SingleBaseline(h) ==
  /\ \A i, j \in h.baseline : i = j
  /\ \A s, t \in h.lastAt : s = t
  /\ h.baseline = {} => h.events = {}

Sound(h) == EventsFit(h) /\ EventsOrdered(h) /\ SingleBaseline(h)

\* A Docker history has a baseline, a mock one has none.
BaselineFitsMode == mode = "docker" <=> history.baseline # {}

HistoryInv == TypeOK /\ Sound(history) /\ BaselineFitsMode

-----------------------------------------------------------------------------
(* The numbering of one observation's deltas *)

\* The two loops push the deltas in a strict total order.
LEMMA BeforeIsOrder ==
  ASSUME NEW prev, NEW cur
  PROVE  /\ \A c \in Containers : ~Before(prev, cur, c, c)
         /\ \A c, d, f \in Containers :
              Before(prev, cur, c, d) /\ Before(prev, cur, d, f) => Before(prev, cur, c, f)
         /\ \A c, d \in Containers :
              c # d => Before(prev, cur, c, d) \/ Before(prev, cur, d, c)
  <1>1. \A c \in Containers : Rank[c] \in Nat
    BY ContainersAssumption
  <1>2. \A c, d \in Containers : Rank[c] = Rank[d] => c = d
    BY ContainersAssumption
  <1> QED
    BY <1>1, <1>2 DEF Before

\* The containers that changed are finitely many.
LEMMA ChangedFinite ==
  ASSUME NEW prev, NEW cur
  PROVE  /\ Changed(prev, cur) \subseteq Containers
         /\ IsFiniteSet(Changed(prev, cur))
         /\ Cardinality(Changed(prev, cur)) \in Nat
  <1>1. Changed(prev, cur) \in SUBSET Containers
    BY DEF Changed, Gone, Appeared, Moved
  <1>2. IsFiniteSet(Changed(prev, cur))
    BY <1>1, ContainersAssumption, FS_Subset
  <1> QED
    BY <1>1, <1>2, FS_CardinalityType

\* The sequence numbers push draws are 1, 2, ... of the number of deltas, each once.
LEMMA PositionsNumber ==
  ASSUME NEW prev, NEW cur
  PROVE  /\ \A c \in Changed(prev, cur) :
              Position(prev, cur, c) \in 1..Cardinality(Changed(prev, cur))
         /\ \A c, d \in Changed(prev, cur) :
              Position(prev, cur, c) = Position(prev, cur, d) => c = d
  <1> DEFINE Ch == Changed(prev, cur)
             Pre(c) == {d \in Ch : Before(prev, cur, d, c)}
  <1>1. Ch \subseteq Containers /\ IsFiniteSet(Ch) /\ Cardinality(Ch) \in Nat
    BY ChangedFinite
  <1>2. \A c \in Ch : Pre(c) \in SUBSET (Ch \ {c})
    BY <1>1, BeforeIsOrder
  <1>3. \A c \in Ch : /\ IsFiniteSet(Ch \ {c})
                     /\ Cardinality(Ch \ {c}) = Cardinality(Ch) - 1
    BY <1>1, FS_RemoveElement
  <1>4. \A c \in Ch : IsFiniteSet(Pre(c)) /\ Cardinality(Pre(c)) <= Cardinality(Ch) - 1
    <2> SUFFICES ASSUME NEW c \in Ch
                 PROVE  IsFiniteSet(Pre(c)) /\ Cardinality(Pre(c)) <= Cardinality(Ch) - 1
      OBVIOUS
    <2>1. Pre(c) \in SUBSET (Ch \ {c}) /\ IsFiniteSet(Ch \ {c})
          /\ Cardinality(Ch \ {c}) = Cardinality(Ch) - 1
      BY <1>2, <1>3
    <2> HIDE DEF Pre, Ch
    <2>2. IsFiniteSet(Pre(c)) /\ Cardinality(Pre(c)) <= Cardinality(Ch \ {c})
      BY <2>1, FS_Subset
    <2> QED
      BY <2>1, <2>2
  <1>5. \A c \in Ch : Cardinality(Pre(c)) \in Nat
    BY <1>4, FS_CardinalityType
  <1>6. \A c \in Ch : Position(prev, cur, c) = Cardinality(Pre(c)) + 1
    BY DEF Position
  <1>7. \A c, d \in Ch : Before(prev, cur, c, d) => Cardinality(Pre(c)) < Cardinality(Pre(d))
    <2> SUFFICES ASSUME NEW c \in Ch, NEW d \in Ch, Before(prev, cur, c, d)
                 PROVE  Cardinality(Pre(c)) < Cardinality(Pre(d))
      OBVIOUS
    <2>1. Pre(c) \in SUBSET Pre(d)
      BY <1>1, BeforeIsOrder
    <2>2. c \in Pre(d) /\ c \notin Pre(c)
      BY <1>1, BeforeIsOrder
    <2> HIDE DEF Pre, Ch
    <2>3. Cardinality(Pre(c)) <= Cardinality(Pre(d))
      BY <1>4, <2>1, FS_Subset
    <2>4. Cardinality(Pre(c)) # Cardinality(Pre(d))
      BY <1>4, <2>1, <2>2, FS_Subset
    <2> QED
      BY <1>5, <2>3, <2>4
  <1> HIDE DEF Pre
  <1>8. \A c, d \in Ch : Position(prev, cur, c) = Position(prev, cur, d) => c = d
    <2> SUFFICES ASSUME NEW c \in Ch, NEW d \in Ch,
                        Position(prev, cur, c) = Position(prev, cur, d), c # d
                 PROVE  FALSE
      OBVIOUS
    <2>1. Before(prev, cur, c, d) \/ Before(prev, cur, d, c)
      BY <1>1, BeforeIsOrder
    <2>2. Cardinality(Pre(c)) = Cardinality(Pre(d))
      BY <1>5, <1>6
    <2> QED
      BY <1>5, <1>7, <2>1, <2>2
  <1>9. \A c \in Ch : Position(prev, cur, c) \in 1..Cardinality(Ch)
    BY <1>1, <1>4, <1>5, <1>6
  <1> QED
    BY <1>8, <1>9

\* A pushed event: its number is its position after the last one, and its transition is
\* closed (push).
LEMMA EventFits ==
  ASSUME NEW h \in Histories, NEW prev \in Inventories, NEW cur \in Inventories,
         NEW at \in Nat, NEW c \in Changed(prev, cur)
  PROVE  LET e == EventOf(h, prev, cur, at, c)
         IN  /\ e \in Events /\ ValidTransition(e)
             /\ e.boot = h.boot /\ e.at = at /\ e.container = c
             /\ e.seq = h.sequence + Position(prev, cur, c)
             /\ cur[c] = IF e.current = "none" THEN "absent" ELSE e.current
  <1> DEFINE k == IF c \in Gone(prev, cur) THEN "disappeared"
                  ELSE IF c \in Appeared(prev, cur) THEN "appeared" ELSE "status_changed"
             p == IF c \in Appeared(prev, cur) THEN "none" ELSE prev[c]
             n == IF c \in Gone(prev, cur) THEN "none" ELSE cur[c]
             q == h.sequence + Position(prev, cur, c)
  <1>1. EventOf(h, prev, cur, at, c) =
          [boot |-> h.boot, seq |-> q, kind |-> k, at |-> at, container |-> c,
           previous |-> p, current |-> n]
    BY DEF EventOf
  <1>2. c \in Containers /\ Position(prev, cur, c) \in 1..Cardinality(Changed(prev, cur))
        /\ Cardinality(Changed(prev, cur)) \in Nat
    BY ChangedFinite, PositionsNumber
  <1>3. h.boot \in Nat /\ q \in Nat
    BY <1>2 DEF Histories
  <1>4. \/ k = "disappeared" /\ p \in Statuses /\ n = "none" /\ cur[c] = "absent"
        \/ k = "appeared" /\ p = "none" /\ n \in Statuses /\ cur[c] = n
        \/ k = "status_changed" /\ p \in Statuses /\ n \in Statuses /\ p # n /\ cur[c] = n
    BY StatusAssumption DEF Changed, Gone, Appeared, Moved
  <1> HIDE DEF k, p, n, q
  <1> DEFINE e == [boot |-> h.boot, seq |-> q, kind |-> k, at |-> at, container |-> c,
                   previous |-> p, current |-> n]
  <1>5. e \in Events
    BY <1>2, <1>3, <1>4 DEF Events, Kinds
  <1>6. ValidTransition(e)
    BY <1>4 DEF ValidTransition
  <1>7. cur[c] = IF e.current = "none" THEN "absent" ELSE e.current
    BY <1>4, StatusAssumption
  <1>8. q = h.sequence + Position(prev, cur, c)
    BY DEF q
  <1> QED
    BY <1>1, <1>5, <1>6, <1>7, <1>8

-----------------------------------------------------------------------------
(* What an observation makes of a history *)

\* The events pushed for the deltas between two inventories.
PushedEvents(h, prev, cur, at) ==
  {EventOf(h, prev, cur, at, c) : c \in Changed(prev, cur)}

LastPushed(h, prev, cur) == h.sequence + Cardinality(Changed(prev, cur))

\* A push as a record: every field of the history but its boot component is replaced.
LEMMA PushedFields ==
  ASSUME NEW h \in Histories, NEW prev \in Inventories, NEW cur \in Inventories,
         NEW at \in Nat
  PROVE  Pushed(h, prev, cur, at) =
           [boot |-> h.boot, sequence |-> LastPushed(h, prev, cur), lastAt |-> {at},
            baseline |-> {cur},
            events |-> Retained(h.events \cup PushedEvents(h, prev, cur, at),
                                LastPushed(h, prev, cur))]
  BY Zenon DEF Pushed, LastPushed, PushedEvents

\* The same, field by field.
LEMMA PushedParts ==
  ASSUME NEW h \in Histories, NEW prev \in Inventories, NEW cur \in Inventories,
         NEW at \in Nat, NEW n, n = Pushed(h, prev, cur, at)
  PROVE  n.boot = h.boot /\ n.sequence = LastPushed(h, prev, cur) /\ n.baseline = {cur}
  <1> DEFINE last == LastPushed(h, prev, cur)
             evs == Retained(h.events \cup PushedEvents(h, prev, cur, at), last)
  <1>1. n = [boot |-> h.boot, sequence |-> last, lastAt |-> {at}, baseline |-> {cur},
             events |-> evs]
    BY PushedFields
  <1> HIDE DEF last, evs
  <1>2. n.boot = h.boot /\ n.sequence = last /\ n.baseline = {cur}
    BY <1>1
  <1> QED
    BY <1>2 DEF last

\* What is retained after a push.
LEMMA PushedRetains ==
  ASSUME NEW h \in Histories, NEW prev \in Inventories, NEW cur \in Inventories,
         NEW at \in Nat, NEW n, n = Pushed(h, prev, cur, at)
  PROVE  n.events = Retained(h.events \cup PushedEvents(h, prev, cur, at),
                             LastPushed(h, prev, cur))
  <1> DEFINE last == LastPushed(h, prev, cur)
             evs == Retained(h.events \cup PushedEvents(h, prev, cur, at), last)
  <1>1. n = [boot |-> h.boot, sequence |-> last, lastAt |-> {at}, baseline |-> {cur},
             events |-> evs]
    BY PushedFields
  <1> HIDE DEF last, evs
  <1>2. n.events = evs
    BY <1>1
  <1> QED
    BY <1>2, Zenon DEF last, evs

\* An epoch with its first inventory and nothing else.
EpochStart(b, lastAt, cur) ==
  [boot |-> b, sequence |-> 0, lastAt |-> lastAt, baseline |-> {cur}, events |-> {}]

\* A first inventory, or a rebaseline, under boot component b.
StartsEpoch(n, b, cur) ==
  /\ n \in Histories /\ Sound(n)
  /\ n.boot = b /\ n.sequence = 0 /\ n.baseline = {cur} /\ n.events = {}

\* Every history of that form is sound.
LEMMA EpochStarts ==
  ASSUME NEW b \in Nat, NEW cur \in Inventories, NEW lastAt \in SUBSET Nat,
         \A s, t \in lastAt : s = t
  PROVE  StartsEpoch(EpochStart(b, lastAt, cur), b, cur)
  BY DEF EpochStart, StartsEpoch, Histories, Sound, EventsFit, EventsOrdered, SingleBaseline

\* The three outcomes of observe_published_snapshot: a rebaseline under a fresh boot component,
LEMMA ObservedUnusable ==
  ASSUME NEW h, NEW cur, NEW at \in Nat, NEW b, Unusable(h, at)
  PROVE  Observed(h, cur, at, b) = EpochStart(b, {}, cur)
  BY DEF Observed, Rebaselined, NewHistory, EpochStart

\* a first baseline,
LEMMA ObservedFirst ==
  ASSUME NEW h \in Histories, NEW cur, NEW at \in Nat, NEW b, ~Unusable(h, at),
         h.baseline = {}, h.sequence = 0, h.events = {}
  PROVE  Observed(h, cur, at, b) = EpochStart(h.boot, {at}, cur)
  BY DEF Observed, Histories, EpochStart

\* or the deltas against the baseline.
LEMMA ObservedDeltas ==
  ASSUME NEW h, NEW prev, NEW cur, NEW at \in Nat, NEW b, ~Unusable(h, at), h.baseline = {prev}
  PROVE  Observed(h, cur, at, b) = Pushed(h, prev, cur, at)
  <1>1. (CHOOSE i \in h.baseline : TRUE) = prev
    OBVIOUS
  <1> QED
    BY <1>1 DEF Observed

\* The events a push adds are new, numbered after every earlier one.
LEMMA PushedEventsFit ==
  ASSUME NEW h \in Histories, NEW prev \in Inventories, NEW cur \in Inventories, NEW at \in Nat,
         NEW e \in PushedEvents(h, prev, cur, at)
  PROVE  /\ e \in Events /\ ValidTransition(e) /\ e.boot = h.boot /\ e.at = at
         /\ e.seq > h.sequence /\ e.seq <= LastPushed(h, prev, cur)
         /\ e.container \in Changed(prev, cur)
         /\ e = EventOf(h, prev, cur, at, e.container)
         /\ e.seq = h.sequence + Position(prev, cur, e.container)
         /\ cur[e.container] = IF e.current = "none" THEN "absent" ELSE e.current
         /\ \A f \in PushedEvents(h, prev, cur, at) :
              e.seq = f.seq \/ e.container = f.container => e = f
  <1>1. PICK c \in Changed(prev, cur) : e = EventOf(h, prev, cur, at, c)
    BY DEF PushedEvents
  <1>2. /\ e \in Events /\ ValidTransition(e) /\ e.boot = h.boot /\ e.at = at
        /\ e.container = c /\ e.seq = h.sequence + Position(prev, cur, c)
        /\ cur[c] = IF e.current = "none" THEN "absent" ELSE e.current
    BY <1>1, EventFits
  <1>3. /\ h.sequence \in Nat
        /\ Position(prev, cur, c) \in 1..Cardinality(Changed(prev, cur))
        /\ Cardinality(Changed(prev, cur)) \in Nat
    BY ChangedFinite, PositionsNumber DEF Histories
  <1>4. ASSUME NEW f \in PushedEvents(h, prev, cur, at), e.seq = f.seq \/ e.container = f.container
        PROVE  e = f
    <2>1. PICK d \in Changed(prev, cur) : f = EventOf(h, prev, cur, at, d)
      BY DEF PushedEvents
    <2>2. f.container = d /\ f.seq = h.sequence + Position(prev, cur, d)
      BY <2>1, EventFits
    <2>3. Position(prev, cur, d) \in Int
      BY ChangedFinite, PositionsNumber
    <2>4. c = d
      <3>1. CASE e.container = f.container
        BY <1>2, <2>2, <3>1
      <3>2. CASE e.seq = f.seq
        <4>1. Position(prev, cur, c) = Position(prev, cur, d)
          BY <1>2, <1>3, <2>2, <2>3, <3>2
        <4> QED
          BY <4>1, PositionsNumber
      <3> QED
        BY <1>4, <3>1, <3>2
    <2> QED
      BY <1>1, <2>1, <2>4
  <1>5. e.seq > h.sequence /\ e.seq <= LastPushed(h, prev, cur)
    BY <1>2, <1>3 DEF LastPushed
  <1> QED
    BY <1>1, <1>2, <1>4, <1>5

\* A push keeps the history typed and sound.
LEMMA PushKeeps ==
  ASSUME NEW h \in Histories, Sound(h), NEW prev \in Inventories, NEW cur \in Inventories,
         NEW at \in Nat, ~Unusable(h, at)
  PROVE  Pushed(h, prev, cur, at) \in Histories /\ Sound(Pushed(h, prev, cur, at))
  <1> DEFINE last == LastPushed(h, prev, cur)
             new  == PushedEvents(h, prev, cur, at)
             kept == Retained(h.events \cup new, last)
             n == [boot |-> h.boot, sequence |-> last, lastAt |-> {at}, baseline |-> {cur},
                   events |-> kept]
  <1>1. n = Pushed(h, prev, cur, at)
    BY PushedFields
  <1>2. last \in Nat /\ last >= h.sequence /\ h.sequence \in Nat /\ h.boot \in Nat
        /\ h.events \subseteq Events /\ h.lastAt \subseteq Nat
    BY ChangedFinite DEF LastPushed, Histories
  <1>3. MaxEvents \in Nat /\ MaxEvents >= 1 /\ MaxSafe \in Nat
    BY HistoryBoundAssumption
  <1>4. at <= MaxSafe /\ \A t \in h.lastAt : t <= at
    BY <1>2, <1>3 DEF Unusable
  <1>5. \A e \in kept : (e \in h.events \/ e \in new) /\ e.seq > last - MaxEvents
    BY DEF Retained
  <1>6. new \subseteq Events
    BY PushedEventsFit
  <1>7. \A e \in Events : e.seq \in Nat /\ e.at \in Nat
    BY DEF Events
  <1>8. n \in Histories
    <2>1. kept \subseteq Events
      BY <1>2, <1>5, <1>6
    <2> HIDE DEF kept, last
    <2> QED
      BY <1>2, <2>1 DEF Histories
  <1>9. \A e \in h.events : /\ e.boot = h.boot /\ 1 <= e.seq /\ e.seq <= h.sequence
                            /\ e.at <= at /\ e.at <= MaxSafe /\ ValidTransition(e)
    BY <1>2, <1>4, <1>7 DEF Sound, EventsFit
  <1>10. \A e \in new : /\ e.boot = h.boot /\ e.seq > h.sequence /\ e.seq <= last
                        /\ e.at = at /\ ValidTransition(e)
    BY PushedEventsFit
  <1> HIDE DEF last, new, kept
  <1>11. EventsFit(n)
    <2> SUFFICES ASSUME NEW e \in kept
                 PROVE  /\ e.boot = h.boot
                        /\ 1 <= e.seq /\ e.seq <= last /\ e.seq > last - MaxEvents
                        /\ e.at <= MaxSafe /\ e.at <= at /\ ValidTransition(e)
      BY DEF EventsFit
    <2>1. CASE e \in h.events
      BY <1>2, <1>3, <1>5, <1>7, <1>9, <2>1
    <2>2. CASE e \in new
      BY <1>2, <1>3, <1>4, <1>5, <1>6, <1>7, <1>10, <2>2
    <2> QED
      BY <1>5, <2>1, <2>2
  <1>12. EventsOrdered(n)
    <2> SUFFICES ASSUME NEW e \in kept, NEW f \in kept
                 PROVE  (e.seq = f.seq => e = f) /\ (e.seq < f.seq => e.at <= f.at)
      BY DEF EventsOrdered
    <2>1. e.seq \in Nat /\ f.seq \in Nat /\ e.at \in Nat /\ f.at \in Nat
      BY <1>2, <1>5, <1>6, <1>7
    <2>2. CASE e \in h.events /\ f \in h.events
      BY <2>2 DEF Sound, EventsOrdered
    <2>3. CASE e \in h.events /\ f \in new
      BY <1>2, <1>9, <1>10, <2>1, <2>3
    <2>4. CASE e \in new /\ f \in h.events
      BY <1>2, <1>9, <1>10, <2>1, <2>4
    <2>5. CASE e \in new /\ f \in new
      <3>1. e.seq = f.seq => e = f
        BY <2>5, PushedEventsFit DEF new
      <3> QED
        BY <1>10, <2>1, <2>5, <3>1
    <2> QED
      BY <1>5, <2>2, <2>3, <2>4, <2>5
  <1>13. SingleBaseline(n)
    BY DEF SingleBaseline
  <1> QED
    BY <1>1, <1>8, <1>11, <1>12, <1>13 DEF Sound

-----------------------------------------------------------------------------
(* The steps *)

\* An empty history is sound (ObservedHistoryCache::new).
LEMMA NewHistorySound ==
  ASSUME NEW b \in Nat
  PROVE  /\ NewHistory(b) \in Histories /\ Sound(NewHistory(b))
         /\ NewHistory(b).baseline = {} /\ NewHistory(b).events = {}
         /\ NewHistory(b).sequence = 0 /\ NewHistory(b).boot = b
         /\ NewHistory(b).lastAt = {}
  BY DEF NewHistory, Histories, Sound, EventsFit, EventsOrdered, SingleBaseline

\* A Docker publication starts an epoch under a fresh boot component, or pushes the deltas
\* against the baseline of the epoch it continues (publish_docker_snapshot_cache).
LEMMA DockerOutcomes ==
  ASSUME HistoryInv, NEW cur \in Inventories, NEW at \in Nat, PublishDocker(cur, at)
  PROVE  \/ StartsEpoch(history', history.boot + 1, cur) /\ clouded' = {}
         \/ /\ mode = "docker" /\ ~Unusable(history, at)
            /\ \E prev \in Inventories :
                 history.baseline = {prev} /\ history' = Pushed(history, prev, cur, at)
            /\ clouded' = (clouded \ {e.container : e \in history'.events \ history.events})
                            \cup {c \in Containers : cur[c] = "ambiguous"}
  <1> DEFINE h == Carried("docker")
             n == Observed(h, cur, at, FreshBoot)
  <1>1. history' = n
    BY DEF PublishDocker
  <1>2. clouded' = IF history'.boot # history.boot THEN {}
                   ELSE (clouded \ {e.container : e \in history'.events \ history.events})
                          \cup {c \in Containers : cur[c] = "ambiguous"}
    BY <1>1 DEF PublishDocker
  <1>3. history \in Histories /\ Sound(history) /\ history.boot \in Nat /\ at \in Nat
        /\ FreshBoot = history.boot + 1 /\ FreshBoot \in Nat
    BY HistoryBoundAssumption DEF HistoryInv, TypeOK, Histories, FreshBoot
  <1>4. CASE mode = "docker"
    <2>1. h = history /\ history.baseline # {} /\ SingleBaseline(history)
      BY <1>3, <1>4 DEF Carried, HistoryInv, BaselineFitsMode, Sound
    <2>2. n = Observed(history, cur, at, FreshBoot)
      BY <2>1
    <2> HIDE DEF h, n
    <2>3. CASE Unusable(history, at)
      <3>1. n = EpochStart(FreshBoot, {}, cur)
        BY <2>2, <2>3, ObservedUnusable
      <3>2. StartsEpoch(n, history.boot + 1, cur)
        BY <1>3, <3>1, EpochStarts
      <3>3. history'.boot # history.boot
        BY <1>1, <1>3, <3>2 DEF StartsEpoch
      <3> QED
        BY <1>1, <1>2, <3>2, <3>3
    <2>4. CASE ~Unusable(history, at)
      <3>1. PICK prev \in Inventories : prev \in history.baseline
        BY <1>3, <2>1 DEF Histories
      <3>2. history.baseline = {prev}
        BY <2>1, <3>1 DEF SingleBaseline
      <3>3. n = Pushed(history, prev, cur, at)
        BY <2>2, <2>4, <3>2, ObservedDeltas
      <3>4. history'.boot = history.boot
        BY <1>1, <1>3, <3>3, PushedParts
      <3> QED
        BY <1>1, <1>2, <1>4, <2>4, <3>2, <3>3, <3>4
    <2> QED
      BY <2>3, <2>4
  <1>5. CASE mode # "docker"
    <2>1. h = NewHistory(FreshBoot)
      BY <1>5 DEF Carried
    <2>2. h \in Histories /\ SingleBaseline(h) /\ h.baseline = {} /\ h.events = {}
          /\ h.sequence = 0 /\ h.boot = FreshBoot
      BY <1>3, <2>1, NewHistorySound DEF Sound
    <2> HIDE DEF h
    <2>3. n = EpochStart(FreshBoot, {}, cur) \/ n = EpochStart(FreshBoot, {at}, cur)
      <3>1. CASE Unusable(h, at)
        BY <3>1, ObservedUnusable
      <3>2. CASE ~Unusable(h, at)
        BY <2>2, <3>2, ObservedFirst
      <3> QED
        BY <3>1, <3>2
    <2> HIDE DEF n
    <2>4. StartsEpoch(n, history.boot + 1, cur)
      BY <1>3, <2>3, EpochStarts
    <2>5. history'.boot # history.boot
      BY <1>1, <1>3, <2>4 DEF StartsEpoch
    <2> QED
      BY <1>1, <1>2, <2>4, <2>5
  <1> QED
    BY <1>4, <1>5

\* A mock publication keeps the history of mock mode, or starts an empty one.
LEMMA MockOutcomes ==
  ASSUME HistoryInv, PublishMock
  PROVE  \/ mode = "mock" /\ UNCHANGED vars
         \/ /\ mode = "docker" /\ mode' = "mock" /\ clouded' = {}
            /\ history' = NewHistory(history.boot + 1)
  BY DEF HistoryInv, TypeOK, PublishMock, Carried, FreshBoot, vars

\* Every step keeps the history sound, for the mode it is published under.
LEMMA HistoryStep == HistoryInv /\ [Next]_vars => HistoryInv'
  <1> SUFFICES ASSUME HistoryInv, [Next]_vars PROVE HistoryInv'
    OBVIOUS
  <1>1. history \in Histories /\ Sound(history) /\ clouded \subseteq Containers
    BY DEF HistoryInv, TypeOK
  <1>2. CASE PublishMock
    <2>1. CASE UNCHANGED vars
      BY <2>1 DEF vars, HistoryInv, TypeOK, BaselineFitsMode
    <2>2. CASE /\ mode = "docker" /\ mode' = "mock" /\ clouded' = {}
               /\ history' = NewHistory(history.boot + 1)
      <3>1. history.boot + 1 \in Nat
        BY <1>1 DEF Histories
      <3>2. history' \in Histories /\ Sound(history') /\ history'.baseline = {}
        BY <2>2, <3>1, NewHistorySound
      <3> QED
        BY <2>2, <3>2 DEF HistoryInv, TypeOK, BaselineFitsMode
    <2> QED
      BY <1>2, <2>1, <2>2, MockOutcomes
  <1>3. ASSUME NEW cur \in Inventories, NEW at \in Nat, PublishDocker(cur, at)
        PROVE  HistoryInv'
    <2>1. mode' = "docker"
      BY <1>3 DEF PublishDocker
    <2>2. history' \in Histories /\ Sound(history') /\ history'.baseline = {cur}
          /\ clouded' \subseteq Containers
      <3>1. CASE StartsEpoch(history', history.boot + 1, cur) /\ clouded' = {}
        BY <3>1 DEF StartsEpoch
      <3>2. ASSUME NEW prev \in Inventories, ~Unusable(history, at),
                   history' = Pushed(history, prev, cur, at),
                   clouded' = (clouded \ {e.container : e \in history'.events \ history.events})
                                \cup {c \in Containers : cur[c] = "ambiguous"}
            PROVE  history' \in Histories /\ Sound(history') /\ history'.baseline = {cur}
                   /\ clouded' \subseteq Containers
        <4>1. history' \in Histories /\ Sound(history')
          BY <1>1, <2>1, <3>2, PushKeeps
        <4>2. history'.baseline = {cur}
          BY <1>1, <3>2, PushedParts
        <4> QED
          BY <1>1, <3>2, <4>1, <4>2
      <3> QED
        BY <1>3, <3>1, <3>2, DockerOutcomes
    <2> QED
      BY <2>1, <2>2 DEF HistoryInv, TypeOK, BaselineFitsMode
  <1>4. CASE UNCHANGED vars
    BY <1>4 DEF vars, HistoryInv, TypeOK, BaselineFitsMode
  <1> QED
    BY <1>2, <1>3, <1>4, HistoryBoundAssumption DEF Next

\* The history is well typed, sound and of its mode throughout.
THEOREM HistoryInvariant == Spec => []HistoryInv
  <1>1. Init => HistoryInv
    <2> SUFFICES ASSUME Init PROVE HistoryInv
      OBVIOUS
    <2>1. mode = "mock" /\ history = NewHistory(1) /\ clouded = {}
      BY DEF Init
    <2>2. history \in Histories /\ Sound(history) /\ history.baseline = {}
      BY <2>1, NewHistorySound
    <2> QED
      BY <2>1, <2>2 DEF HistoryInv, TypeOK, BaselineFitsMode
  <1> QED
    BY <1>1, HistoryStep, PTL DEF Spec

-----------------------------------------------------------------------------
(* What the consumers admit *)

\* No more than MaxEvents events are retained: their numbers are distinct and lie within the
\* last MaxEvents numbers drawn.
LEMMA RetainedBound ==
  ASSUME NEW h \in Histories, Sound(h)
  PROVE  Cardinality(h.events) <= MaxEvents
  <1> DEFINE Window == (h.sequence - MaxEvents + 1)..h.sequence
             number == [e \in h.events |-> e.seq]
  <1>1. h.sequence \in Nat /\ h.events \subseteq Events /\ MaxEvents \in Nat /\ MaxEvents >= 1
    BY HistoryBoundAssumption DEF Histories
  <1>2. \A e \in h.events : e.seq \in Window
    BY <1>1 DEF Sound, EventsFit, Events
  <1>3. \A e, f \in h.events : e.seq = f.seq => e = f
    BY DEF Sound, EventsOrdered
  <1>4. number \in Injection(h.events, Window)
    BY <1>2, <1>3 DEF Injection, IsInjective
  <1>5. IsFiniteSet(Window) /\ Cardinality(Window) = MaxEvents
    <2>1. PICK lo \in Int, hi \in Int : lo = h.sequence - MaxEvents + 1 /\ hi = h.sequence
      BY <1>1
    <2>2. IsFiniteSet(lo..hi) /\ Cardinality(lo..hi) = IF lo > hi THEN 0 ELSE hi - lo + 1
      BY FS_Interval
    <2>3. Window = lo..hi
      BY <2>1
    <2>4. ~(lo > hi) /\ hi - lo + 1 = MaxEvents
      BY <1>1, <2>1
    <2> QED
      BY <2>2, <2>3, <2>4
  <1> HIDE DEF Window, number
  <1>6. Cardinality(h.events) <= Cardinality(Window)
    BY <1>4, <1>5, FS_Injection
  <1> QED
    BY <1>5, <1>6

\* Both consumers, the Node boundary's hasCoherentObservedHistory and the browser's validEvents,
\* admit every history the daemon publishes, for any number of containers, publications, source
\* flips and clock movements.
THEOREM HistoryIsAdmitted == Spec => []ResponseAccepted
  <1>1. HistoryInv => ResponseAccepted
    <2> SUFFICES ASSUME HistoryInv PROVE ResponseAccepted
      OBVIOUS
    <2>1. history \in Histories /\ Sound(history) /\ mode \in {"docker", "mock"}
          /\ (mode = "docker" <=> history.baseline # {})
      BY DEF HistoryInv, TypeOK, BaselineFitsMode
    <2>2. OrderedEvents(history.events)
      <3>1. \A e \in history.events : e.boot = history.boot
        BY <2>1 DEF Sound, EventsFit
      <3>2. \A e, f \in history.events : /\ e.seq = f.seq => e = f
                                         /\ e.seq < f.seq => e.at <= f.at
        BY <2>1 DEF Sound, EventsOrdered
      <3> QED
        BY <3>1, <3>2 DEF OrderedEvents
    <2>3. \A e \in history.events : e.seq >= 1 /\ e.at <= MaxSafe /\ ValidTransition(e)
      <3>1. \A e \in history.events : e.seq \in Nat /\ e.at \in Nat
        BY <2>1 DEF Histories, Events
      <3> QED
        BY <2>1, <3>1 DEF Sound, EventsFit
    <2>4. Cardinality(history.events) <= MaxEvents
      BY <2>1, RetainedBound
    <2>5. Cardinality({}) <= MaxEvents
      BY FS_EmptySet, HistoryBoundAssumption
    <2>6. CASE mode = "docker"
      <3>1. Response = [source |-> "docker", baselineEstablished |-> TRUE, revisions |-> TRUE,
                        events |-> history.events]
        BY <2>1, <2>6 DEF Response
      <3>2. CoherentObservedHistory(Response)
        BY <2>2, <2>3, <3>1 DEF CoherentObservedHistory
      <3>3. ValidEvents(Response.events)
        BY <2>2, <2>3, <2>4, <3>1 DEF ValidEvents
      <3> QED
        BY <3>2, <3>3 DEF ResponseAccepted
    <2>7. CASE mode = "mock"
      <3>1. Response = [source |-> "mock", baselineEstablished |-> FALSE, revisions |-> FALSE,
                        events |-> {}]
        BY <2>7 DEF Response
      <3>2. CoherentObservedHistory(Response)
        BY <3>1 DEF CoherentObservedHistory
      <3>3. ValidEvents(Response.events)
        BY <2>5, <3>1 DEF ValidEvents, OrderedEvents
      <3> QED
        BY <3>2, <3>3 DEF ResponseAccepted
    <2> QED
      BY <2>1, <2>6, <2>7
  <1> QED
    BY <1>1, HistoryInvariant, PTL

\* An event id names one event for the daemon's lifetime: new events are numbered after every
\* earlier one of the epoch, and an epoch that ended is never resumed.
THEOREM IdsStayFresh == Spec => IdsAreFresh
  <1>1. HistoryInv /\ [Next]_vars =>
          [/\ history'.boot >= history.boot
           /\ history'.boot = history.boot => history'.sequence >= history.sequence
           /\ \A e \in history'.events \ history.events :
                e.boot = history'.boot /\ (e.boot = history.boot => e.seq > history.sequence)]_vars
    <2> DEFINE Fresh ==
          /\ history'.boot >= history.boot
          /\ history'.boot = history.boot => history'.sequence >= history.sequence
          /\ \A e \in history'.events \ history.events :
               e.boot = history'.boot /\ (e.boot = history.boot => e.seq > history.sequence)
    <2> SUFFICES ASSUME HistoryInv, [Next]_vars PROVE Fresh \/ UNCHANGED vars
      OBVIOUS
    <2>1. history \in Histories /\ history.boot \in Nat /\ history.sequence \in Nat
      BY DEF HistoryInv, TypeOK, Histories
    <2>2. ASSUME history'.boot = history.boot + 1, history'.events = {} PROVE Fresh
      BY <2>1, <2>2
    <2>3. ASSUME PublishMock PROVE Fresh \/ UNCHANGED vars
      <3>1. ASSUME history' = NewHistory(history.boot + 1) PROVE Fresh
        <4>1. history.boot + 1 \in Nat
          BY <2>1
        <4>2. history'.boot = history.boot + 1 /\ history'.events = {}
          BY <3>1, <4>1, NewHistorySound
        <4> QED
          BY <2>2, <4>2
      <3> QED
        BY <2>3, <3>1, MockOutcomes
    <2>4. ASSUME NEW cur \in Inventories, NEW at \in Nat, PublishDocker(cur, at) PROVE Fresh
      <3>1. CASE StartsEpoch(history', history.boot + 1, cur)
        BY <2>2, <3>1 DEF StartsEpoch
      <3>2. ASSUME NEW prev \in Inventories, history' = Pushed(history, prev, cur, at)
            PROVE  Fresh
        <4> DEFINE new == PushedEvents(history, prev, cur, at)
        <4>1. history'.boot = history.boot /\ history'.sequence = LastPushed(history, prev, cur)
          BY <2>1, <3>2, PushedParts
        <4>2. history'.events = Retained(history.events \cup new, LastPushed(history, prev, cur))
          BY <2>1, <3>2, PushedRetains
        <4>3. \A e \in history'.events \ history.events : e \in new
          BY <4>2 DEF Retained
        <4>4. \A e \in new : e.boot = history.boot /\ e.seq > history.sequence
          BY <2>1, PushedEventsFit
        <4>5. LastPushed(history, prev, cur) >= history.sequence
          BY <2>1, ChangedFinite DEF LastPushed
        <4> HIDE DEF new
        <4> QED
          BY <2>1, <4>1, <4>3, <4>4, <4>5
      <3> QED
        BY <2>4, <3>1, <3>2, DockerOutcomes
    <2> QED
      BY <2>3, <2>4, HistoryBoundAssumption DEF Next
  <1> QED
    BY <1>1, HistoryInvariant, PTL DEF Spec, IdsAreFresh

-----------------------------------------------------------------------------
(* The newest event and the inventory *)

\* What a container's status is after event e.
After(e) == IF e.current = "none" THEN "absent" ELSE e.current

\* A push keeps the newest retained event of a container that is not clouded in agreement with
\* the inventory: either the container changed and its new event says so, or it did not and
\* its newest event is still the one the old baseline agreed with.
LEMMA NewestAfterPush ==
  ASSUME HistoryInv, NewestMatchesInventory,
         NEW prev \in Inventories, NEW cur \in Inventories, NEW at \in Nat,
         history.baseline = {prev}, history' = Pushed(history, prev, cur, at),
         clouded' = (clouded \ {e.container : e \in history'.events \ history.events})
                      \cup {c \in Containers : cur[c] = "ambiguous"},
         NEW c \in Containers, c \notin clouded',
         NEW e \in history'.events, e.container = c,
         \A f \in history'.events : f.container = c => f.seq <= e.seq
  PROVE  cur[c] = After(e)
  <1> DEFINE new == PushedEvents(history, prev, cur, at)
             last == LastPushed(history, prev, cur)
  <1>1. history \in Histories /\ history.sequence \in Nat /\ history.events \subseteq Events
    BY DEF HistoryInv, TypeOK, Histories
  <1>2. history'.events = Retained(history.events \cup new, last)
    BY <1>1, PushedRetains
  <1>3. \A f : f \in history'.events <=>
               (f \in history.events \/ f \in new) /\ f.seq > last - MaxEvents
    BY <1>2 DEF Retained
  <1>4. \A f \in new : /\ f.seq > history.sequence /\ f.seq \in Nat
                       /\ f.container \in Changed(prev, cur) /\ cur[f.container] = After(f)
    BY <1>1, PushedEventsFit DEF After, Events
  <1>5. \A f \in history.events : f.seq \in Nat /\ f.seq <= history.sequence
    BY <1>1 DEF HistoryInv, Sound, EventsFit, Events
  <1>6. cur[c] # "ambiguous"
    OBVIOUS
  <1>7. last \in Int /\ MaxEvents \in Int
    BY <1>1, ChangedFinite, HistoryBoundAssumption DEF LastPushed
  <1> HIDE DEF last
  <1>8. CASE e \in new
    BY <1>4, <1>8
  <1>9. CASE e \notin new
    <2>1. e \in history.events /\ e.seq > last - MaxEvents
      BY <1>3, <1>9
    <2>2. c \notin Changed(prev, cur)
      <3>1. SUFFICES ASSUME c \in Changed(prev, cur) PROVE FALSE
        OBVIOUS
      <3> DEFINE f == EventOf(history, prev, cur, at, c)
      <3>2. f \in new
        BY <3>1 DEF PushedEvents
      <3>3. f.container = c
        BY <1>1, <3>1, EventFits
      <3> HIDE DEF f, new
      <3>4. f.seq > e.seq
        BY <1>4, <1>5, <1>1, <2>1, <3>2
      <3>5. f.seq > last - MaxEvents
        BY <1>4, <1>5, <1>7, <2>1, <3>2, <3>4
      <3>6. f \in history'.events
        BY <1>3, <3>2, <3>5
      <3> QED
        BY <1>4, <1>5, <2>1, <3>2, <3>3, <3>4, <3>6
    <2>3. c \notin clouded
      <3>1. \A f \in history'.events \ history.events : f.container \in Changed(prev, cur)
        BY <1>3, <1>4
      <3> QED
        BY <2>2, <3>1
    <2>4. prev[c] = After(e)
      <3>1. \A f \in history.events : f.container = c => f.seq <= e.seq
        <4> SUFFICES ASSUME NEW f \in history.events, f.container = c, ~(f.seq <= e.seq)
                     PROVE  FALSE
          OBVIOUS
        <4>1. f.seq > e.seq /\ f.seq > last - MaxEvents
          BY <1>5, <1>7, <2>1
        <4> QED
          BY <1>3, <4>1
      <3>2. e \in NewestOf(c)
        BY <2>1, <3>1 DEF NewestOf
      <3> QED
        BY <2>3, <3>2 DEF NewestMatchesInventory, After
    <2>5. prev[c] = "absent" \/ prev[c] \in Statuses
      <3>1. ValidTransition(e) /\ e.kind \in Kinds
        BY <1>1, <2>1 DEF HistoryInv, Sound, EventsFit, Events
      <3> QED
        BY <2>4, <3>1 DEF After, ValidTransition, Kinds
    <2>6. cur[c] \in Statuses \cup {"absent", "ambiguous"}
      BY DEF Inventories
    <2>7. prev[c] = cur[c]
      BY <1>6, <2>2, <2>5, <2>6 DEF Changed, Gone, Appeared, Moved
    <2> QED
      BY <2>4, <2>7
  <1> QED
    BY <1>8, <1>9

\* Every step keeps the newest events in agreement with the inventory.
LEMMA NewestStep ==
  HistoryInv /\ NewestMatchesInventory /\ [Next]_vars => NewestMatchesInventory'
  <1> SUFFICES ASSUME HistoryInv, NewestMatchesInventory, [Next]_vars
               PROVE  NewestMatchesInventory'
    OBVIOUS
  <1>1. ASSUME history'.events = {} PROVE NewestMatchesInventory'
    BY <1>1 DEF NewestMatchesInventory, NewestOf
  <1>2. CASE UNCHANGED vars
    BY <1>2 DEF vars, NewestMatchesInventory, NewestOf
  <1>3. CASE PublishMock
    <2>1. history.boot + 1 \in Nat
      BY DEF HistoryInv, TypeOK, Histories
    <2>2. CASE history' = NewHistory(history.boot + 1)
      BY <1>1, <2>1, <2>2, NewHistorySound
    <2> QED
      BY <1>2, <1>3, <2>2, MockOutcomes
  <1>4. ASSUME NEW cur \in Inventories, NEW at \in Nat, PublishDocker(cur, at)
        PROVE  NewestMatchesInventory'
    <2>1. CASE StartsEpoch(history', history.boot + 1, cur)
      BY <1>1, <2>1 DEF StartsEpoch
    <2>2. ASSUME NEW prev \in Inventories,
                 history.baseline = {prev}, history' = Pushed(history, prev, cur, at),
                 clouded' = (clouded \ {e.container : e \in history'.events \ history.events})
                              \cup {c \in Containers : cur[c] = "ambiguous"}
          PROVE  NewestMatchesInventory'
      <3>1. history'.baseline = {cur}
        <4>1. history \in Histories
          BY DEF HistoryInv, TypeOK
        <4> QED
          BY <2>2, <4>1, PushedParts
      <3>2. ASSUME NEW c \in Containers \ clouded', NEW e \in NewestOf(c)'
            PROVE  cur[c] = After(e)
        <4>1. e \in history'.events /\ e.container = c
              /\ \A f \in history'.events : f.container = c => f.seq <= e.seq
          BY <3>2 DEF NewestOf
        <4> QED
          BY <2>2, <4>1, NewestAfterPush
      <3> QED
        BY <3>1, <3>2 DEF NewestMatchesInventory, After
    <2> QED
      BY <1>4, <2>1, <2>2, DockerOutcomes
  <1> QED
    BY <1>2, <1>3, <1>4, HistoryBoundAssumption DEF Next

\* The newest retained event of a container agrees with the current inventory, unless its
\* identity was ambiguous since: no delta is missed, doubled or taken against a stale baseline.
THEOREM NewestIsInventory == Spec => []NewestMatchesInventory
  <1>1. Init => NewestMatchesInventory
    BY DEF Init, NewHistory, NewestMatchesInventory
  <1> QED
    BY <1>1, NewestStep, HistoryInvariant, PTL DEF Spec

=============================================================================
