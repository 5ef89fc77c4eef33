--------------------------- MODULE ObservedHistory ---------------------------
(***************************************************************************)
(* The daemon's observed inventory history (ObservedHistoryCache in        *)
(* crates/dockermap-daemon/src/cache_refresh.rs and                        *)
(* crates/dockermap-core/src/observed_history.rs) and the two consumers    *)
(* that admit or reject what it publishes: the Node API's                  *)
(* hasCoherentObservedHistory and the browser's validEvents.               *)
(*                                                                         *)
(* Every publication of the refresh loop is one critical section of the    *)
(* cache lock, hence one action.  An inventory gives each container        *)
(* identity its status class, or says that it is absent or ambiguous (two  *)
(* records with one public identity).                                      *)
(*                                                                         *)
(* The retained events are a set: push numbers them consecutively, so the  *)
(* order of the code's queue is the order of their sequence numbers.       *)
(***************************************************************************)
EXTENDS Integers, FiniteSets

CONSTANTS
  Containers,   \* container identities (digests)
  Rank,         \* their order in the code's BTreeMap
  Statuses,     \* the closed status classes
  Times,        \* values of last_updated a Docker read may carry
  MaxSafe,      \* MAX_SAFE_JS_INTEGER
  MaxEvents,    \* MAX_OBSERVED_CHANGE_EVENTS
  MaxEpoch,     \* bound: history epochs explored
  MaxSequence   \* bound: events of one epoch explored

ASSUME ContainersAssumption ==
  /\ IsFiniteSet(Containers)
  /\ Rank \in [Containers -> Nat]
  /\ \A c, d \in Containers : Rank[c] = Rank[d] => c = d

ASSUME StatusAssumption ==
  /\ "absent" \notin Statuses
  /\ "ambiguous" \notin Statuses
  /\ "none" \notin Statuses

ASSUME HistoryBoundAssumption ==
  /\ Times \subseteq Nat
  /\ MaxSafe \in Nat
  /\ MaxEvents \in Nat \ {0}
  /\ MaxEpoch \in Nat
  /\ MaxSequence \in Nat

VARIABLES
  mode,      \* cache.health.mode
  history,   \* cache.observed_history
  clouded    \* identities seen as ambiguous since their newest event (no code
             \* reads it)

vars == <<mode, history, clouded>>

Inventories == [Containers -> Statuses \cup {"absent", "ambiguous"}]

Kinds == {"appeared", "disappeared", "status_changed"}

\* ObservedChangeEvent; its id is boot and seq, and "none" is a null status.
Events ==
  [boot : Nat, seq : Nat, kind : Kinds, at : Nat, container : Containers,
   previous : Statuses \cup {"none"}, current : Statuses \cup {"none"}]

\* Option<_> as a set of at most one value.
Histories ==
  [boot : Nat, sequence : Nat, lastAt : SUBSET Nat,
   baseline : SUBSET Inventories, events : SUBSET Events]

\* A boot component that was never drawn before (opaque_revision_boot_component
\* reads the operating system's generator): epochs are numbered as they begin.
FreshBoot == history.boot + 1

NewHistory(b) ==
  [boot |-> b, sequence |-> 0, lastAt |-> {}, baseline |-> {}, events |-> {}]

-----------------------------------------------------------------------------
(* observe_published_snapshot *)

\* The clock reading cannot take part in a newest-first claim.
Unusable(h, at) == at > MaxSafe \/ \E t \in h.lastAt : at < t

Gone(prev, cur) ==
  {c \in Containers : prev[c] \in Statuses /\ cur[c] = "absent"}

Appeared(prev, cur) ==
  {c \in Containers : prev[c] = "absent" /\ cur[c] \in Statuses}

Moved(prev, cur) ==
  {c \in Containers : /\ prev[c] \in Statuses /\ cur[c] \in Statuses
                      /\ prev[c] # cur[c]}

Changed(prev, cur) == Gone(prev, cur) \cup Appeared(prev, cur) \cup Moved(prev, cur)

\* The first loop pushes what disappeared, the second the rest, each in order.
Before(prev, cur, c, d) ==
  \/ c \in Gone(prev, cur) /\ d \notin Gone(prev, cur)
  \/ (c \in Gone(prev, cur) <=> d \in Gone(prev, cur)) /\ Rank[c] < Rank[d]

Position(prev, cur, c) ==
  Cardinality({d \in Changed(prev, cur) : Before(prev, cur, d, c)}) + 1

\* push
EventOf(h, prev, cur, at, c) ==
  [boot |-> h.boot,
   seq |-> h.sequence + Position(prev, cur, c),
   kind |-> IF c \in Gone(prev, cur) THEN "disappeared"
            ELSE IF c \in Appeared(prev, cur) THEN "appeared"
            ELSE "status_changed",
   at |-> at,
   container |-> c,
   previous |-> IF c \in Appeared(prev, cur) THEN "none" ELSE prev[c],
   current |-> IF c \in Gone(prev, cur) THEN "none" ELSE cur[c]]

\* Mutant: the queue evicts one event too late.
RetainedOneMore(evs, last) == {e \in evs : e.seq >= last - MaxEvents}

\* push evicts from the front while the queue is too long; the sequence
\* numbers are consecutive, so the last MaxEvents of them stay.
Retained(evs, last) == {e \in evs : e.seq > last - MaxEvents}

\* A rebaseline keeps nothing but the inventory, under a fresh boot component.
Rebaselined(b, cur) == [NewHistory(b) EXCEPT !.baseline = {cur}]

\* Mutant: the baseline is not replaced when deltas are pushed.
PushedOnOldBaseline(h, prev, cur, at) ==
  LET last == h.sequence + Cardinality(Changed(prev, cur))
  IN  [h EXCEPT
        !.sequence = last,
        !.lastAt = {at},
        !.events = Retained(@ \cup {EventOf(h, prev, cur, at, c) :
                                      c \in Changed(prev, cur)}, last)]

\* The two loops of observe_published_snapshot over the replaced baseline.
Pushed(h, prev, cur, at) ==
  LET last == h.sequence + Cardinality(Changed(prev, cur))
      pushed == {EventOf(h, prev, cur, at, c) : c \in Changed(prev, cur)}
  IN  [boot |-> h.boot,
       sequence |-> last,
       lastAt |-> {at},
       baseline |-> {cur},
       events |-> Retained(h.events \cup pushed, last)]

\* b is the boot component a rebaseline would draw.
Observed(h, cur, at, b) ==
  CASE Unusable(h, at) -> Rebaselined(b, cur)
    [] ~Unusable(h, at) /\ h.baseline = {} ->
         [h EXCEPT !.lastAt = {at}, !.baseline = {cur}]
    [] OTHER -> Pushed(h, CHOOSE prev \in h.baseline : TRUE, cur, at)

-----------------------------------------------------------------------------
(* publish_docker_snapshot_cache, as far as the history goes *)

Init ==
  /\ mode = "mock"
  /\ history = NewHistory(1)
  /\ clouded = {}

\* Mutant: a source flip restarts the numbering under the same boot component.
CarriedSameBoot(m) == IF m = mode THEN history ELSE NewHistory(history.boot)

\* The history a publication starts from.
Carried(m) == IF m = mode THEN history ELSE NewHistory(FreshBoot)

PublishMock ==
  /\ Carried("mock").boot <= MaxEpoch
  /\ mode' = "mock"
  /\ history' = Carried("mock")
  /\ clouded' = IF mode = "mock" THEN clouded ELSE {}

PublishDocker(cur, at) ==
  LET new == Observed(Carried("docker"), cur, at, FreshBoot)
  IN
  /\ new.boot <= MaxEpoch
  /\ new.sequence <= MaxSequence
  /\ mode' = "docker"
  /\ history' = new
  /\ clouded' =
       IF new.boot # history.boot THEN {}
       ELSE (clouded \ {e.container : e \in new.events \ history.events})
              \cup {c \in Containers : cur[c] = "ambiguous"}

Next ==
  \/ PublishMock
  \/ \E cur \in Inventories, at \in Times : PublishDocker(cur, at)

Spec == Init /\ [][Next]_vars

-----------------------------------------------------------------------------
(* What the routes publish and the consumers admit *)

\* DaemonCache::observed_history_response
Response ==
  LET established == mode = "docker" /\ history.baseline # {}
  IN  [source |-> mode,
       baselineEstablished |-> established,
       revisions |-> established,
       events |-> IF established THEN history.events ELSE {}]

ValidTransition(e) ==
  CASE e.kind = "appeared" -> e.previous = "none" /\ e.current \in Statuses
    [] e.kind = "disappeared" -> e.previous \in Statuses /\ e.current = "none"
    [] e.kind = "status_changed" ->
         /\ e.previous \in Statuses /\ e.current \in Statuses
         /\ e.previous # e.current

\* One epoch, unique ids, newest first in sequence and in time.
OrderedEvents(evs) ==
  \A e, f \in evs :
    /\ e.boot = f.boot
    /\ e # f => e.seq # f.seq
    /\ e.seq < f.seq => e.at <= f.at

\* hasCoherentObservedHistory
CoherentObservedHistory(r) ==
  IF r.source = "mock"
  THEN ~r.baselineEstablished /\ ~r.revisions /\ r.events = {}
  ELSE /\ r.baselineEstablished /\ r.revisions
       /\ OrderedEvents(r.events)
       /\ \A e \in r.events : e.seq >= 1 /\ ValidTransition(e)

\* validEvents
ValidEvents(evs) ==
  /\ Cardinality(evs) <= MaxEvents
  /\ OrderedEvents(evs)
  /\ \A e \in evs : e.seq >= 1 /\ e.at <= MaxSafe /\ ValidTransition(e)

-----------------------------------------------------------------------------
(* Properties *)

TypeOK ==
  /\ mode \in {"docker", "mock"}
  /\ history \in Histories
  /\ clouded \subseteq Containers

\* Whatever inventories, source flips and clock movements the daemon meets,
\* the Node boundary and the browser admit the history it publishes: one epoch,
\* unique ids, newest first, closed transitions, within the bound.
ResponseAccepted ==
  CoherentObservedHistory(Response) /\ ValidEvents(Response.events)

NewestOf(c) ==
  {e \in history.events :
     e.container = c /\ \A f \in history.events : f.container = c => f.seq <= e.seq}

\* The newest retained event of a container agrees with the current inventory,
\* unless its identity was ambiguous since: no delta is missed, doubled or
\* applied to the wrong baseline.
NewestMatchesInventory ==
  \A inv \in history.baseline : \A c \in Containers \ clouded :
    \A e \in NewestOf(c) :
      inv[c] = IF e.current = "none" THEN "absent" ELSE e.current

\* An event id names one event for the daemon's lifetime: within an epoch new
\* events are numbered after every earlier one, and an epoch that ended (a
\* source flip, an unusable clock) is never resumed.
IdsAreFresh ==
  [][/\ history'.boot >= history.boot
     /\ history'.boot = history.boot => history'.sequence >= history.sequence
     /\ \A e \in history'.events \ history.events :
          e.boot = history'.boot /\ (e.boot = history.boot => e.seq > history.sequence)]_vars

=============================================================================
