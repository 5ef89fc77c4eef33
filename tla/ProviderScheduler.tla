-------------------------- MODULE ProviderScheduler --------------------------
(***************************************************************************)
(* The daemon's refresh loop and its fixed provider slots                  *)
(* (crates/dockermap-daemon/src/cache_refresh.rs, runtime_collection.rs).  *)
(*                                                                         *)
(* One refresh loop publishes a Docker (or mock) snapshot into the shared  *)
(* cache and claims the provider slots that are due.  Each claimed slot    *)
(* gets a Tokio task, the task starts a blocking worker that holds the     *)
(* slot's atomic guard, waits for it under a timeout, applies the outcome  *)
(* to the cache and then claims and spawns again.  Every cache access is   *)
(* one critical section of the cache's RwLock, hence one action; what the  *)
(* code does between two critical sections is where the actions of the     *)
(* loop, the tasks and the workers interleave.                             *)
(*                                                                         *)
(* Time: completed_at and the slot's interval are only ever compared with  *)
(* the monotonic clock, so a slot carries `wait', the ticks left until it  *)
(* is due again; a slot that never completed has wait 0.                   *)
(***************************************************************************)
EXTENDS Integers, FiniteSets

CONSTANTS
  Slots,          \* the fixed provider slots, STATIC_PROVIDER_SLOTS
  Rank,           \* Rank[s]: position of s in STATIC_PROVIDER_SLOTS
  Interval,       \* Interval[s]: slot_interval(s) in ticks
  Network,        \* the slot bound to Docker evidence, NetworkInfrastructure
  DisabledSlots,  \* slots whose collector reports Disabled under this profile
  MaxConcurrent,  \* MAX_CONCURRENT_PROVIDER_SLOTS
  Inventories,    \* sanitized Docker inventories a refresh may observe
  MockInventory,  \* the inventory of DaemonCache::mock
  Stamps,         \* values of last_updated a Docker read may carry
  MockStamps,     \* values of last_updated a mock cache may carry
  Copies,         \* bound: tasks alive at once for one slot
  Tails,          \* bound: tasks past their Apply that still claim and spawn
  MaxGeneration   \* bound: source transitions explored

ASSUME SlotsAssumption ==
  /\ IsFiniteSet(Slots)
  /\ Network \in Slots
  /\ DisabledSlots \subseteq Slots \ {Network}

ASSUME PolicyAssumption ==
  /\ Rank \in [Slots -> Nat]
  /\ \A s, t \in Slots : Rank[s] = Rank[t] => s = t
  /\ Interval \in [Slots -> Nat \ {0}]
  /\ MaxConcurrent \in Nat \ {0}

ASSUME InputAssumption ==
  /\ MockInventory \notin Inventories
  /\ MockStamps # {} /\ MockStamps \subseteq Stamps

ASSUME BoundAssumption ==
  /\ Copies \subseteq Nat
  /\ Tails \subseteq Nat \ {0}
  /\ MaxGeneration \in Nat

VARIABLES
  mode,        \* cache.health.mode
  generation,  \* cache.source_generation
  snapshot,    \* cache.snapshot, sanitized: its inventory and last_updated
  slot,        \* cache.runtime_providers
  published,   \* cache.revision.last_observable
  guard,       \* AppState.provider_slot_in_flight
  loop,        \* where the refresh loop is
  task,        \* the Tokio tasks spawned by spawn_provider_slots
  tail,        \* what follows drop(cache) in apply_provider_slot_outcome
  worker       \* tasks whose spawn_blocking closure has not returned

cacheVars == <<mode, generation, snapshot, slot, published>>
vars == <<mode, generation, snapshot, slot, published, guard, loop, task, tail, worker>>

Modes == {"docker", "mock"}
Snapshots == [inv : Inventories \cup {MockInventory}, at : Stamps]
Tasks == Slots \X Copies

\* A retained ProviderCollection: the snapshot its worker was given, and the
\* source generation in which its slot was claimed (a history field: no code
\* reads it).
Collections == [snapshot : Snapshots, claimedIn : Nat]

\* RuntimeProviderState: the enum's variant and its Option<ProviderCollection>
\* as a set of at most one collection.
Observations == {"unavailable", "fresh", "collecting", "degraded", "timed_out"}
SlotStates ==
  [obs : Observations, retained : SUBSET Collections, wait : Nat]

Outcomes == {"collected", "in_flight", "failed", "timed_out"}
\* "claimed": in the `due' vector of tail `by', not spawned yet.
TaskStates ==
  [pc : {"idle", "claimed", "spawned", "await", "apply"},
   snapshot : Snapshots, generation : Nat, claimedIn : Nat,
   outcome : Outcomes, by : Nat]
TailStates == [pc : {"idle", "reclaim", "read_generation"}, snapshot : Snapshots]

-----------------------------------------------------------------------------
(* Slot states *)

DefaultSlot == [obs |-> "unavailable", retained |-> {}, wait |-> 0]

\* source_reset_provider_slots: every slot is back to its default.
SourceResetSlots == [s \in Slots |-> DefaultSlot]

\* Mutant: a new snapshot does not make network evidence stale.
MarkNetworkStaleNever(sl) == sl

\* mark_network_observation_stale
MarkNetworkStale(sl) ==
  IF sl[Network].obs = "fresh"
  THEN [sl EXCEPT ![Network].obs = "degraded"]
  ELSE sl

Collecting(sl) == {s \in Slots : sl[s].obs = "collecting"}

\* ProviderSlotFlights::active_count
ActiveWorkers == Cardinality({s \in Slots : guard[s]})

\* The conditions under which claim_due_slots_with_active_workers skips a slot.
Eligible(sl) ==
  {s \in Slots : /\ sl[s].obs # "collecting"
                 /\ sl[s].wait = 0
                 /\ ~(sl[s].obs = "fresh" /\ s \in DisabledSlots)}

Larger(m, n) == IF m >= n THEN m ELSE n

\* Mutant: published claims whose worker has not started are not counted.
RemainingByGuards(sl) ==
  IF ActiveWorkers >= MaxConcurrent THEN 0 ELSE MaxConcurrent - ActiveWorkers

\* max_concurrency.saturating_sub(occupied.max(active_workers))
Remaining(sl) ==
  LET busy == Larger(Cardinality(Collecting(sl)), ActiveWorkers)
  IN  IF busy >= MaxConcurrent THEN 0 ELSE MaxConcurrent - busy

\* The loop of claim_due_slots_with_active_workers: the first `Remaining'
\* eligible slots in the fixed order.
DueSlots(sl) ==
  LET E == Eligible(sl)
  IN  {s \in E : Cardinality({t \in E : Rank[t] < Rank[s]}) < Remaining(sl)}

\* The claimed slots become Collecting and keep what they retained.
Claimed(sl, due) ==
  [s \in Slots |-> IF s \in due THEN [sl[s] EXCEPT !.obs = "collecting"] ELSE sl[s]]

-----------------------------------------------------------------------------
(* What a cache write publishes *)

\* provider_states_for
ProviderState(sl, s) ==
  LET base == IF sl[s].retained = {} THEN "unavailable"
              ELSE IF s \in DisabledSlots THEN "disabled" ELSE "fresh"
  IN CASE sl[s].obs = "fresh" -> base
       [] sl[s].obs = "unavailable" -> "unavailable"
       [] sl[s].obs # "fresh" /\ base = "disabled" -> "disabled"
       [] sl[s].obs = "collecting" /\ base = "unavailable" -> "collecting"
       [] sl[s].obs = "timed_out" /\ base # "disabled" -> "timed_out"
       [] sl[s].obs = "degraded" /\ base = "unavailable" -> "unavailable"
       [] OTHER -> "stale"

\* What PublicationRevision::assign compares: source, inventory and, for each
\* slot, its public state and its diagnostic; last_updated is cleared.  The
\* slot's freshness metadata is left out: it is written in the same sections.
Observable(m, snap, sl) ==
  [mode |-> m, inv |-> snap.inv,
   slots |-> [s \in Slots |->
               [state |-> ProviderState(sl, s),
                diagnostic |-> IF sl[s].obs = "fresh" THEN <<>>
                               ELSE <<sl[s].obs, sl[s].retained # {}>>]]]

\* The observable of the cache at boot: DaemonCache::mock assigns a revision to
\* a runtime map that is not built yet, so it has no diagnostics.
BootObservable(snap) ==
  [mode |-> "mock", inv |-> snap.inv,
   slots |-> [s \in Slots |-> [state |-> "unavailable", diagnostic |-> <<>>]]]

\* claim_due_provider_slots rebuilds and assigns only if it claimed something.
Republished(due, newSlot) ==
  IF due = {} THEN published ELSE Observable(mode, snapshot, newSlot)

-----------------------------------------------------------------------------
(* Tasks *)

MockSnapshots == [inv : {MockInventory}, at : MockStamps]
DockerSnapshots == [inv : Inventories, at : Stamps]

FirstSnapshot == CHOOSE snap \in MockSnapshots : TRUE

IdleTask ==
  [pc |-> "idle", snapshot |-> FirstSnapshot, generation |-> 0, claimedIn |-> 0,
   outcome |-> "failed", by |-> 0]

IdleTail == [pc |-> "idle", snapshot |-> FirstSnapshot]

IsFree(s, c) == task[<<s, c>>].pc = "idle" /\ <<s, c>> \notin worker

\* Ways to give each slot of `due' a task record that is not in use: the least
\* one, so that equal states have one representation.
Placements(due) ==
  {p \in [due -> Copies] :
     \A s \in due : /\ IsFree(s, p[s])
                    /\ \A c \in Copies : c < p[s] => ~IsFree(s, c)}

\* One task record per slot of a placement.
Placed(place, new) ==
  [t \in Tasks |-> IF t[1] \in DOMAIN place /\ t[2] = place[t[1]]
                   THEN new ELSE task[t]]

-----------------------------------------------------------------------------
(* The refresh loop *)

Init ==
  /\ mode = "mock"
  /\ generation = 0
  /\ snapshot \in MockSnapshots
  /\ slot = SourceResetSlots
  /\ published = BootObservable(snapshot)
  /\ guard = [s \in Slots |-> FALSE]
  /\ loop = "collect"
  /\ task = [t \in Tasks |-> IdleTask]
  /\ tail = [k \in Tails |-> IdleTail]
  /\ worker = {}

\* publish_docker_snapshot_cache: m and snap are what collect_snapshot returned
\* (a failed or timed out Docker read is a mock cache).
Publish(m, snap) ==
  LET sameSource == m = mode
      newSlot == IF ~sameSource THEN SourceResetSlots
                 ELSE IF snap # snapshot THEN MarkNetworkStale(slot)
                 ELSE slot
  IN
  /\ loop = "collect"
  /\ sameSource \/ generation < MaxGeneration
  /\ mode' = m
  /\ snapshot' = snap
  /\ generation' = IF sameSource THEN generation ELSE generation + 1
  /\ slot' = newSlot
  /\ published' = Observable(m, snap, newSlot)
  /\ loop' = IF m = "docker" THEN "claim" ELSE "collect"
  /\ UNCHANGED <<guard, task, tail, worker>>

PublishDocker == \E snap \in DockerSnapshots : Publish("docker", snap)
PublishMock == \E snap \in MockSnapshots : Publish("mock", snap)

\* The rest of refresh_cache: claim_due_provider_slots, then spawn with the
\* snapshot and generation that the publication returned.  Only the loop
\* publishes, so they are still the cache's.
LoopClaim ==
  LET due == DueSlots(slot)
      newSlot == Claimed(slot, due)
  IN
  /\ loop = "claim"
  /\ \E place \in Placements(due) :
       task' = Placed(place, [IdleTask EXCEPT !.pc = "spawned",
                                              !.snapshot = snapshot,
                                              !.generation = generation,
                                              !.claimedIn = generation])
  /\ slot' = newSlot
  /\ published' = Republished(due, newSlot)
  /\ loop' = "collect"
  /\ UNCHANGED <<mode, generation, snapshot, guard, tail, worker>>

-----------------------------------------------------------------------------
(* One spawned task: collect_provider_slot_bounded and                     *)
(* apply_provider_slot_outcome                                             *)

\* RuntimeCollectionGuard::acquire fails: a worker of this slot is unwinding.
StartInFlight(s, c) ==
  /\ task[<<s, c>>].pc = "spawned"
  /\ guard[s]
  /\ task' = [task EXCEPT ![<<s, c>>].pc = "apply", ![<<s, c>>].outcome = "in_flight"]
  /\ UNCHANGED <<cacheVars, guard, loop, tail, worker>>

\* The guard is acquired and moves into the blocking closure.
StartWorker(s, c) ==
  /\ task[<<s, c>>].pc = "spawned"
  /\ ~guard[s]
  /\ guard' = [guard EXCEPT ![s] = TRUE]
  /\ worker' = worker \cup {<<s, c>>}
  /\ task' = [task EXCEPT ![<<s, c>>].pc = "await"]
  /\ UNCHANGED <<cacheVars, loop, tail>>

\* The blocking closure returns: its guard is dropped, and a task that still
\* awaits it gets its result (a panic is a failure).
WorkerReturns(s, c) ==
  /\ <<s, c>> \in worker
  /\ worker' = worker \ {<<s, c>>}
  /\ guard' = [guard EXCEPT ![s] = FALSE]
  /\ \/ /\ task[<<s, c>>].pc = "await"
        /\ \E o \in {"collected", "failed", "timed_out"} :
             task' = [task EXCEPT ![<<s, c>>].pc = "apply", ![<<s, c>>].outcome = o]
     \/ /\ task[<<s, c>>].pc # "await"
        /\ task' = task
  /\ UNCHANGED <<cacheVars, loop, tail>>

\* Mutant: the timeout drops the guard while the worker still runs.
AwaitTimesOutReleasing(s, c) ==
  /\ task[<<s, c>>].pc = "await"
  /\ task' = [task EXCEPT ![<<s, c>>].pc = "apply", ![<<s, c>>].outcome = "timed_out"]
  /\ guard' = [guard EXCEPT ![s] = FALSE]
  /\ UNCHANGED <<cacheVars, loop, tail, worker>>

\* Mutant: the timeout ends the task without applying an outcome.
AwaitTimesOutForgets(s, c) ==
  /\ task[<<s, c>>].pc = "await"
  /\ task' = [task EXCEPT ![<<s, c>>] = IdleTask]
  /\ UNCHANGED <<cacheVars, guard, loop, tail, worker>>

\* Mutant: a task waits for its worker for ever.
AwaitTimesOutNever(s, c) ==
  /\ task[<<s, c>>].pc = "await" /\ ~guard[s]
  /\ task' = [task EXCEPT ![<<s, c>>].pc = "apply", ![<<s, c>>].outcome = "timed_out"]
  /\ UNCHANGED <<cacheVars, guard, loop, tail, worker>>

\* RUNTIME_MAP_COLLECTION_TIMEOUT elapses; the worker keeps the guard.
AwaitTimesOut(s, c) ==
  /\ task[<<s, c>>].pc = "await"
  /\ task' = [task EXCEPT ![<<s, c>>].pc = "apply", ![<<s, c>>].outcome = "timed_out"]
  /\ UNCHANGED <<cacheVars, guard, loop, tail, worker>>

\* Mutant: an attempt that failed drops the retained collection.
AppliedSlotDropping(s, t) ==
  [obs |-> IF t.outcome = "collected" /\ snapshot = t.snapshot THEN "fresh" ELSE "degraded",
   retained |-> IF t.outcome = "collected"
                THEN {[snapshot |-> t.snapshot, claimedIn |-> t.claimedIn]} ELSE {},
   wait |-> Interval[s]]

\* The slot state apply_provider_slot_outcome writes.  InFlight alone leaves
\* completed_at, hence wait, as it was.
AppliedSlot(s, t) ==
  CASE t.outcome = "collected" ->
         [obs |-> IF snapshot = t.snapshot THEN "fresh" ELSE "degraded",
          retained |-> {[snapshot |-> t.snapshot, claimedIn |-> t.claimedIn]},
          wait |-> Interval[s]]
    [] t.outcome = "in_flight" -> [slot[s] EXCEPT !.obs = "timed_out"]
    [] t.outcome = "failed" ->
         [slot[s] EXCEPT !.obs = "degraded", !.wait = Interval[s]]
    [] t.outcome = "timed_out" ->
         [slot[s] EXCEPT !.obs = "timed_out", !.wait = Interval[s]]

\* Mutant: the generation alone is compared.
AcceptsAnyMode(t) == generation = t.generation

\* Whether apply_provider_slot_outcome takes the outcome at all.  Both callers
\* of spawn_provider_slots pass RuntimeMode::Docker as the observed mode.
Accepts(t) == mode = "docker" /\ generation = t.generation

\* apply_provider_slot_outcome, first critical section: discard ...
Discard(s, c) ==
  /\ task[<<s, c>>].pc = "apply"
  /\ ~Accepts(task[<<s, c>>])
  /\ task' = [task EXCEPT ![<<s, c>>] = IdleTask]
  /\ UNCHANGED <<cacheVars, guard, loop, tail, worker>>

\* ... or write the outcome, and keep the snapshot for the next spawn.
Apply(s, c) ==
  LET t == task[<<s, c>>]
      newSlot == [slot EXCEPT ![s] = AppliedSlot(s, t)]
  IN
  /\ t.pc = "apply"
  /\ Accepts(t)
  /\ slot' = newSlot
  /\ published' = Observable(mode, snapshot, newSlot)
  /\ task' = [task EXCEPT ![<<s, c>>] = IdleTask]
  /\ \E k \in Tails :
       /\ tail[k].pc = "idle"
       /\ \A j \in Tails : j < k => tail[j].pc # "idle"
       /\ tail' = [tail EXCEPT ![k] = [pc |-> "reclaim", snapshot |-> snapshot]]
  /\ UNCHANGED <<mode, generation, snapshot, guard, loop, worker>>

\* Second critical section: claim_due_provider_slots on whatever the cache
\* holds now.
Reclaim(k) ==
  LET due == DueSlots(slot)
      newSlot == Claimed(slot, due)
  IN
  /\ tail[k].pc = "reclaim"
  /\ \E place \in Placements(due) :
       task' = Placed(place, [IdleTask EXCEPT !.pc = "claimed",
                                              !.snapshot = tail[k].snapshot,
                                              !.claimedIn = generation,
                                              !.by = k])
  /\ slot' = newSlot
  /\ published' = Republished(due, newSlot)
  /\ tail' = [tail EXCEPT ![k].pc = "read_generation"]
  /\ UNCHANGED <<mode, generation, snapshot, guard, loop, worker>>

\* Third critical section: cache_generation, then spawn the claimed slots with
\* the snapshot of the first section and the generation of this one.
ReadGeneration(k) ==
  /\ tail[k].pc = "read_generation"
  /\ task' = [t \in Tasks |->
               IF task[t].pc = "claimed" /\ task[t].by = k
               THEN [task[t] EXCEPT !.pc = "spawned", !.generation = generation,
                                    !.by = 0]
               ELSE task[t]]
  /\ tail' = [tail EXCEPT ![k] = IdleTail]
  /\ UNCHANGED <<cacheVars, guard, loop, worker>>

-----------------------------------------------------------------------------

\* One tick of the monotonic clock.
Tick ==
  /\ \E s \in Slots : slot[s].wait > 0
  /\ slot' = [s \in Slots |->
               [slot[s] EXCEPT !.wait = IF @ > 0 THEN @ - 1 ELSE 0]]
  /\ UNCHANGED <<mode, generation, snapshot, published, guard, loop, task, tail, worker>>

TaskStep(s, c) ==
  \/ StartInFlight(s, c) \/ StartWorker(s, c) \/ AwaitTimesOut(s, c)
  \/ Discard(s, c) \/ Apply(s, c)

TailStep(k) == Reclaim(k) \/ ReadGeneration(k)

Next ==
  \/ PublishDocker
  \/ PublishMock
  \/ LoopClaim
  \/ Tick
  \/ \E s \in Slots, c \in Copies : TaskStep(s, c) \/ WorkerReturns(s, c)
  \/ \E k \in Tails : TailStep(k)

Spec == Init /\ [][Next]_vars

\* Tokio runs every task that is ready, fires every timer and grants the
\* cache's RwLock in FIFO order, so a task that keeps asking for it gets it.
\* Nothing makes the refresh loop publish a particular source, and nothing
\* makes a blocking worker return.
FairSpec ==
  /\ Spec
  /\ \A s \in Slots, c \in Copies : SF_vars(TaskStep(s, c))
  /\ \A k \in Tails : WF_vars(TailStep(k))

-----------------------------------------------------------------------------
(* Properties *)

TypeOK ==
  /\ mode \in Modes
  /\ generation \in Nat
  /\ snapshot \in Snapshots
  /\ slot \in [Slots -> SlotStates]
  /\ guard \in [Slots -> BOOLEAN]
  /\ loop \in {"collect", "claim"}
  /\ task \in [Tasks -> TaskStates]
  /\ tail \in [Tails -> TailStates]
  /\ worker \subseteq Tasks

\* The scheduler never has more than MAX_CONCURRENT_PROVIDER_SLOTS slots
\* published as collecting (claim_due_slots_with_active_workers), whatever
\* claims the loop and the finishing tasks make one after the other.
CollectingBound == Cardinality(Collecting(slot)) <= MaxConcurrent

\* A slot's guard is held exactly while one blocking worker of that slot runs:
\* a timed out worker keeps it until it unwinds, so two workers of the same
\* slot never overlap (RuntimeCollectionGuard).
SingleFlight ==
  \A s \in Slots :
    /\ guard[s] <=> \E c \in Copies : <<s, c>> \in worker
    /\ \A c, d \in Copies : <<s, c>> \in worker /\ <<s, d>> \in worker => c = d

\* A mock publication never carries a host observation, even when a worker of
\* the live source finishes, or a finishing task claims and spawns, after the
\* flip (apply_provider_slot_outcome checks mode and generation).
MockHoldsNoHostEvidence ==
  mode = "mock" => \A s \in Slots : slot[s].retained = {}

\* Network infrastructure is published as fresh only while the snapshot its
\* worker was given is the published one: publishing other evidence and a late
\* completion both make it stale (mark_network_observation_stale,
\* same_collection_evidence).
NetworkFreshIsCurrent ==
  slot[Network].obs = "fresh" =>
    /\ slot[Network].retained # {}
    /\ \A k \in slot[Network].retained : k.snapshot = snapshot

\* From the first source transition on, the last published observable is that
\* of the cache as it stands: every critical section that changes the slots,
\* the source or the inventory also rebuilds the runtime map and assigns the
\* revision.
PublicationCurrent ==
  generation > 0 => published = Observable(mode, snapshot, slot)

\* Some task is still going to settle slot s in this generation.
Pending(s) ==
  \E c \in Copies :
    \/ /\ task[<<s, c>>].pc \in {"spawned", "await", "apply"}
       /\ task[<<s, c>>].generation = generation
    \/ /\ task[<<s, c>>].pc = "claimed"
       /\ task[<<s, c>>].claimedIn = generation

\* While Docker is the source, a slot published as collecting has a task that
\* the cache will accept: no order of claims, generation reads, source flips
\* and late completions loses it.
NoLostClaim ==
  mode = "docker" => \A s \in Collecting(slot) : Pending(s)

\* Within one source generation no outcome drops what a slot retained: a
\* failure, a timeout or an occupied guard leaves the last collection in place.
RetentionWithinGeneration ==
  [][generation' = generation =>
       \A s \in Slots : slot[s].retained # {} => slot'[s].retained # {}]_vars

\* Under Docker a slot does not stay collecting: its task starts, is answered,
\* refused or timed out, and applies its outcome, or the source flips.
CollectingEnds ==
  \A s \in Slots :
    (mode = "docker" /\ slot[s].obs = "collecting") ~> (slot[s].obs # "collecting")

-----------------------------------------------------------------------------
(* What the scheduling document says, and the code does not ensure *)

\* "Docker->mock->Docker can never accept a completion from the earlier live
\* generation": what a slot retains was claimed in this generation.
RetainedFromThisGeneration ==
  \A s \in Slots : \A k \in slot[s].retained : k.claimedIn = generation

=============================================================================
