----------------------- MODULE ProviderSchedulerProofs -----------------------
(***************************************************************************)
(* Proofs about ProviderScheduler for every set of slots, every order,     *)
(* every interval, every budget and every bound.                           *)
(***************************************************************************)
EXTENDS ProviderScheduler, FiniteSetTheorems, FunctionTheorems, TLAPS

-----------------------------------------------------------------------------
(* Type correctness *)

\* The initial snapshot of an idle record is a snapshot.
LEMMA FirstSnapshotType == FirstSnapshot \in MockSnapshots /\ FirstSnapshot \in Snapshots
<1>1. \E snap : snap \in MockSnapshots
  <2>1. PICK at \in MockStamps : TRUE
    BY InputAssumption
  <2>2. [inv |-> MockInventory, at |-> at] \in MockSnapshots
    BY <2>1 DEF MockSnapshots
  <2>3. QED
    BY <2>2
<1>2. FirstSnapshot \in MockSnapshots
  BY <1>1 DEF FirstSnapshot
<1>3. QED
  BY <1>2, InputAssumption DEF MockSnapshots, Snapshots

\* Idle records have the type of a record.
LEMMA IdleTypes == IdleTask \in TaskStates /\ IdleTail \in TailStates
BY FirstSnapshotType DEF IdleTask, IdleTail, TaskStates, TailStates, Outcomes

\* The slots that a claim takes are slots.
LEMMA DueSlotsType == DueSlots(slot) \subseteq Slots
BY DEF DueSlots, Eligible

\* Claiming keeps the type of the slot states.
LEMMA ClaimedType ==
  ASSUME slot \in [Slots -> SlotStates], NEW due
  PROVE  Claimed(slot, due) \in [Slots -> SlotStates]
BY DEF Claimed, SlotStates, Observations

\* Placing well-typed records keeps the type of the task table.
LEMMA PlacedType ==
  ASSUME task \in [Tasks -> TaskStates], NEW new \in TaskStates, NEW place
  PROVE  Placed(place, new) \in [Tasks -> TaskStates]
BY DEF Placed

\* What apply_provider_slot_outcome writes is a slot state.
LEMMA AppliedSlotType ==
  ASSUME TypeOK, NEW s \in Slots, NEW t \in TaskStates
  PROVE  AppliedSlot(s, t) \in SlotStates
<1>1. slot[s] \in SlotStates /\ Interval[s] \in Nat
  BY PolicyAssumption DEF TypeOK
<1>2. t.outcome \in {"collected", "in_flight", "failed", "timed_out"}
  BY DEF TaskStates, Outcomes
<1>3. {[snapshot |-> t.snapshot, claimedIn |-> t.claimedIn]} \in SUBSET Collections
  BY DEF TaskStates, Collections
<1>4. CASE t.outcome = "collected"
  BY <1>1, <1>3, <1>4 DEF AppliedSlot, SlotStates, Observations
<1>5. CASE t.outcome = "in_flight"
  BY <1>1, <1>5 DEF AppliedSlot, SlotStates, Observations
<1>6. CASE t.outcome = "failed"
  BY <1>1, <1>6 DEF AppliedSlot, SlotStates, Observations
<1>7. CASE t.outcome = "timed_out"
  BY <1>1, <1>7 DEF AppliedSlot, SlotStates, Observations
<1>8. QED
  BY <1>2, <1>4, <1>5, <1>6, <1>7

\* A source reset has the type of the slot states.
LEMMA ResetType == SourceResetSlots \in [Slots -> SlotStates]
BY DEF SourceResetSlots, DefaultSlot, SlotStates, Observations

\* A publication keeps the slot states well-typed.
LEMMA PublishType ==
  ASSUME TypeOK, NEW m \in Modes, NEW snap \in Snapshots, Publish(m, snap)
  PROVE  TypeOK'
<1>1. MarkNetworkStale(slot) \in [Slots -> SlotStates]
  BY SlotsAssumption DEF MarkNetworkStale, TypeOK, SlotStates, Observations
<1>2. slot' \in [Slots -> SlotStates]
  BY <1>1, ResetType DEF Publish, TypeOK
<1>3. QED
  BY <1>2 DEF Publish, TypeOK

\* Every step keeps the types.
LEMMA TypeStep == TypeOK /\ [Next]_vars => TypeOK'
<1> SUFFICES ASSUME TypeOK, [Next]_vars PROVE TypeOK'
  OBVIOUS
<1>1. CASE PublishDocker
  <2>1. PICK snap \in DockerSnapshots : Publish("docker", snap)
    BY <1>1 DEF PublishDocker
  <2>2. snap \in Snapshots /\ "docker" \in Modes
    BY DEF DockerSnapshots, Snapshots, Modes
  <2>3. QED
    BY <2>1, <2>2, PublishType
<1>2. CASE PublishMock
  <2>1. PICK snap \in MockSnapshots : Publish("mock", snap)
    BY <1>2 DEF PublishMock
  <2>2. snap \in Snapshots /\ "mock" \in Modes
    BY InputAssumption DEF MockSnapshots, Snapshots, Modes
  <2>3. QED
    BY <2>1, <2>2, PublishType
<1>3. CASE LoopClaim
  <2> DEFINE new == [IdleTask EXCEPT !.pc = "spawned", !.snapshot = snapshot,
                       !.generation = generation, !.claimedIn = generation]
  <2>1. new \in TaskStates
    BY IdleTypes DEF TypeOK, TaskStates
  <2>2. PICK place : task' = Placed(place, new)
    BY <1>3 DEF LoopClaim
  <2>3. task' \in [Tasks -> TaskStates]
    BY <2>1, <2>2, PlacedType DEF TypeOK
  <2>4. slot' \in [Slots -> SlotStates]
    BY <1>3, ClaimedType DEF LoopClaim, TypeOK
  <2>5. QED
    BY <1>3, <2>3, <2>4 DEF LoopClaim, TypeOK
<1>4. CASE Tick
  <2>1. slot' \in [Slots -> SlotStates]
    <3>1. slot' = [s \in Slots |->
                    [slot[s] EXCEPT !.wait = IF @ > 0 THEN @ - 1 ELSE 0]]
      BY <1>4 DEF Tick
    <3>2. ASSUME NEW s \in Slots
          PROVE  [slot[s] EXCEPT !.wait = IF @ > 0 THEN @ - 1 ELSE 0] \in SlotStates
      BY DEF TypeOK, SlotStates
    <3>3. QED
      BY <3>1, <3>2
  <2>2. QED
    BY <1>4, <2>1 DEF Tick, TypeOK
<1>5. ASSUME NEW s \in Slots, NEW c \in Copies, TaskStep(s, c)
      PROVE  TypeOK'
  <2> <<s, c>> \in Tasks /\ task[<<s, c>>] \in TaskStates
    BY DEF Tasks, TypeOK
  <2>1. CASE StartInFlight(s, c)
    BY <2>1 DEF StartInFlight, TypeOK, cacheVars, TaskStates, Outcomes
  <2>2. CASE StartWorker(s, c)
    BY <2>2 DEF StartWorker, TypeOK, cacheVars, TaskStates
  <2>3. CASE AwaitTimesOut(s, c)
    BY <2>3 DEF AwaitTimesOut, TypeOK, cacheVars, TaskStates, Outcomes
  <2>4. CASE Discard(s, c)
    BY <2>4, IdleTypes DEF Discard, TypeOK, cacheVars
  <2>5. CASE Apply(s, c)
    <3>1. slot' \in [Slots -> SlotStates]
      BY <2>5, AppliedSlotType DEF Apply, TypeOK
    <3>2. task' \in [Tasks -> TaskStates]
      BY <2>5, IdleTypes DEF Apply, TypeOK
    <3>3. tail' \in [Tails -> TailStates]
      BY <2>5 DEF Apply, TypeOK, TailStates
    <3>4. QED
      BY <2>5, <3>1, <3>2, <3>3 DEF Apply, TypeOK
  <2>6. QED
    BY <1>5, <2>1, <2>2, <2>3, <2>4, <2>5 DEF TaskStep
<1>6. ASSUME NEW s \in Slots, NEW c \in Copies, WorkerReturns(s, c)
      PROVE  TypeOK'
  <2> <<s, c>> \in Tasks /\ task[<<s, c>>] \in TaskStates
    BY DEF Tasks, TypeOK
  <2>1. task' \in [Tasks -> TaskStates]
    BY <1>6 DEF WorkerReturns, TypeOK, TaskStates, Outcomes
  <2>2. QED
    BY <1>6, <2>1 DEF WorkerReturns, TypeOK, cacheVars
<1>7. ASSUME NEW k \in Tails, Reclaim(k)
      PROVE  TypeOK'
  <2> DEFINE new == [IdleTask EXCEPT !.pc = "claimed", !.snapshot = tail[k].snapshot,
                       !.claimedIn = generation, !.by = k]
  <2>1. new \in TaskStates
    BY IdleTypes, BoundAssumption DEF TypeOK, TaskStates, TailStates
  <2>2. PICK place : task' = Placed(place, new)
    BY <1>7 DEF Reclaim
  <2>3. task' \in [Tasks -> TaskStates]
    BY <2>1, <2>2, PlacedType DEF TypeOK
  <2>4. slot' \in [Slots -> SlotStates]
    BY <1>7, ClaimedType DEF Reclaim, TypeOK
  <2>5. tail' \in [Tails -> TailStates]
    BY <1>7 DEF Reclaim, TypeOK, TailStates
  <2>6. QED
    BY <1>7, <2>3, <2>4, <2>5 DEF Reclaim, TypeOK
<1>8. ASSUME NEW k \in Tails, ReadGeneration(k)
      PROVE  TypeOK'
  <2>1. task' \in [Tasks -> TaskStates]
    BY <1>8 DEF ReadGeneration, TypeOK, TaskStates
  <2>2. tail' \in [Tails -> TailStates]
    BY <1>8, IdleTypes DEF ReadGeneration, TypeOK
  <2>3. QED
    BY <1>8, <2>1, <2>2 DEF ReadGeneration, TypeOK, cacheVars
<1>9. CASE UNCHANGED vars
  BY <1>9 DEF vars, TypeOK
<1>10. QED
  BY <1>1, <1>2, <1>3, <1>4, <1>5, <1>6, <1>7, <1>8, <1>9 DEF Next, TailStep

\* Every reachable state of the scheduler is well-typed, whatever the slots,
\* the policy and the bounds are.
THEOREM TypeCorrect == Spec => []TypeOK
<1>1. Init => TypeOK
  <2> SUFFICES ASSUME Init PROVE TypeOK
    OBVIOUS
  <2>1. snapshot \in Snapshots
    BY InputAssumption DEF Init, MockSnapshots, Snapshots
  <2>2. QED
    BY <2>1, ResetType, IdleTypes DEF Init, TypeOK, Modes
<1>2. QED
  BY <1>1, TypeStep, PTL DEF Spec

-----------------------------------------------------------------------------
(* The budget *)

\* Of a finite set ordered by an injective rank, at most r elements have fewer
\* than r elements before them.
LEMMA FirstFew ==
  ASSUME NEW E, IsFiniteSet(E), NEW r \in Nat, NEW rank \in [E -> Nat],
         \A s, t \in E : rank[s] = rank[t] => s = t
  PROVE  LET F == {s \in E : Cardinality({t \in E : rank[t] < rank[s]}) < r}
         IN  IsFiniteSet(F) /\ Cardinality(F) <= r
<1> DEFINE Before(s) == {t \in E : rank[t] < rank[s]}
           F == {s \in E : Cardinality(Before(s)) < r}
           f == [s \in F |-> Cardinality(Before(s))]
<1>1. \A s \in E : IsFiniteSet(Before(s)) /\ Cardinality(Before(s)) \in Nat
  <2> SUFFICES ASSUME NEW s \in E
               PROVE  IsFiniteSet(Before(s)) /\ Cardinality(Before(s)) \in Nat
    OBVIOUS
  <2>1. Before(s) \in SUBSET E
    OBVIOUS
  <2>2. IsFiniteSet(Before(s))
    BY <2>1, FS_Subset
  <2>3. QED
    BY <2>2, FS_CardinalityType
<1>2. ASSUME NEW s \in E, NEW t \in E, rank[s] < rank[t]
      PROVE  Cardinality(Before(s)) # Cardinality(Before(t))
  <2>1. Before(s) \in SUBSET Before(t)
    BY <1>2
  <2>2. s \in Before(t) /\ s \notin Before(s)
    BY <1>2
  <2>3. Before(s) # Before(t)
    BY <2>2
  <2>4. IsFiniteSet(Before(t))
    BY <1>1
  <2> HIDE DEF Before
  <2>5. Cardinality(Before(t)) = Cardinality(Before(s)) => Before(t) = Before(s)
    BY <2>1, <2>4, FS_Subset
  <2>6. QED
    BY <2>3, <2>5
<1>3. f \in [F -> 0..(r - 1)]
  <2> SUFFICES ASSUME NEW s \in F PROVE Cardinality(Before(s)) \in 0..(r - 1)
    OBVIOUS
  <2>1. Cardinality(Before(s)) \in Nat /\ Cardinality(Before(s)) < r
    BY <1>1
  <2> HIDE DEF Before, F
  <2>2. QED
    BY <2>1
<1>4. \A s, t \in F : f[s] = f[t] => s = t
  <2> SUFFICES ASSUME NEW s \in F, NEW t \in F, s # t
               PROVE  Cardinality(Before(s)) # Cardinality(Before(t))
    OBVIOUS
  <2>1. s \in E /\ t \in E
    OBVIOUS
  <2>2. rank[s] \in Nat /\ rank[t] \in Nat /\ rank[s] # rank[t]
    BY <2>1
  <2> HIDE DEF Before, F
  <2>3. rank[s] < rank[t] \/ rank[t] < rank[s]
    BY <2>2
  <2>4. QED
    BY <1>2, <2>1, <2>3
<1> HIDE DEF Before, F, f
<1>5. f \in Injection(F, 0..(r - 1))
  BY <1>3, <1>4 DEF Injection, IsInjective
<1>6. IsFiniteSet(0..(r - 1)) /\ Cardinality(0..(r - 1)) = r
  BY FS_Interval
<1>7. IsFiniteSet(F) /\ Cardinality(F) <= r
  BY <1>5, <1>6, FS_Injection
<1>8. QED
  BY <1>7 DEF F, Before

\* A claim takes at most the slots the budget has left.
LEMMA DueSlotsBound ==
  ASSUME TypeOK
  PROVE  /\ Remaining(slot) \in Nat
         /\ IsFiniteSet(DueSlots(slot))
         /\ Cardinality(DueSlots(slot)) <= Remaining(slot)
<1> DEFINE E == Eligible(slot)
           rank == [s \in E |-> Rank[s]]
<1>1. E \in SUBSET Slots
  BY DEF Eligible
<1>2. IsFiniteSet(E)
  BY <1>1, SlotsAssumption, FS_Subset
<1>3. rank \in [E -> Nat] /\ \A s, t \in E : rank[s] = rank[t] => s = t
  BY <1>1, PolicyAssumption
<1>4. Remaining(slot) \in Nat
  <2>1. ActiveWorkers \in Nat
    <3>1. {s \in Slots : guard[s]} \in SUBSET Slots
      OBVIOUS
    <3>2. QED
      BY <3>1, SlotsAssumption, FS_Subset, FS_CardinalityType DEF ActiveWorkers
  <2>2. Cardinality(Collecting(slot)) \in Nat
    <3>1. Collecting(slot) \in SUBSET Slots
      BY DEF Collecting
    <3>2. QED
      BY <3>1, SlotsAssumption, FS_Subset, FS_CardinalityType
  <2>3. QED
    BY <2>1, <2>2, PolicyAssumption DEF Remaining, Larger
<1> DEFINE F == {s \in E : Cardinality({t \in E : rank[t] < rank[s]}) < Remaining(slot)}
<1>5. DueSlots(slot) = F
  <2>1. ASSUME NEW s \in E
        PROVE  {t \in E : Rank[t] < Rank[s]} = {t \in E : rank[t] < rank[s]}
    OBVIOUS
  <2>2. QED
    BY <2>1 DEF DueSlots
<1>6. IsFiniteSet(F) /\ Cardinality(F) <= Remaining(slot)
  <2> HIDE DEF E, rank
  <2>1. QED
    BY <1>2, <1>3, <1>4, FirstFew
<1>7. QED
  BY <1>4, <1>5, <1>6

\* Fewer collecting slots keep the bound.
LEMMA FewerCollecting ==
  ASSUME CollectingBound, NEW sl, Collecting(sl) \subseteq Collecting(slot)
  PROVE  Cardinality(Collecting(sl)) <= MaxConcurrent
<1>1. IsFiniteSet(Collecting(slot))
  <2>1. Collecting(slot) \in SUBSET Slots
    BY DEF Collecting
  <2>2. QED
    BY <2>1, SlotsAssumption, FS_Subset
<1>2. /\ Cardinality(Collecting(sl)) <= Cardinality(Collecting(slot))
      /\ Cardinality(Collecting(sl)) \in Nat
      /\ Cardinality(Collecting(slot)) \in Nat
  BY <1>1, FS_Subset, FS_CardinalityType
<1>3. QED
  BY <1>2, PolicyAssumption DEF CollectingBound

\* A claim keeps the bound.
LEMMA ClaimKeepsBound ==
  ASSUME TypeOK, CollectingBound
  PROVE  Cardinality(Collecting(Claimed(slot, DueSlots(slot)))) <= MaxConcurrent
<1> DEFINE C == Collecting(slot)
           D == DueSlots(slot)
<1>1. Collecting(Claimed(slot, D)) = C \cup D
  BY DueSlotsType DEF Collecting, Claimed, TypeOK, SlotStates
<1>2. IsFiniteSet(C) /\ Cardinality(C) \in Nat
  <2>1. C \in SUBSET Slots
    BY DEF Collecting
  <2>2. QED
    BY <2>1, SlotsAssumption, FS_Subset, FS_CardinalityType
<1>3. /\ IsFiniteSet(D) /\ Cardinality(D) \in Nat
      /\ Remaining(slot) \in Nat /\ Cardinality(D) <= Remaining(slot)
  BY DueSlotsBound, FS_CardinalityType
<1>4. Cardinality(C) + Remaining(slot) <= MaxConcurrent
  <2>1. ActiveWorkers \in Nat
    <3>1. {s \in Slots : guard[s]} \in SUBSET Slots
      OBVIOUS
    <3>2. QED
      BY <3>1, SlotsAssumption, FS_Subset, FS_CardinalityType DEF ActiveWorkers
  <2> HIDE DEF D
  <2>2. QED
    BY <1>2, <2>1, PolicyAssumption DEF Remaining, Larger, CollectingBound
<1> HIDE DEF C, D
<1>5. /\ Cardinality(C \cup D) = Cardinality(C) + Cardinality(D) - Cardinality(C \cap D)
      /\ Cardinality(C \cap D) \in Nat
  BY <1>2, <1>3, FS_Union, FS_Intersection, FS_CardinalityType
<1>6. Cardinality(C \cup D) <= MaxConcurrent
  BY <1>2, <1>3, <1>4, <1>5, PolicyAssumption
<1>7. QED
  BY <1>1, <1>6 DEF C, D

\* Every step keeps the published budget.
LEMMA BudgetStep == TypeOK /\ CollectingBound /\ [Next]_vars => CollectingBound'
<1> SUFFICES ASSUME TypeOK, CollectingBound, [Next]_vars
             PROVE  Cardinality(Collecting(slot')) <= MaxConcurrent
  BY DEF CollectingBound, Collecting
<1>1. ASSUME NEW m, NEW snap, Publish(m, snap)
      PROVE  Collecting(slot') \subseteq Collecting(slot)
  BY <1>1, SlotsAssumption
     DEF Publish, Collecting, MarkNetworkStale, SourceResetSlots, DefaultSlot,
         TypeOK, SlotStates
<1>2. CASE LoopClaim
  BY <1>2, ClaimKeepsBound DEF LoopClaim
<1>3. CASE Tick
  <2>1. Collecting(slot') \subseteq Collecting(slot)
    BY <1>3 DEF Tick, Collecting, TypeOK, SlotStates
  <2>2. QED
    BY <2>1, FewerCollecting
<1>4. ASSUME NEW s \in Slots, NEW c \in Copies, Apply(s, c)
      PROVE  Collecting(slot') \subseteq Collecting(slot)
  <2>1. task[<<s, c>>].outcome \in Outcomes
    BY DEF TypeOK, TaskStates, Tasks
  <2>2. AppliedSlot(s, task[<<s, c>>]).obs # "collecting"
    BY <2>1 DEF AppliedSlot, Outcomes, TypeOK, SlotStates
  <2>3. QED
    BY <1>4, <2>2 DEF Apply, Collecting, TypeOK
<1>5. ASSUME NEW k \in Tails, Reclaim(k)
      PROVE  Cardinality(Collecting(slot')) <= MaxConcurrent
  BY <1>5, ClaimKeepsBound DEF Reclaim
<1>6. CASE UNCHANGED slot
  BY <1>6 DEF CollectingBound
<1>7. QED
  BY <1>1, <1>2, <1>3, <1>4, <1>5, <1>6, FewerCollecting
     DEF Next, TaskStep, TailStep, PublishDocker, PublishMock, StartInFlight,
         StartWorker, AwaitTimesOut, Discard, WorkerReturns, ReadGeneration,
         cacheVars, vars

\* Whatever the slots, their order and the interleaving of claims, at most
\* MAX_CONCURRENT_PROVIDER_SLOTS slots are published as collecting.
THEOREM BudgetHolds == Spec => []CollectingBound
<1>1. Init => CollectingBound
  <2> SUFFICES ASSUME Init PROVE CollectingBound
    OBVIOUS
  <2>1. Collecting(slot) = {}
    BY DEF Init, Collecting, SourceResetSlots, DefaultSlot
  <2>2. QED
    BY <2>1, FS_EmptySet, PolicyAssumption DEF CollectingBound
<1>2. QED
  BY <1>1, BudgetStep, TypeCorrect, PTL DEF Spec

-----------------------------------------------------------------------------
(* Single flight *)

\* Every step keeps a guard held exactly by the one worker of its slot.
LEMMA SingleFlightStep == TypeOK /\ SingleFlight /\ [Next]_vars => SingleFlight'
<1> SUFFICES ASSUME TypeOK, SingleFlight, [Next]_vars
             PROVE  SingleFlight'
  OBVIOUS
<1>1. ASSUME NEW s \in Slots, NEW c \in Copies, StartWorker(s, c)
      PROVE  SingleFlight'
  BY <1>1 DEF StartWorker, SingleFlight, TypeOK
<1>2. ASSUME NEW s \in Slots, NEW c \in Copies, WorkerReturns(s, c)
      PROVE  SingleFlight'
  BY <1>2 DEF WorkerReturns, SingleFlight, TypeOK
<1>3. CASE UNCHANGED <<guard, worker>>
  BY <1>3 DEF SingleFlight
<1>4. QED
  BY <1>1, <1>2, <1>3
     DEF Next, TaskStep, TailStep, PublishDocker, PublishMock, Publish, LoopClaim,
         Tick, StartInFlight, AwaitTimesOut, Discard, Apply, Reclaim,
         ReadGeneration, vars

\* Two blocking workers of the same slot never overlap, however long a timed
\* out one takes to unwind, and a guard is never left held or dropped early.
THEOREM SingleFlightHolds == Spec => []SingleFlight
<1>1. Init => SingleFlight
  BY DEF Init, SingleFlight
<1>2. QED
  BY <1>1, SingleFlightStep, TypeCorrect, PTL DEF Spec

-----------------------------------------------------------------------------
(* Source isolation and freshness *)

\* What the slots retain and show, against the source and the snapshot.
SlotsInv == MockHoldsNoHostEvidence /\ NetworkFreshIsCurrent

\* A claim changes a slot only to collecting and leaves what it retains.
LEMMA ClaimKeepsSlotsInv ==
  ASSUME TypeOK, SlotsInv, mode' = mode, snapshot' = snapshot,
         NEW due, slot' = Claimed(slot, due)
  PROVE  SlotsInv'
BY SlotsAssumption
   DEF SlotsInv, MockHoldsNoHostEvidence, NetworkFreshIsCurrent, Claimed, TypeOK,
       SlotStates

\* Every step keeps mock publications free of host evidence and network
\* evidence fresh only against the published snapshot.
LEMMA SlotsStep == TypeOK /\ SlotsInv /\ [Next]_vars => SlotsInv'
<1> SUFFICES ASSUME TypeOK, SlotsInv, [Next]_vars
             PROVE  SlotsInv'
  OBVIOUS
<1>1. ASSUME NEW m, NEW snap, Publish(m, snap)
      PROVE  SlotsInv'
  <2>1. CASE m # mode
    BY <1>1, <2>1, SlotsAssumption
       DEF Publish, SlotsInv, MockHoldsNoHostEvidence, NetworkFreshIsCurrent,
           SourceResetSlots, DefaultSlot
  <2>2. CASE m = mode /\ snap # snapshot
    <3>1. slot' = MarkNetworkStale(slot)
      BY <1>1, <2>2 DEF Publish
    <3>2. slot'[Network].obs # "fresh"
      BY <3>1, SlotsAssumption DEF MarkNetworkStale, TypeOK, SlotStates
    <3>3. \A s \in Slots : slot'[s].retained = slot[s].retained
      BY <3>1, SlotsAssumption DEF MarkNetworkStale, TypeOK, SlotStates
    <3>4. QED
      BY <1>1, <2>2, <3>2, <3>3
         DEF Publish, SlotsInv, MockHoldsNoHostEvidence, NetworkFreshIsCurrent
  <2>3. CASE m = mode /\ snap = snapshot
    BY <1>1, <2>3 DEF Publish, SlotsInv, MockHoldsNoHostEvidence, NetworkFreshIsCurrent
  <2>4. QED
    BY <2>1, <2>2, <2>3
<1>2. CASE LoopClaim
  BY <1>2, ClaimKeepsSlotsInv DEF LoopClaim
<1>3. CASE Tick
  <2>1. \A s \in Slots : /\ slot'[s].obs = slot[s].obs
                         /\ slot'[s].retained = slot[s].retained
    BY <1>3 DEF Tick, TypeOK, SlotStates
  <2>2. QED
    BY <1>3, <2>1, SlotsAssumption
       DEF Tick, SlotsInv, MockHoldsNoHostEvidence, NetworkFreshIsCurrent
<1>4. ASSUME NEW s \in Slots, NEW c \in Copies, Apply(s, c)
      PROVE  SlotsInv'
  <2> DEFINE t == task[<<s, c>>]
  <2>1. /\ mode = "docker" /\ mode' = mode /\ snapshot' = snapshot
        /\ slot' = [slot EXCEPT ![s] = AppliedSlot(s, t)]
    BY <1>4 DEF Apply, Accepts
  <2>2. t.outcome \in Outcomes
    BY DEF TypeOK, TaskStates, Tasks
  <2>3. AppliedSlot(s, t).obs = "fresh" =>
          /\ AppliedSlot(s, t).retained # {}
          /\ \A k \in AppliedSlot(s, t).retained : k.snapshot = snapshot
    <3> HIDE DEF t
    <3>1. CASE t.outcome = "collected"
      <4> DEFINE k0 == [snapshot |-> t.snapshot, claimedIn |-> t.claimedIn]
      <4>1. AppliedSlot(s, t) =
              [obs |-> IF snapshot = t.snapshot THEN "fresh" ELSE "degraded",
               retained |-> {k0}, wait |-> Interval[s]]
        BY <3>1 DEF AppliedSlot
      <4>2. k0.snapshot = t.snapshot
        OBVIOUS
      <4> HIDE DEF k0
      <4>3. /\ AppliedSlot(s, t).retained = {k0}
            /\ AppliedSlot(s, t).obs = IF snapshot = t.snapshot THEN "fresh" ELSE "degraded"
        BY <4>1
      <4>4. QED
        BY <4>2, <4>3
    <3>2. CASE t.outcome = "in_flight"
      BY <3>2 DEF AppliedSlot, TypeOK, SlotStates
    <3>3. CASE t.outcome = "failed"
      BY <3>3 DEF AppliedSlot, TypeOK, SlotStates
    <3>4. CASE t.outcome = "timed_out"
      BY <3>4 DEF AppliedSlot, TypeOK, SlotStates
    <3>5. QED
      BY <2>2, <3>1, <3>2, <3>3, <3>4 DEF Outcomes
  <2> HIDE DEF t
  <2>4. slot'[Network] = IF s = Network THEN AppliedSlot(s, t) ELSE slot[Network]
    BY <2>1, SlotsAssumption DEF TypeOK
  <2>5. QED
    BY <2>1, <2>3, <2>4 DEF SlotsInv, MockHoldsNoHostEvidence, NetworkFreshIsCurrent
<1>5. ASSUME NEW k \in Tails, Reclaim(k)
      PROVE  SlotsInv'
  BY <1>5, ClaimKeepsSlotsInv DEF Reclaim
<1>6. CASE UNCHANGED <<mode, snapshot, slot>>
  BY <1>6 DEF SlotsInv, MockHoldsNoHostEvidence, NetworkFreshIsCurrent
<1>7. QED
  BY <1>1, <1>2, <1>3, <1>4, <1>5, <1>6
     DEF Next, TaskStep, TailStep, PublishDocker, PublishMock, StartInFlight,
         StartWorker, AwaitTimesOut, Discard, WorkerReturns, ReadGeneration,
         cacheVars, vars

\* A mock publication never carries a host observation, and the network slot
\* is fresh only against the published snapshot.
LEMMA SlotsInvHolds == Spec => []SlotsInv
<1>1. Init => SlotsInv
  BY SlotsAssumption
     DEF Init, SlotsInv, MockHoldsNoHostEvidence, NetworkFreshIsCurrent,
         SourceResetSlots, DefaultSlot
<1>2. QED
  BY <1>1, SlotsStep, TypeCorrect, PTL DEF Spec

\* No interleaving of source flips, late workers and tasks that claim after a
\* flip puts a host observation into a mock publication.
THEOREM MockIsolation == Spec => []MockHoldsNoHostEvidence
<1>1. SlotsInv => MockHoldsNoHostEvidence
  BY DEF SlotsInv
<1>2. QED
  BY <1>1, SlotsInvHolds, PTL

\* Network evidence published as fresh was collected against the published
\* snapshot.
THEOREM NetworkFreshness == Spec => []NetworkFreshIsCurrent
<1>1. SlotsInv => NetworkFreshIsCurrent
  BY DEF SlotsInv
<1>2. QED
  BY <1>1, SlotsInvHolds, PTL

-----------------------------------------------------------------------------
(* Publication *)

\* The countdown of a slot is not part of what is published.
LEMMA ObservableIgnoresWait ==
  ASSUME NEW m, NEW snap, NEW sl, NEW sm,
         \A s \in Slots : sl[s].obs = sm[s].obs /\ sl[s].retained = sm[s].retained
  PROVE  Observable(m, snap, sl) = Observable(m, snap, sm)
<1>1. \A s \in Slots : ProviderState(sl, s) = ProviderState(sm, s)
  BY DEF ProviderState
<1>2. QED
  BY <1>1 DEF Observable

\* A claim that took nothing leaves the slots as they were.
LEMMA EmptyClaim ==
  ASSUME TypeOK
  PROVE  Claimed(slot, {}) = slot
BY DEF Claimed, TypeOK

\* After every step the last published observable is that of the cache.
LEMMA PublicationStep ==
  TypeOK /\ PublicationCurrent /\ [Next]_vars => PublicationCurrent'
<1> SUFFICES ASSUME TypeOK, PublicationCurrent, [Next]_vars, generation' > 0
             PROVE  published' = Observable(mode', snapshot', slot')
  BY DEF PublicationCurrent, Observable, ProviderState
<1>1. ASSUME NEW m, NEW snap, Publish(m, snap)
      PROVE  published' = Observable(mode', snapshot', slot')
  BY <1>1 DEF Publish
<1>2. CASE LoopClaim
  BY <1>2, EmptyClaim DEF LoopClaim, Republished, PublicationCurrent
<1>3. CASE Tick
  <2>1. \A s \in Slots : /\ slot'[s].obs = slot[s].obs
                         /\ slot'[s].retained = slot[s].retained
    BY <1>3 DEF Tick, TypeOK, SlotStates
  <2>2. Observable(mode, snapshot, slot') = Observable(mode, snapshot, slot)
    BY <2>1, ObservableIgnoresWait
  <2>3. QED
    BY <1>3, <2>2 DEF Tick, PublicationCurrent
<1>4. ASSUME NEW s \in Slots, NEW c \in Copies, Apply(s, c)
      PROVE  published' = Observable(mode', snapshot', slot')
  BY <1>4 DEF Apply
<1>5. ASSUME NEW k \in Tails, Reclaim(k)
      PROVE  published' = Observable(mode', snapshot', slot')
  BY <1>5, EmptyClaim DEF Reclaim, Republished, PublicationCurrent
<1>6. CASE UNCHANGED cacheVars
  BY <1>6 DEF cacheVars, PublicationCurrent
<1>7. QED
  BY <1>1, <1>2, <1>3, <1>4, <1>5, <1>6
     DEF Next, TaskStep, TailStep, PublishDocker, PublishMock, StartInFlight,
         StartWorker, AwaitTimesOut, Discard, WorkerReturns, ReadGeneration,
         cacheVars, vars

\* Every critical section that changes the model also publishes it.
THEOREM PublicationHolds == Spec => []PublicationCurrent
<1>1. Init => PublicationCurrent
  BY SMT DEF Init, PublicationCurrent
<1>2. QED
  BY <1>1, PublicationStep, TypeCorrect, PTL DEF Spec

-----------------------------------------------------------------------------
(* No claim is lost *)

\* A placement gives each slot it covers a new record.
LEMMA PlacementGives ==
  ASSUME NEW due \in SUBSET Slots, NEW place \in Placements(due), NEW new,
         NEW s \in due
  PROVE  \E d \in Copies : Placed(place, new)[<<s, d>>] = new
<1>1. <<s, place[s]>> \in Tasks /\ place[s] \in Copies /\ s \in DOMAIN place
  BY DEF Placements, Tasks
<1>2. Placed(place, new)[<<s, place[s]>>] = new
  BY <1>1 DEF Placed
<1>3. QED
  BY <1>1, <1>2

\* A placement overwrites no record in use.
LEMMA PlacementKeeps ==
  ASSUME NEW due \in SUBSET Slots, NEW place \in Placements(due), NEW new,
         NEW s \in Slots, NEW c \in Copies, task[<<s, c>>].pc # "idle"
  PROVE  Placed(place, new)[<<s, c>>] = task[<<s, c>>]
<1>1. place \in [due -> Copies] /\ \A x \in due : IsFree(x, place[x])
  BY DEF Placements
<1>2. ~(s \in DOMAIN place /\ c = place[s])
  BY <1>1 DEF IsFree
<1>3. QED
  BY <1>2 DEF Placed, Tasks

\* A claim gives every slot it takes a record that the cache will accept.
LEMMA ClaimIsPending ==
  ASSUME TypeOK, NoLostClaim, NEW due \in SUBSET Slots, NEW place \in Placements(due),
         NEW new, slot' = Claimed(slot, due), task' = Placed(place, new),
         mode' = mode, generation' = generation,
         \/ new.pc = "spawned" /\ new.generation = generation
         \/ new.pc = "claimed" /\ new.claimedIn = generation
  PROVE  NoLostClaim'
<1> SUFFICES ASSUME mode = "docker", NEW s \in Collecting(slot') PROVE Pending(s)'
  BY DEF NoLostClaim, Collecting
<1>1. s \in Slots
  BY DEF Collecting
<1>2. CASE s \in due
  <2>1. PICK d \in Copies : task'[<<s, d>>] = new
    BY <1>2, PlacementGives
  <2>2. QED
    BY <2>1 DEF Pending
<1>3. CASE s \notin due
  <2>1. s \in Collecting(slot)
    BY <1>1, <1>3 DEF Collecting, Claimed
  <2>2. PICK c \in Copies :
          \/ /\ task[<<s, c>>].pc \in {"spawned", "await", "apply"}
             /\ task[<<s, c>>].generation = generation
          \/ /\ task[<<s, c>>].pc = "claimed"
             /\ task[<<s, c>>].claimedIn = generation
    BY <2>1 DEF NoLostClaim, Pending
  <2>3. task'[<<s, c>>] = task[<<s, c>>]
    BY <1>1, <2>2, PlacementKeeps
  <2>4. QED
    BY <2>2, <2>3 DEF Pending
<1>4. QED
  BY <1>2, <1>3

\* A step that keeps the source and adds no collecting slot loses no claim if
\* the record of each collecting slot stays acceptable.
LEMMA PendingKept ==
  ASSUME TypeOK, NoLostClaim, mode' = mode, generation' = generation,
         Collecting(slot') \subseteq Collecting(slot),
         ASSUME NEW s \in Collecting(slot'), NEW c \in Copies,
                \/ /\ task[<<s, c>>].pc \in {"spawned", "await", "apply"}
                   /\ task[<<s, c>>].generation = generation
                \/ /\ task[<<s, c>>].pc = "claimed"
                   /\ task[<<s, c>>].claimedIn = generation,
                mode = "docker"
         PROVE  \/ /\ task'[<<s, c>>].pc \in {"spawned", "await", "apply"}
                   /\ task'[<<s, c>>].generation = generation
                \/ /\ task'[<<s, c>>].pc = "claimed"
                   /\ task'[<<s, c>>].claimedIn = generation
  PROVE  NoLostClaim'
<1> SUFFICES ASSUME mode = "docker", NEW s \in Collecting(slot') PROVE Pending(s)'
  BY DEF NoLostClaim, Collecting
<1>1. PICK c \in Copies :
        \/ /\ task[<<s, c>>].pc \in {"spawned", "await", "apply"}
           /\ task[<<s, c>>].generation = generation
        \/ /\ task[<<s, c>>].pc = "claimed"
           /\ task[<<s, c>>].claimedIn = generation
  BY DEF NoLostClaim, Pending
<1>2. QED
  BY <1>1 DEF Pending

\* Every step keeps a record for each slot collecting under Docker.
LEMMA NoLostClaimStep == TypeOK /\ NoLostClaim /\ [Next]_vars => NoLostClaim'
<1> SUFFICES ASSUME TypeOK, NoLostClaim, [Next]_vars
             PROVE  NoLostClaim'
  OBVIOUS
<1>0. ASSUME NEW s \in Slots, NEW c \in Copies
      PROVE  <<s, c>> \in Tasks /\ task[<<s, c>>] \in TaskStates
  BY DEF Tasks, TypeOK
<1>1. ASSUME NEW m, NEW snap, Publish(m, snap)
      PROVE  NoLostClaim'
  <2>1. CASE m # mode
    <3>1. Collecting(slot') = {}
      BY <1>1, <2>1 DEF Publish, Collecting, SourceResetSlots, DefaultSlot
    <3>2. QED
      BY <3>1 DEF NoLostClaim, Collecting
  <2>2. CASE m = mode
    <3>1. Collecting(slot') \subseteq Collecting(slot)
      BY <1>1, <2>2, SlotsAssumption
         DEF Publish, Collecting, MarkNetworkStale, TypeOK, SlotStates
    <3>2. mode' = mode /\ generation' = generation /\ task' = task
      BY <1>1, <2>2 DEF Publish
    <3>3. QED
      BY <3>1, <3>2, PendingKept
  <2>3. QED
    BY <2>1, <2>2
<1>2. CASE LoopClaim
  <2> DEFINE new == [IdleTask EXCEPT !.pc = "spawned", !.snapshot = snapshot,
                       !.generation = generation, !.claimedIn = generation]
  <2>1. new.pc = "spawned" /\ new.generation = generation
    BY IdleTypes DEF TaskStates
  <2>2. PICK place \in Placements(DueSlots(slot)) : task' = Placed(place, new)
    BY <1>2 DEF LoopClaim
  <2>3. /\ slot' = Claimed(slot, DueSlots(slot))
        /\ mode' = mode /\ generation' = generation
    BY <1>2 DEF LoopClaim
  <2> HIDE DEF new
  <2>4. QED
    BY <2>1, <2>2, <2>3, DueSlotsType, ClaimIsPending
<1>3. CASE Tick
  <2>1. Collecting(slot') \subseteq Collecting(slot)
    BY <1>3 DEF Tick, Collecting, TypeOK, SlotStates
  <2>2. mode' = mode /\ generation' = generation /\ task' = task
    BY <1>3 DEF Tick
  <2>3. QED
    BY <2>1, <2>2, PendingKept
<1>4. ASSUME NEW s \in Slots, NEW c \in Copies,
             StartInFlight(s, c) \/ StartWorker(s, c) \/ AwaitTimesOut(s, c)
                \/ Discard(s, c) \/ WorkerReturns(s, c)
      PROVE  NoLostClaim'
  <2>1. mode' = mode /\ generation' = generation /\ slot' = slot
    BY <1>4 DEF StartInFlight, StartWorker, AwaitTimesOut, Discard, WorkerReturns,
                cacheVars
  <2>2. ASSUME NEW x \in Slots, NEW d \in Copies, <<x, d>> # <<s, c>>
        PROVE  task'[<<x, d>>] = task[<<x, d>>]
    BY <1>0, <1>4, <2>2 DEF StartInFlight, StartWorker, AwaitTimesOut, Discard,
                       WorkerReturns, TypeOK
  <2>3. \/ /\ task[<<s, c>>].pc \in {"spawned", "await"}
           /\ task'[<<s, c>>].pc \in {"await", "apply"}
           /\ task'[<<s, c>>].generation = task[<<s, c>>].generation
        \/ /\ task[<<s, c>>].pc = "apply" /\ ~Accepts(task[<<s, c>>])
        \/ task'[<<s, c>>] = task[<<s, c>>]
    <3> task[<<s, c>>] \in TaskStates /\ <<s, c>> \in Tasks
      BY <1>0
    <3>1. CASE StartInFlight(s, c)
      BY <3>1 DEF StartInFlight, TypeOK, TaskStates
    <3>2. CASE StartWorker(s, c)
      BY <3>2 DEF StartWorker, TypeOK, TaskStates
    <3>3. CASE AwaitTimesOut(s, c)
      BY <3>3 DEF AwaitTimesOut, TypeOK, TaskStates
    <3>4. CASE Discard(s, c)
      BY <3>4 DEF Discard
    <3>5. CASE WorkerReturns(s, c)
      BY <3>5 DEF WorkerReturns, TypeOK, TaskStates
    <3>6. QED
      BY <1>4, <3>1, <3>2, <3>3, <3>4, <3>5
  <2>4. QED
    BY <2>1, <2>2, <2>3, PendingKept DEF Collecting, Accepts
<1>5. ASSUME NEW s \in Slots, NEW c \in Copies, Apply(s, c)
      PROVE  NoLostClaim'
  <2>1. task[<<s, c>>].outcome \in Outcomes
    BY <1>0 DEF TaskStates
  <2>2. AppliedSlot(s, task[<<s, c>>]).obs # "collecting"
    BY <2>1 DEF AppliedSlot, Outcomes, TypeOK, SlotStates
  <2>3. Collecting(slot') \subseteq Collecting(slot) \ {s}
    BY <1>5, <2>2 DEF Apply, Collecting, TypeOK
  <2>4. ASSUME NEW x \in Slots, NEW d \in Copies, x # s
        PROVE  task'[<<x, d>>] = task[<<x, d>>]
    BY <1>0, <1>5, <2>4 DEF Apply, TypeOK
  <2>5. mode' = mode /\ generation' = generation
    BY <1>5 DEF Apply
  <2>6. QED
    BY <2>3, <2>4, <2>5, PendingKept DEF Collecting
<1>6. ASSUME NEW k \in Tails, Reclaim(k)
      PROVE  NoLostClaim'
  <2> DEFINE new == [IdleTask EXCEPT !.pc = "claimed", !.snapshot = tail[k].snapshot,
                       !.claimedIn = generation, !.by = k]
  <2>1. new.pc = "claimed" /\ new.claimedIn = generation
    BY IdleTypes DEF TaskStates
  <2>2. PICK place \in Placements(DueSlots(slot)) : task' = Placed(place, new)
    BY <1>6 DEF Reclaim
  <2>3. /\ slot' = Claimed(slot, DueSlots(slot))
        /\ mode' = mode /\ generation' = generation
    BY <1>6 DEF Reclaim
  <2> HIDE DEF new
  <2>4. QED
    BY <2>1, <2>2, <2>3, DueSlotsType, ClaimIsPending
<1>7. ASSUME NEW k \in Tails, ReadGeneration(k)
      PROVE  NoLostClaim'
  <2>1. mode' = mode /\ generation' = generation /\ slot' = slot
    BY <1>7 DEF ReadGeneration, cacheVars
  <2>2. ASSUME NEW s \in Slots, NEW c \in Copies
        PROVE  \/ task'[<<s, c>>] = task[<<s, c>>]
               \/ /\ task[<<s, c>>].pc = "claimed"
                  /\ task'[<<s, c>>].pc = "spawned"
                  /\ task'[<<s, c>>].generation = generation
    BY <1>0, <1>7 DEF ReadGeneration, TaskStates
  <2>3. QED
    BY <2>1, <2>2, PendingKept DEF Collecting
<1>8. CASE UNCHANGED vars
  BY <1>8 DEF vars, NoLostClaim, Pending, Collecting
<1>9. QED
  BY <1>1, <1>2, <1>3, <1>4, <1>5, <1>6, <1>7, <1>8
     DEF Next, TaskStep, TailStep, PublishDocker, PublishMock

\* While Docker is the source, every slot published as collecting has a task
\* whose outcome the cache will accept: none is left collecting by a lost one.
THEOREM NoClaimIsLost == Spec => []NoLostClaim
<1>1. Init => NoLostClaim
  BY DEF Init, NoLostClaim
<1>2. QED
  BY <1>1, NoLostClaimStep, TypeCorrect, PTL DEF Spec

-----------------------------------------------------------------------------
(* Retention *)

\* Within a generation no step empties what a slot retains.
LEMMA RetentionStep ==
  ASSUME TypeOK, [Next]_vars, generation' = generation, NEW s \in Slots,
         slot[s].retained # {}
  PROVE  slot'[s].retained # {}
<1>1. ASSUME NEW m, NEW snap, Publish(m, snap)
      PROVE  slot'[s].retained # {}
  <2>1. m = mode
    BY <1>1 DEF Publish, TypeOK
  <2>2. QED
    BY <1>1, <2>1, SlotsAssumption DEF Publish, MarkNetworkStale, TypeOK, SlotStates
<1>2. ASSUME NEW due, slot' = Claimed(slot, due)
      PROVE  slot'[s].retained # {}
  BY <1>2 DEF Claimed, TypeOK, SlotStates
<1>3. CASE Tick
  BY <1>3 DEF Tick, TypeOK, SlotStates
<1>4. ASSUME NEW x \in Slots, NEW c \in Copies, Apply(x, c)
      PROVE  slot'[s].retained # {}
  <2>1. slot' = [slot EXCEPT ![x] = AppliedSlot(x, task[<<x, c>>])]
    BY <1>4 DEF Apply
  <2>2. CASE s # x
    BY <2>1, <2>2 DEF TypeOK
  <2>3. CASE s = x
    <3>1. slot'[s] = AppliedSlot(s, task[<<x, c>>])
      BY <2>1, <2>3 DEF TypeOK
    <3>2. task[<<x, c>>].outcome \in Outcomes
      BY DEF TypeOK, TaskStates, Tasks
    <3>3. AppliedSlot(s, task[<<x, c>>]).retained # {}
      BY <3>2 DEF AppliedSlot, Outcomes, TypeOK, SlotStates
    <3>4. QED
      BY <3>1, <3>3
  <2>4. QED
    BY <2>2, <2>3
<1>5. CASE UNCHANGED slot
  BY <1>5
<1>6. QED
  BY <1>1, <1>2, <1>3, <1>4, <1>5
     DEF Next, TaskStep, TailStep, PublishDocker, PublishMock, LoopClaim, Reclaim,
         StartInFlight, StartWorker, AwaitTimesOut, Discard, WorkerReturns,
         ReadGeneration, cacheVars, vars

\* A failure, a timeout, an occupied guard or a new snapshot never drops the
\* last collection of a slot; only a source flip does.
THEOREM RetentionHolds == Spec => RetentionWithinGeneration
<1>1. TypeOK /\ [Next]_vars =>
        [generation' = generation =>
           \A s \in Slots : slot[s].retained # {} => slot'[s].retained # {}]_vars
  BY RetentionStep
<1>2. QED
  BY <1>1, TypeCorrect, PTL DEF Spec, RetentionWithinGeneration

=============================================================================
