--------------------------- MODULE PublicationProofs ---------------------------
(***************************************************************************)
(* The cache of Publication implements RevisionedModel, for every set of   *)
(* slots, inventories and collections: for that, only that each change of  *)
(* the cache ends in Republish matters, not what SnapshotTopology makes of *)
(* it.  What the map says of its slots, the evidence on its edges, what the*)
(* findings rest on and the collision report are about the values: they    *)
(* are followed through binding, derivation, redaction and normalisation.  *)
(***************************************************************************)
EXTENDS Publication, FiniteSetTheorems, TLAPS

\* The revision remembers exactly what the routes expose now.
Remembered ==
    /\ revision = [seq |-> revision.seq, last |-> Published]
    /\ revision.seq \in Nat

\* What Advance does to a revision: it stays, or it counts a change.
LEMMA AdvanceCounts ==
    ASSUME NEW n \in Nat, NEW old, NEW new
    PROVE  LET rev == [seq |-> n, last |-> old]
           IN  /\ new = old => Advance(rev, new) = rev
               /\ new # old => Advance(rev, new) = [seq |-> n + 1, last |-> new]
  BY DEF Advance

\* The end of every change of the cache keeps the revision true to what is exposed, and
\* counts exactly the changes of it (Republish: rebuild_runtime_map, assign_revision).
LEMMA RepublishCounts ==
    ASSUME NEW s, NEW h, NEW b, NEW ss, NEW iRev,
           Remembered, Republish(s, h, b, ss, iRev)
    PROVE  /\ Remembered'
           /\ \/ Published' = Published /\ revision'.seq = revision.seq
              \/ Published' # Published /\ revision'.seq = revision.seq + 1
  <1> DEFINE built == Rebuilt(s, h, ss, Advance(dockerRev, DockerObservable(s, h.mode)), iRev)
             new == Observable(s, h, built.map)
  <1>1. Published' = new
    BY DEF Republish, Install, Published
  <1>2. revision' = Advance(revision, new)
    BY DEF Republish, Install
  <1> HIDE DEF new
  <1>3. PICK n \in Nat : revision = [seq |-> n, last |-> Published]
    BY DEF Remembered
  <1>4. revision.seq = n
    BY <1>3
  <1>5. CASE new = Published
    <2>1. revision' = [seq |-> n, last |-> Published]
      BY <1>2, <1>3, <1>5, AdvanceCounts
    <2> QED
      BY <1>1, <1>4, <1>5, <2>1 DEF Remembered
  <1>6. CASE new # Published
    <2>1. revision' = [seq |-> n + 1, last |-> new]
      BY <1>2, <1>3, <1>6, AdvanceCounts
    <2> QED
      BY <1>1, <1>4, <1>6, <2>1 DEF Remembered
  <1> QED
    BY <1>5, <1>6

\* A step that leaves the cache alone leaves its publication alone.
LEMMA CacheUnchanged ==
    ASSUME Remembered, UNCHANGED cacheVars
    PROVE  Remembered' /\ Published' = Published /\ revision'.seq = revision.seq
  BY DEF Remembered, Published, cacheVars

\* Every change of the cache ends in Republish.
LEMMA StepRepublishes ==
    ASSUME [Next]_vars
    PROVE  \/ UNCHANGED cacheVars
           \/ \E s, h, b, ss, iRev : Republish(s, h, b, ss, iRev)
  <1>1. ASSUME NEW s, NEW h, NEW b, Publish(s, h, b)
        PROVE  \E ss, iRev : Republish(s, h, b, ss, iRev)
    BY <1>1 DEF Publish, PublishSameSource, PublishOtherSource
  <1>2. ASSUME NEW raw \in Inventories, NEW b \in Bindings, PublishDocker(raw, b)
        PROVE  \E s, h, c, ss, iRev : Republish(s, h, c, ss, iRev)
    BY <1>1, <1>2 DEF PublishDocker
  <1>3. ASSUME NEW message \in Messages, PublishMock(message)
        PROVE  \E s, h, c, ss, iRev : Republish(s, h, c, ss, iRev)
    BY <1>1, <1>3 DEF PublishMock
  <1>4. ASSUME NEW slot \in Slots, Claim(slot)
        PROVE  \E s, h, c, ss, iRev : Republish(s, h, c, ss, iRev)
    BY <1>4 DEF Claim
  <1>5. ASSUME NEW slot \in Slots, ApplyCollected(slot) \/ ApplyNotCollected(slot)
        PROVE  \E s, h, c, ss, iRev : Republish(s, h, c, ss, iRev)
    BY <1>5 DEF ApplyCollected, ApplyNotCollected, Apply
  <1>6. ASSUME NEW slot \in Slots, DropOutcome(slot)
        PROVE  UNCHANGED cacheVars
    BY <1>6 DEF DropOutcome
  <1> QED
    BY <1>2, <1>3, <1>4, <1>5, <1>6 DEF Next, SlotStep, vars, Tick

\* Every step of the daemon counts the change it makes of the publication, if any.
LEMMA StepCounts ==
    ASSUME Remembered, [Next]_vars
    PROVE  /\ Remembered'
           /\ \/ Published' = Published /\ revision'.seq = revision.seq
              \/ Published' # Published /\ revision'.seq = revision.seq + 1
  BY StepRepublishes, CacheUnchanged, RepublishCounts

\* At every time the revision's memory is what the routes expose (assign_revision runs in the
\* lock section of the change itself).
THEOREM RevisionRemembers == Spec => []Remembered
  <1>1. Init => Remembered
    BY DEF Init, Remembered, Published
  <1>2. Remembered /\ [Next]_vars => Remembered'
    BY StepCounts
  <1> QED
    BY <1>1, <1>2, PTL DEF Spec

\* The daemon's cache implements RevisionedModel: the revision of a publication changes with
\* every change of what the routes expose and only then, and never returns to an earlier one.
THEOREM ImplementsRevisionedModel == Spec => RefinesRevisionedModel
  <1>1. Init => Revisioned!Init
    BY DEF Init, Revisioned!Init
  <1>2. Remembered /\ [Next]_vars => [Revisioned!Publish]_<<Published, revision.seq>>
    BY StepCounts DEF Revisioned!Publish
  <1> QED
    BY <1>1, <1>2, RevisionRemembers, PTL DEF Spec, RefinesRevisionedModel, Revisioned!Spec

-----------------------------------------------------------------------------
(* What readers are told about the slots *)

\* What a slot may retain.
Retainable == {NoCollection} \cup UNION {{SanitizedForRetention(c) : c \in Collections[slot]} : slot \in Slots}

Reasons == {"none", "source_reset", "refreshing", "collection_failed", "collection_timed_out"}

SlotStates ==
    [obs : {"unavailable", "fresh", "collecting", "degraded", "timed_out"}, coll : Retainable,
     attempt : Nat, success : Nat, failures : Nat, dataRev : Nat, dataObs : Retainable, reason : Reasons]

\* The reason, the failures and the times of a slot that the observation allows.  The API's
\* table is about what is told; the transitions need to know this of what is kept.
SlotSound(st) ==
    /\ st.dataObs = st.coll
    /\ st.success # 0 => st.attempt # 0
    /\ st.success # 0 <=> st.dataRev # 0
    /\ st.success # 0 <=> st.coll # NoCollection
    /\ st.obs = "unavailable" => /\ st.attempt = 0 /\ st.success = 0 /\ st.failures = 0
                                 /\ st.reason \in {"none", "source_reset"}
    /\ st.obs = "fresh" => /\ st.success # 0 /\ st.reason = "none" /\ st.failures = 0
                           /\ st.attempt <= st.success
    /\ st.obs = "collecting" => st.reason = "refreshing" /\ st.attempt # 0
    /\ st.obs = "degraded" => /\ st.attempt # 0
                              /\ \/ st.reason = "collection_failed" /\ st.failures > 0
                                 \/ st.reason = "none" /\ st.success # 0 /\ st.attempt <= st.success
    /\ st.obs = "timed_out" => st.reason = "collection_timed_out" /\ st.failures > 0 /\ st.attempt # 0

\* A collection of the current source runs for a slot that says so.
FlightSound(slot) ==
    \/ flights[slot] = NoFlight
    \/ /\ flights[slot].generation \in Nat /\ flights[slot].generation <= generation
       /\ flights[slot].generation = generation => slots[slot].obs = "collecting"

SlotsInv ==
    /\ now \in 1..MaxTime /\ generation \in 0..MaxGeneration
    /\ health.mode \in {"docker", "mock"}
    /\ slots \in [Slots -> SlotStates]
    /\ \A slot \in Slots : /\ SlotSound(slots[slot])
                            /\ slots[slot].attempt <= now /\ slots[slot].success <= now
    /\ flights = [slot \in Slots |-> flights[slot]]
    /\ \A slot \in Slots : FlightSound(slot)
    /\ map.states = ProviderStates(slots)

\* A retained collection has a state of its own.
LEMMA RetainedState ==
    ASSUME NEW slot \in Slots, NEW c \in Collections[slot]
    PROVE  /\ SanitizedForRetention(c) \in Retainable
           /\ SanitizedForRetention(c).state \in {"fresh", "disabled"}
           /\ SanitizedForRetention(c) # NoCollection
  <1>1. SanitizedForRetention(c) \in Retainable
    BY DEF Retainable
  <1>2. PICK ns, es, ds, st : c = [nodes |-> ns, edges |-> es, diagnostics |-> ds, state |-> st]
                               /\ st \in {"fresh", "disabled"}
    BY CollectionsAssumption
  <1>3. SanitizedForRetention(c).state = st
    BY <1>2 DEF SanitizedForRetention
  <1>4. NoCollection.state = "none"
    BY DEF NoCollection
  <1> QED
    BY <1>1, <1>2, <1>3, <1>4

\* What is retained is nothing, or a collection with a state.
LEMMA RetainableState ==
    ASSUME NEW c \in Retainable, c # NoCollection
    PROVE  c.state \in {"fresh", "disabled"}
  <1>1. PICK slot \in Slots : \E d \in Collections[slot] : c = SanitizedForRetention(d)
    BY DEF Retainable
  <1> QED
    BY <1>1, RetainedState

\* A sound slot is told coherently: the API's table admits it.
LEMMA SoundIsCoherent ==
    ASSUME NEW st \in SlotStates, SlotSound(st)
    PROVE  Coherent(ProviderState(st))
  <1>1. st.coll # NoCollection => st.coll.state \in {"fresh", "disabled"}
    BY RetainableState DEF SlotStates
  <1>2. CASE st.coll = NoCollection
    <2>1. CASE st.obs = "unavailable"
      BY <1>2, <2>1 DEF SlotStates, SlotSound, ProviderState, Coherent
    <2>2. CASE st.obs = "fresh"
      BY <1>2, <2>2 DEF SlotStates, SlotSound, ProviderState, Coherent
    <2>3. CASE st.obs = "collecting"
      BY <1>2, <2>3 DEF SlotStates, SlotSound, ProviderState, Coherent
    <2>4. CASE st.obs = "degraded"
      BY <1>2, <2>4 DEF SlotStates, SlotSound, ProviderState, Coherent
    <2>5. CASE st.obs = "timed_out"
      BY <1>2, <2>5 DEF SlotStates, SlotSound, ProviderState, Coherent
    <2> QED
      BY <2>1, <2>2, <2>3, <2>4, <2>5 DEF SlotStates
  <1>3. CASE st.coll # NoCollection /\ st.coll.state = "fresh"
    <2>1. CASE st.obs = "unavailable"
      BY <1>3, <2>1 DEF SlotStates, SlotSound, ProviderState, Coherent
    <2>2. CASE st.obs = "fresh"
      BY <1>3, <2>2 DEF SlotStates, SlotSound, ProviderState, Coherent
    <2>3. CASE st.obs = "collecting"
      BY <1>3, <2>3 DEF SlotStates, SlotSound, ProviderState, Coherent
    <2>4. CASE st.obs = "degraded"
      BY <1>3, <2>4 DEF SlotStates, SlotSound, ProviderState, Coherent
    <2>5. CASE st.obs = "timed_out"
      BY <1>3, <2>5 DEF SlotStates, SlotSound, ProviderState, Coherent
    <2> QED
      BY <2>1, <2>2, <2>3, <2>4, <2>5 DEF SlotStates
  <1>4. CASE st.coll # NoCollection /\ st.coll.state = "disabled"
    <2>1. CASE st.obs = "unavailable"
      BY <1>4, <2>1 DEF SlotStates, SlotSound, ProviderState, Coherent
    <2>2. CASE st.obs = "fresh"
      BY <1>4, <2>2 DEF SlotStates, SlotSound, ProviderState, Coherent
    <2>3. CASE st.obs = "collecting"
      BY <1>4, <2>3 DEF SlotStates, SlotSound, ProviderState, Coherent
    <2>4. CASE st.obs = "degraded"
      BY <1>4, <2>4 DEF SlotStates, SlotSound, ProviderState, Coherent
    <2>5. CASE st.obs = "timed_out"
      BY <1>4, <2>5 DEF SlotStates, SlotSound, ProviderState, Coherent
    <2> QED
      BY <2>1, <2>2, <2>3, <2>4, <2>5 DEF SlotStates
  <1> QED
    BY <1>1, <1>2, <1>3, <1>4

\* The rebuilt map tells the states of the slots it was rebuilt from.
LEMMA RebuiltStates ==
    ASSUME NEW s, NEW h, NEW ss, NEW rev, NEW iRev
    PROVE  Rebuilt(s, h, ss, rev, iRev).map.states = ProviderStates(ss)
  <1> DEFINE m == RuntimeMapForSnapshot(s, h.mode, ss, <<"docker", rev.seq>>)
  <1>1. m.states = ProviderStates(ss)
    BY DEF RuntimeMapForSnapshot, WithSlots
  <1>2. DOMAIN m = {"nodes", "edges", "diagnostics", "duplicates", "states", "at"}
    BY DEF RuntimeMapForSnapshot, WithSlots
  <1> HIDE DEF m
  <1>3. ASSUME NEW token, NEW at PROVE AppendCollisionFact(m, token, at).states = m.states
    BY <1>2 DEF AppendCollisionFact
  <1> QED
    BY <1>1, <1>3 DEF Rebuilt, Attested, m

\* A slot state is the record of its fields.
Fields(obs, coll, attempt, success, failures, dataRev, dataObs, reason) ==
    [obs |-> obs, coll |-> coll, attempt |-> attempt, success |-> success, failures |-> failures,
     dataRev |-> dataRev, dataObs |-> dataObs, reason |-> reason]

\* Its fields have the types of SlotStates.
LEMMA FieldTypes ==
    ASSUME NEW st \in SlotStates
    PROVE  /\ st = Fields(st.obs, st.coll, st.attempt, st.success, st.failures, st.dataRev, st.dataObs, st.reason)
           /\ st.obs \in {"unavailable", "fresh", "collecting", "degraded", "timed_out"}
           /\ st.coll \in Retainable /\ st.dataObs \in Retainable
           /\ st.attempt \in Nat /\ st.success \in Nat /\ st.failures \in Nat /\ st.dataRev \in Nat
           /\ st.reason \in Reasons
  BY DEF SlotStates, Fields

\* What a success writes, field by field.
LEMMA SuccessFields ==
    ASSUME NEW w \in SlotStates, NEW o \in {"fresh", "degraded"}, NEW k \in Retainable, NEW t \in Nat, NEW new,
           new = [w EXCEPT !.success = t, !.failures = 0, !.reason = "none", !.coll = k, !.obs = o]
    PROVE  new = Fields(o, k, w.attempt, t, 0, w.dataRev, w.dataObs, "none")
  BY FieldTypes DEF SlotStates, Fields

\* A slot of a new source is sound.
LEMMA UnavailableSound ==
    ASSUME NEW reason \in {"none", "source_reset"}
    PROVE  /\ UnavailableSlot(reason) \in SlotStates /\ SlotSound(UnavailableSlot(reason))
           /\ UnavailableSlot(reason).attempt = 0 /\ UnavailableSlot(reason).success = 0
  <1>1. NoCollection \in Retainable
    BY DEF Retainable
  <1>2. UnavailableSlot(reason) = Fields("unavailable", NoCollection, 0, 0, 0, 0, NoCollection, reason)
    BY DEF UnavailableSlot, Fields
  <1>3. UnavailableSlot(reason) \in SlotStates
    BY <1>1, <1>2 DEF SlotStates, Fields, Reasons
  <1> QED
    BY <1>2, <1>3 DEF Fields, SlotSound

\* What a claim makes of a slot.
AsClaimed(st, t) == [st EXCEPT !.obs = "collecting", !.attempt = t, !.reason = "refreshing"]

\* A claim keeps a slot sound: what was retained stays (claim_due_provider_slots).
LEMMA ClaimedSound ==
    ASSUME NEW st \in SlotStates, SlotSound(st), NEW t \in Nat, t # 0
    PROVE  /\ AsClaimed(st, t) \in SlotStates /\ SlotSound(AsClaimed(st, t)) /\ AsClaimed(st, t).attempt = t
           /\ AsClaimed(st, t).success = st.success /\ AsClaimed(st, t).obs = "collecting"
  <1> DEFINE new == AsClaimed(st, t)
  <1>1. new = [st EXCEPT !.obs = "collecting", !.attempt = t, !.reason = "refreshing"]
    BY DEF AsClaimed
  <1> HIDE DEF new
  <1>2. new = Fields("collecting", st.coll, t, st.success, st.failures, st.dataRev, st.dataObs, "refreshing")
    BY <1>1, FieldTypes DEF SlotStates, Fields
  <1>3. new \in SlotStates
    BY <1>2, FieldTypes DEF SlotStates, Fields, Reasons
  <1>4. SlotSound(new) /\ new.attempt = t /\ new.success = st.success /\ new.obs = "collecting"
    BY <1>2, <1>3, FieldTypes DEF Fields, SlotSound
  <1> QED
    BY <1>3, <1>4 DEF new

\* Stale observations of the network slot are sound (mark_network_observation_stale).
LEMMA NetworkStaleSound ==
    ASSUME slots \in [Slots -> SlotStates], NEW slot \in Slots, SlotSound(slots[slot])
    PROVE  /\ NetworkStale(slots)[slot] \in SlotStates /\ SlotSound(NetworkStale(slots)[slot])
           /\ NetworkStale(slots)[slot].attempt = slots[slot].attempt
           /\ NetworkStale(slots)[slot].success = slots[slot].success
           /\ slots[slot].obs = "collecting" => NetworkStale(slots)[slot].obs = "collecting"
  <1>1. slots[slot] \in SlotStates
    OBVIOUS
  <1>2. CASE slot = "network" /\ slots[slot].obs = "fresh"
    <2>1. NetworkStale(slots)[slot] = [slots[slot] EXCEPT !.obs = "degraded"]
      BY <1>2 DEF NetworkStale
    <2> QED
      BY <1>1, <1>2, <2>1 DEF SlotStates, SlotSound
  <1>3. CASE ~(slot = "network" /\ slots[slot].obs = "fresh")
    <2>1. NetworkStale(slots)[slot] = slots[slot]
      BY <1>3 DEF NetworkStale
    <2> QED
      BY <1>1, <2>1
  <1> QED
    BY <1>2, <1>3

\* A success makes a slot sound that was claimed before it (apply_provider_slot_outcome).
LEMMA CollectedSound ==
    ASSUME NEW st \in SlotStates, SlotSound(st), now \in Nat \ {0},
           st.attempt # 0, st.attempt <= now,
           NEW slot \in Slots, NEW c \in Collections[slot], NEW same
    PROVE  /\ Collected(st, c, same) \in SlotStates /\ SlotSound(Collected(st, c, same))
           /\ Collected(st, c, same).attempt = st.attempt /\ Collected(st, c, same).success = now
  <1> DEFINE d == SanitizedForRetention(c)
             obs == IF same THEN "fresh" ELSE "degraded"
  <1>1. d \in Retainable /\ d # NoCollection
    BY RetainedState
  <1>2. Collected(st, c, same) =
          [WithData(st, d) EXCEPT !.success = now, !.failures = 0, !.reason = "none", !.coll = d, !.obs = obs]
    BY DEF Collected
  <1>3. obs \in {"fresh", "degraded"}
    OBVIOUS
  <1> HIDE DEF d, obs
  <1>4. PICK rev \in Nat :
          /\ rev # 0 /\ WithData(st, d) \in SlotStates
          /\ WithData(st, d).dataRev = rev /\ WithData(st, d).dataObs = d
          /\ WithData(st, d).attempt = st.attempt
    <2>1. CASE st.dataObs = d
      <3>1. WithData(st, d) = st
        BY <2>1 DEF WithData
      <3>2. st.dataRev \in Nat /\ st.dataRev # 0
        BY <1>1, <2>1, FieldTypes DEF SlotSound
      <3> QED
        BY <2>1, <3>1, <3>2
    <2>2. CASE st.dataObs # d
      <3>1. WithData(st, d) = Fields(st.obs, st.coll, st.attempt, st.success, st.failures, st.dataRev + 1, d, st.reason)
        BY <2>2, FieldTypes DEF WithData, SlotStates, Fields
      <3>2. st.dataRev + 1 \in Nat /\ st.dataRev + 1 # 0
        BY FieldTypes
      <3>3. WithData(st, d) \in SlotStates
        BY <1>1, <3>1, <3>2, FieldTypes DEF SlotStates, Fields
      <3> QED
        BY <3>1, <3>2, <3>3 DEF Fields
    <2> QED
      BY <2>1, <2>2
  <1>5. Collected(st, c, same) = Fields(obs, d, st.attempt, now, 0, rev, d, "none")
    <2> DEFINE w == WithData(st, d)
               new == Collected(st, c, same)
    <2>1. new = [w EXCEPT !.success = now, !.failures = 0, !.reason = "none", !.coll = d, !.obs = obs]
      BY <1>2
    <2>2. /\ w \in SlotStates /\ w.dataRev = rev /\ w.dataObs = d /\ w.attempt = st.attempt
          /\ d \in Retainable /\ now \in Nat
      BY <1>1, <1>4
    <2> HIDE DEF w, new
    <2>3. new = Fields(obs, d, w.attempt, now, 0, w.dataRev, w.dataObs, "none")
      BY <1>3, <2>1, <2>2, SuccessFields
    <2>4. new = Fields(obs, d, st.attempt, now, 0, rev, d, "none")
      BY <2>2, <2>3
    <2> QED
      BY <2>4 DEF new
  <1>6. Collected(st, c, same) \in SlotStates
    BY <1>1, <1>3, <1>4, <1>5, FieldTypes DEF SlotStates, Fields, Reasons
  <1>7. /\ Collected(st, c, same).obs = obs /\ Collected(st, c, same).coll = d
        /\ Collected(st, c, same).attempt = st.attempt /\ Collected(st, c, same).success = now
        /\ Collected(st, c, same).failures = 0 /\ Collected(st, c, same).dataRev = rev
        /\ Collected(st, c, same).dataObs = d /\ Collected(st, c, same).reason = "none"
    BY <1>5 DEF Fields
  <1> QED
    BY <1>1, <1>3, <1>4, <1>6, <1>7 DEF SlotSound

\* So does a failure, which keeps what was retained.
LEMMA NotCollectedSound ==
    ASSUME NEW st \in SlotStates, SlotSound(st), st.attempt # 0, NEW outcome \in {"failed", "timed_out"}
    PROVE  /\ NotCollected(st, outcome) \in SlotStates /\ SlotSound(NotCollected(st, outcome))
           /\ NotCollected(st, outcome).attempt = st.attempt
           /\ NotCollected(st, outcome).success = st.success
  <1>1. CASE outcome = "failed"
    <2>1. NotCollected(st, outcome) =
            Fields("degraded", st.coll, st.attempt, st.success, st.failures + 1, st.dataRev, st.dataObs, "collection_failed")
      <3>1. NotCollected(st, outcome) =
              [st EXCEPT !.obs = "degraded", !.failures = st.failures + 1, !.reason = "collection_failed"]
        BY <1>1 DEF NotCollected
      <3> QED
        BY <3>1 DEF SlotStates, Fields
    <2>2. NotCollected(st, outcome) \in SlotStates
      BY <2>1, FieldTypes DEF SlotStates, Fields, Reasons
    <2> QED
      BY <2>1, <2>2, FieldTypes DEF Fields, SlotSound
  <1>2. CASE outcome = "timed_out"
    <2>1. NotCollected(st, outcome) =
            Fields("timed_out", st.coll, st.attempt, st.success, st.failures + 1, st.dataRev, st.dataObs, "collection_timed_out")
      <3>1. NotCollected(st, outcome) =
              [st EXCEPT !.obs = "timed_out", !.failures = st.failures + 1, !.reason = "collection_timed_out"]
        BY <1>2 DEF NotCollected
      <3> QED
        BY <3>1 DEF SlotStates, Fields
    <2>2. NotCollected(st, outcome) \in SlotStates
      BY <2>1, FieldTypes DEF SlotStates, Fields, Reasons
    <2> QED
      BY <2>1, <2>2, FieldTypes DEF Fields, SlotSound
  <1> QED
    BY <1>1, <1>2

\* What Republish does to the slots and to what is told of them.
LEMMA RepublishSlots ==
    ASSUME NEW s, NEW h, NEW b, NEW ss, NEW iRev, Republish(s, h, b, ss, iRev)
    PROVE  slots' = ss /\ health' = h /\ map'.states = ProviderStates(ss)
  BY RebuiltStates DEF Republish, Install

\* The slots of a step that leaves them in SlotStates, sound and not ahead of the clock.
Sound(ss, t) ==
    /\ ss \in [Slots -> SlotStates]
    /\ \A slot \in Slots : SlotSound(ss[slot]) /\ ss[slot].attempt <= t /\ ss[slot].success <= t

\* A refresh of the same source (publish_docker_snapshot_cache).
LEMMA SameSourceStep ==
    ASSUME SlotsInv, NEW s, NEW h, NEW b, h.mode \in {"docker", "mock"},
           PublishSameSource(s, h, b), UNCHANGED <<flights, now>>
    PROVE  SlotsInv'
  <1>1. PICK ss \in {slots, NetworkStale(slots)} : Republish(s, h, b, ss, integrityRev)
    BY DEF PublishSameSource
  <1>2. slots' = ss /\ health' = h /\ map'.states = ProviderStates(ss) /\ generation' = generation
    BY <1>1, RepublishSlots DEF PublishSameSource
  <1>3. /\ Sound(ss, now)
        /\ \A slot \in Slots : slots[slot].obs = "collecting" => ss[slot].obs = "collecting"
    <2>1. CASE ss = slots
      BY <2>1 DEF SlotsInv, Sound
    <2>2. CASE ss = NetworkStale(slots)
      <3>1. ss = [slot \in Slots |-> ss[slot]]
        BY <2>2 DEF NetworkStale
      <3>2. ASSUME NEW slot \in Slots
            PROVE  /\ ss[slot] \in SlotStates /\ SlotSound(ss[slot])
                   /\ ss[slot].attempt <= now /\ ss[slot].success <= now
                   /\ slots[slot].obs = "collecting" => ss[slot].obs = "collecting"
        BY <2>2, NetworkStaleSound DEF SlotsInv
      <3> QED
        BY <3>1, <3>2 DEF Sound
    <2> QED
      BY <1>1, <2>1, <2>2
  <1> QED
    BY <1>2, <1>3 DEF SlotsInv, Sound, FlightSound

\* A change of source: what runs belongs to an earlier one.
LEMMA OtherSourceStep ==
    ASSUME SlotsInv, NEW s, NEW h, NEW b, h.mode \in {"docker", "mock"},
           PublishOtherSource(s, h, b), UNCHANGED <<flights, now>>
    PROVE  SlotsInv'
  <1> DEFINE ss == [slot \in Slots |-> UnavailableSlot("source_reset")]
  <1>1. Republish(s, h, b, ss, FreshIntegrity(generation + 1))
    BY DEF PublishOtherSource
  <1>2. Sound(ss, now)
    <2>1. now \in Nat
      BY DEF SlotsInv
    <2> QED
      BY <2>1, UnavailableSound DEF Sound
  <1> HIDE DEF ss
  <1>3. slots' = ss /\ health' = h /\ map'.states = ProviderStates(ss)
    BY <1>1, RepublishSlots
  <1>4. generation' = generation + 1 /\ generation' \in 0..MaxGeneration /\ generation \in Nat
    BY BoundAssumption DEF PublishOtherSource, SlotsInv
  <1>5. \A slot \in Slots : FlightSound(slot)'
    BY <1>4 DEF SlotsInv, FlightSound
  <1> QED
    BY <1>2, <1>3, <1>4, <1>5 DEF SlotsInv, Sound

\* A claim: the slot says that it collects, and its collection is of the current source.
LEMMA ClaimStep ==
    ASSUME SlotsInv, NEW slot \in Slots, Claim(slot)
    PROVE  SlotsInv'
  <1> DEFINE new == AsClaimed(slots[slot], now)
             ss == [slots EXCEPT ![slot] = new]
  <1>1. Republish(snapshot, health, binding, ss, integrityRev)
    BY DEF Claim, AsClaimed
  <1>2. /\ new \in SlotStates /\ SlotSound(new) /\ new.attempt = now
        /\ new.success = slots[slot].success /\ new.obs = "collecting"
    <2>1. now \in Nat /\ now # 0 /\ slots[slot] \in SlotStates /\ SlotSound(slots[slot])
      BY DEF SlotsInv
    <2> QED
      BY <2>1, ClaimedSound
  <1> HIDE DEF new
  <1>3. Sound(ss, now) /\ ss[slot].obs = "collecting"
    BY <1>2 DEF SlotsInv, Sound
  <1>4. \A other \in Slots : other # slot => ss[other] = slots[other]
    BY DEF SlotsInv
  <1> HIDE DEF ss
  <1>5. slots' = ss /\ health' = health /\ map'.states = ProviderStates(ss)
    BY <1>1, RepublishSlots
  <1>6. UNCHANGED <<generation, now>>
    BY DEF Claim
  <1>7. /\ flights' = [x \in Slots |-> flights'[x]]
        /\ flights'[slot].generation = generation
        /\ \A other \in Slots : other # slot => flights'[other] = flights[other]
    BY DEF Claim, SlotsInv
  <1>8. ASSUME NEW other \in Slots PROVE FlightSound(other)'
    <2>1. CASE other = slot
      BY <1>3, <1>5, <1>6, <1>7, <2>1 DEF FlightSound, SlotsInv
    <2>2. CASE other # slot
      BY <1>4, <1>5, <1>6, <1>7, <2>2 DEF FlightSound, SlotsInv
    <2> QED
      BY <2>1, <2>2
  <1> QED
    BY <1>3, <1>5, <1>6, <1>7, <1>8 DEF SlotsInv, Sound

\* The end of a collection of the current source, whatever it came to.
LEMMA ApplyStep ==
    ASSUME SlotsInv, NEW slot \in Slots, NEW new,
           new \in SlotStates, SlotSound(new), new.attempt <= now, new.success <= now,
           Republish(snapshot, health, binding, [slots EXCEPT ![slot] = new], integrityRev),
           flights' = [flights EXCEPT ![slot] = NoFlight], UNCHANGED <<generation, now>>
    PROVE  SlotsInv'
  <1> DEFINE ss == [slots EXCEPT ![slot] = new]
  <1>1. Sound(ss, now)
    BY DEF SlotsInv, Sound
  <1>2. \A other \in Slots : other # slot => ss[other] = slots[other]
    BY DEF SlotsInv
  <1>3. slots' = ss /\ health' = health /\ map'.states = ProviderStates(ss)
    BY RepublishSlots
  <1> HIDE DEF ss
  <1>4. /\ flights' = [x \in Slots |-> flights'[x]] /\ flights'[slot] = NoFlight
        /\ \A other \in Slots : other # slot => flights'[other] = flights[other]
    BY DEF SlotsInv
  <1>5. ASSUME NEW other \in Slots PROVE FlightSound(other)'
    BY <1>2, <1>3, <1>4 DEF FlightSound, SlotsInv
  <1> QED
    BY <1>1, <1>3, <1>4, <1>5 DEF SlotsInv, Sound

\* A collection that is applied was claimed: its slot has an attempt.
LEMMA AppliedWasClaimed ==
    ASSUME SlotsInv, NEW slot \in Slots, flights[slot].running, flights[slot].generation = generation
    PROVE  /\ slots[slot] \in SlotStates /\ SlotSound(slots[slot]) /\ slots[slot].attempt # 0
           /\ slots[slot].attempt <= now /\ slots[slot].success <= now /\ now \in Nat \ {0}
  <1>1. flights[slot] # NoFlight
    BY DEF NoFlight
  <1>2. slots[slot].obs = "collecting"
    BY <1>1 DEF SlotsInv, FlightSound
  <1> QED
    BY <1>2 DEF SlotsInv, SlotSound

\* Every step keeps what the slots' states rest on.
LEMMA SlotsStep ==
    ASSUME SlotsInv, [Next]_vars
    PROVE  SlotsInv'
  <1>1. CASE UNCHANGED vars
    BY <1>1 DEF vars, cacheVars, SlotsInv, FlightSound
  <1>2. CASE Tick
    <2>1. now' \in 1..MaxTime /\ now' = now + 1 /\ now \in Nat
      BY <1>2, BoundAssumption DEF Tick, SlotsInv
    <2>2. UNCHANGED <<health, slots, generation, map, flights>>
      BY <1>2 DEF Tick, cacheVars
    <2>3. \A slot \in Slots : slots[slot].attempt <= now' /\ slots[slot].success <= now'
      BY <2>1 DEF SlotsInv, SlotStates
    <2> QED
      BY <2>1, <2>2, <2>3 DEF SlotsInv, FlightSound
  <1>3. ASSUME NEW raw \in Inventories, NEW b \in Bindings, PublishDocker(raw, b)
        PROVE  SlotsInv'
    <2>1. DockerHealth.mode \in {"docker", "mock"}
      BY DEF DockerHealth
    <2>2. PICK c : Publish(BuildSnapshot(raw, now), DockerHealth, c)
      BY <1>3 DEF PublishDocker
    <2> QED
      BY <2>1, <2>2, SameSourceStep, OtherSourceStep DEF Publish
  <1>4. ASSUME NEW message \in Messages, PublishMock(message)
        PROVE  SlotsInv'
    <2>1. MockHealth(message).mode \in {"docker", "mock"}
      BY DEF MockHealth
    <2>2. Publish(BuildSnapshot(MockInventory, now), MockHealth(message), NoBinding)
      BY <1>4 DEF PublishMock
    <2> QED
      BY <2>1, <2>2, SameSourceStep, OtherSourceStep DEF Publish
  <1>5. ASSUME NEW slot \in Slots, ApplyCollected(slot)
        PROVE  SlotsInv'
    <2> DEFINE same == SameEvidence(snapshot, flights[slot].snapshot)
    <2>1. PICK c \in Collections[slot] :
            /\ flights[slot].running /\ flights[slot].generation = generation
            /\ Republish(snapshot, health, binding, [slots EXCEPT ![slot] = Collected(slots[slot], c, same)],
                         integrityRev)
            /\ flights' = [flights EXCEPT ![slot] = NoFlight] /\ UNCHANGED <<generation, now>>
      BY <1>5 DEF ApplyCollected, Apply, SlotsInv
    <2> HIDE DEF same
    <2>2. /\ slots[slot] \in SlotStates /\ SlotSound(slots[slot]) /\ slots[slot].attempt # 0
          /\ slots[slot].attempt <= now /\ now \in Nat \ {0}
      BY <2>1, AppliedWasClaimed
    <2>3. LET new == Collected(slots[slot], c, same)
          IN  /\ new \in SlotStates /\ SlotSound(new) /\ new.attempt = slots[slot].attempt /\ new.success = now
      BY <2>2, CollectedSound
    <2>4. LET new == Collected(slots[slot], c, same) IN new.attempt <= now /\ new.success <= now
      BY <2>2, <2>3
    <2> QED
      BY <2>1, <2>3, <2>4, ApplyStep
  <1>6. ASSUME NEW slot \in Slots, ApplyNotCollected(slot)
        PROVE  SlotsInv'
    <2>1. PICK outcome \in {"failed", "timed_out"} :
            /\ flights[slot].running /\ flights[slot].generation = generation
            /\ Republish(snapshot, health, binding, [slots EXCEPT ![slot] = NotCollected(slots[slot], outcome)],
                         integrityRev)
            /\ flights' = [flights EXCEPT ![slot] = NoFlight] /\ UNCHANGED <<generation, now>>
      BY <1>6 DEF ApplyNotCollected, Apply, SlotsInv
    <2>2. /\ slots[slot] \in SlotStates /\ SlotSound(slots[slot]) /\ slots[slot].attempt # 0
          /\ slots[slot].attempt <= now /\ slots[slot].success <= now
      BY <2>1, AppliedWasClaimed
    <2>3. LET new == NotCollected(slots[slot], outcome)
          IN  /\ new \in SlotStates /\ SlotSound(new) /\ new.attempt <= now /\ new.success <= now
      BY <2>2, NotCollectedSound
    <2> QED
      BY <2>1, <2>3, ApplyStep
  <1>7. ASSUME NEW slot \in Slots, DropOutcome(slot)
        PROVE  SlotsInv'
    <2>1. UNCHANGED <<health, slots, generation, map, now>>
      BY <1>7 DEF DropOutcome, cacheVars
    <2>2. /\ flights' = [x \in Slots |-> flights'[x]] /\ flights'[slot] = NoFlight
          /\ \A other \in Slots : other # slot => flights'[other] = flights[other]
      BY <1>7 DEF DropOutcome, SlotsInv
    <2>3. ASSUME NEW other \in Slots PROVE FlightSound(other)'
      BY <2>1, <2>2 DEF SlotsInv, FlightSound
    <2> QED
      BY <2>1, <2>2, <2>3 DEF SlotsInv
  <1> QED
    BY <1>1, <1>2, <1>3, <1>4, <1>5, <1>6, <1>7, ClaimStep DEF Next, SlotStep

\* The invariant holds at the start, when no slot has been tried.
LEMMA SlotsInit == Init => SlotsInv
  <1> SUFFICES ASSUME Init PROVE SlotsInv
    OBVIOUS
  <1>1. slots = [slot \in Slots |-> UnavailableSlot("none")] /\ now = 1 /\ generation = 0
    BY DEF Init
  <1>2. /\ slots \in [Slots -> SlotStates]
        /\ \A slot \in Slots : /\ SlotSound(slots[slot])
                                /\ slots[slot].attempt <= now /\ slots[slot].success <= now
    BY <1>1, UnavailableSound
  <1>3. map.states = ProviderStates(slots)
    BY <1>1 DEF Init, EmptyMap, ProviderStates
  <1>4. /\ flights = [slot \in Slots |-> flights[slot]]
        /\ \A slot \in Slots : FlightSound(slot)
    BY DEF Init, FlightSound
  <1>5. health.mode \in {"docker", "mock"}
    BY DEF Init, MockHealth
  <1> QED
    BY <1>1, <1>2, <1>3, <1>4, <1>5, BoundAssumption DEF SlotsInv

\* The slots' invariant holds throughout.
LEMMA SlotsInvariant == Spec => []SlotsInv
  <1>1. SlotsInv /\ [Next]_vars => SlotsInv'
    BY SlotsStep
  <1> QED
    BY <1>1, SlotsInit, PTL DEF Spec

\* Whatever the slots are and in whatever order they are claimed, succeed, fail, time out and
\* lose their source, the states that the map tells of them pass the API's table: no sequence
\* of provider outcomes makes the API refuse the whole map.
THEOREM ProviderStatesAreAccepted == Spec => []ProviderStatesAccepted
  <1>1. SlotsInv => ProviderStatesAccepted
    <2> SUFFICES ASSUME SlotsInv, NEW slot \in Slots PROVE Coherent(map.states[slot])
      BY DEF ProviderStatesAccepted
    <2>1. map.states[slot] = ProviderState(slots[slot])
      BY DEF SlotsInv, ProviderStates
    <2> QED
      BY <2>1, SoundIsCoherent DEF SlotsInv
  <1> QED
    BY <1>1, SlotsInvariant, PTL

-----------------------------------------------------------------------------
(* Type correctness *)

\* A step that counts a publication had room for it.
LEMMA CountedWithinBound ==
    ASSUME [Next]_vars, revision'.seq # revision.seq
    PROVE  revision.seq < MaxRevision
  <1>1. ~UNCHANGED cacheVars
    BY DEF cacheVars
  <1>2. ~UNCHANGED vars /\ ~Tick /\ \A slot \in Slots : ~DropOutcome(slot)
    BY <1>1 DEF vars, Tick, DropOutcome
  <1> QED
    BY <1>2 DEF Next, SlotStep, PublishDocker, PublishMock, Claim, ApplyCollected, ApplyNotCollected, Apply

\* The cache keeps its types: an observation has one of the five names, no time is ahead of
\* the clock, and a retained collection is a fresh or a disabled one.
THEOREM TypeCorrect == Spec => []TypeOK
  <1> DEFINE Inv == SlotsInv /\ Remembered /\ revision.seq \in 1..MaxRevision
  <1>1. Init => Inv
    <2>1. Init => Remembered /\ revision.seq = 1
      BY DEF Init, Remembered, Published
    <2> QED
      BY <2>1, SlotsInit, BoundAssumption
  <1>2. Inv /\ [Next]_vars => Inv'
    <2> SUFFICES ASSUME Inv, [Next]_vars PROVE Inv'
      OBVIOUS
    <2>1. SlotsInv' /\ Remembered'
      BY SlotsStep, StepCounts
    <2>2. revision'.seq = revision.seq \/ (revision'.seq = revision.seq + 1 /\ revision.seq < MaxRevision)
      BY StepCounts, CountedWithinBound DEF Remembered
    <2>3. revision'.seq \in 1..MaxRevision
      BY <2>2, BoundAssumption
    <2> QED
      BY <2>1, <2>3
  <1>3. Inv => TypeOK
    <2> SUFFICES ASSUME Inv PROVE TypeOK
      OBVIOUS
    <2>1. ASSUME NEW slot \in Slots
          PROVE  /\ slots[slot].obs \in {"unavailable", "fresh", "collecting", "degraded", "timed_out"}
                 /\ slots[slot].attempt \in 0..now /\ slots[slot].success \in 0..now
                 /\ slots[slot].coll = NoCollection \/ slots[slot].coll.state \in {"fresh", "disabled"}
      <3>1. slots[slot] \in SlotStates /\ now \in Nat /\ slots[slot].attempt <= now /\ slots[slot].success <= now
        BY DEF SlotsInv
      <3> QED
        BY <3>1, FieldTypes, RetainableState
    <2> QED
      BY <2>1 DEF TypeOK, SlotsInv
  <1> QED
    BY <1>1, <1>2, <1>3, PTL DEF Spec

-----------------------------------------------------------------------------
(* Where the evidence of the map comes from *)

\* An edge and a fact are the records of their fields.
IsEdge(e) == e = Edge(e.source, e.target, e.rel, e.evidence)
IsFact(v) == v = Evidence(v.kind, v.subject, v.object, v.rev, v.at, v.freshness)

\* A slot's fact is of the data the slot retains, and as fresh as its observation; a Docker
\* fact is of this Docker revision.  Redaction must not part a slot's fact from its data.
Current(v, ss, rev) ==
    LET slot == EvidenceFamilies[v.kind].slot
    IN /\ slot # NoSlot => /\ slot \in Slots
                           /\ v.rev = <<slot, ss[slot].dataRev>>
                           /\ RedactId(v.subject) = v.subject
                           /\ \E d \in ss[slot].coll.edges : d.source = v.subject /\ d.target = v.object
                           /\ v.freshness = "fresh" <=> ss[slot].obs = "fresh"
       /\ slot = NoSlot => v.rev = rev

CurrentEdge(e, ss, rev) == IsEdge(e) /\ \A v \in e.evidence : IsFact(v) /\ Current(v, ss, rev)

AllCurrent(edges, ss, rev) == \A e \in edges : CurrentEdge(e, ss, rev)

\* An id is redacted once.
LEMMA RedactIdTwice ==
    ASSUME NEW id
    PROVE  RedactId(RedactId(id)) = RedactId(id)
  <1>1. CASE Len(id) > 1 /\ id[2] \in Marked
    <2>1. RedactId(id) = <<Redacted>>
      BY <1>1 DEF RedactId
    <2>2. RedactId(<<Redacted>>) = <<Redacted>>
      BY DEF RedactId
    <2> QED
      BY <2>1, <2>2
  <1>2. CASE ~(Len(id) > 1 /\ id[2] \in Marked)
    BY <1>2 DEF RedactId
  <1> QED
    BY <1>1, <1>2

\* What is retained has its ids redacted, and no evidence of a collector's own.
LEMMA RetainedEdges ==
    ASSUME NEW c \in Retainable, NEW d \in c.edges
    PROVE  RedactId(d.source) = d.source /\ d.evidence = {}
  <1>1. c # NoCollection
    BY DEF NoCollection
  <1>0. PICK slot \in Slots : \E r \in Collections[slot] : c = SanitizedForRetention(r)
    BY <1>1 DEF Retainable
  <1>2. PICK raw \in Collections[slot] : c = SanitizedForRetention(raw)
    BY <1>0
  <1>3. PICK ns, es, ds, st : raw = [nodes |-> ns, edges |-> es, diagnostics |-> ds, state |-> st]
    BY <1>2, CollectionsAssumption
  <1>4. c.edges = {[e EXCEPT !.source = RedactId(@), !.target = RedactId(@)] : e \in es}
    BY <1>2, <1>3 DEF SanitizedForRetention
  <1>5. PICK e \in es : d = [e EXCEPT !.source = RedactId(@), !.target = RedactId(@)]
    BY <1>4
  <1>6. PICK a, b, r, m : e = [source |-> a, target |-> b, rel |-> r, evidence |-> {}, marker |-> m]
    <2>1. e \in raw.edges
      BY <1>3
    <2> QED
      BY <1>2, <2>1, CollectorsAssumption
  <1>7. d.source = RedactId(a) /\ d.evidence = {}
    BY <1>5, <1>6
  <1> QED
    BY <1>7, RedactIdTwice

\* Binding gives an edge a fact of the slot's own kind, under the slot's own revision
\* (bind_systemd_evidence and its like).
LEMMA BindCurrent ==
    ASSUME NEW ss \in [Slots -> SlotStates], NEW rev, NEW slot \in Slots, slot # NoSlot
    PROVE  AllCurrent(BindEvidence(ss[slot], slot), ss, rev)
  <1> SUFFICES ASSUME NEW e \in BindEvidence(ss[slot], slot)
               PROVE  CurrentEdge(e, ss, rev)
    BY DEF AllCurrent
  <1> DEFINE state == ss[slot]
  <1>1. state.coll \in Retainable /\ state.obs \in {"unavailable", "fresh", "collecting", "degraded", "timed_out"}
    BY DEF SlotStates
  <1> DEFINE fresh == CASE state.obs = "fresh" -> "fresh"
                        [] state.obs \in {"collecting", "degraded"} -> "stale"
                        [] OTHER -> "timed_out"
             usable == state.dataRev # 0 /\ state.success # 0 /\ ~Disabled(state)
             Fits(d) == /\ d.marker \in DOMAIN EvidenceFamilies
                        /\ LET f == EvidenceFamilies[d.marker]
                           IN  /\ f.slot = slot /\ d.rel = f.rel /\ d.source # d.target
                               /\ d.source[1] = f.source /\ d.target[1] = f.target
             Facts(d) == IF usable /\ Fits(d)
                         THEN {Evidence(d.marker, d.source, d.target, <<slot, state.dataRev>>,
                                        state.success, fresh)}
                         ELSE {}
  <1>2. PICK d \in state.coll.edges : e = Edge(d.source, d.target, d.rel, Facts(d))
    BY DEF BindEvidence
  <1> DEFINE facts == Facts(d)
  <1>5. fresh = "fresh" <=> state.obs = "fresh"
    BY <1>1
  <1>6. \A v \in facts :
          /\ v = Evidence(d.marker, d.source, d.target, <<slot, state.dataRev>>, state.success, fresh)
          /\ EvidenceFamilies[d.marker].slot = slot
    OBVIOUS
  <1> HIDE DEF fresh, facts
  <1>3. IsEdge(e) /\ e.evidence = facts
    BY <1>2 DEF IsEdge, Edge, facts
  <1>4. ASSUME NEW v \in facts
        PROVE  IsFact(v) /\ Current(v, ss, rev)
    <2>1. /\ v = Evidence(d.marker, d.source, d.target, <<slot, state.dataRev>>, state.success, fresh)
          /\ EvidenceFamilies[d.marker].slot = slot
      BY <1>4, <1>6
    <2>2. /\ v.kind = d.marker /\ v.subject = d.source /\ v.object = d.target
          /\ v.rev = <<slot, state.dataRev>> /\ v.freshness = fresh /\ IsFact(v)
      BY <2>1 DEF Evidence, IsFact
    <2>3. RedactId(d.source) = d.source
      BY <1>1, <1>2, RetainedEdges
    <2> QED
      BY <1>2, <1>5, <2>1, <2>2, <2>3 DEF Current
  <1> QED
    BY <1>3, <1>4 DEF CurrentEdge

\* Whichever slot it is, the edges it brings carry nothing but such facts.
LEMMA BoundCurrent ==
    ASSUME NEW ss \in [Slots -> SlotStates], NEW rev, NEW slot \in Slots
    PROVE  AllCurrent(BoundEdges(slot, ss[slot]), ss, rev)
  <1>1. CASE slot \in {"systemd", "npm", "cron", "tmux"}
    <2>1. BoundEdges(slot, ss[slot]) = BindEvidence(ss[slot], slot)
      BY <1>1 DEF BoundEdges, BindSystemd, BindNpm, BindCron, BindTmux
    <2> QED
      BY <1>1, <2>1, BindCurrent DEF NoSlot
  <1>2. CASE slot \notin {"systemd", "npm", "cron", "tmux"}
    <2>1. BoundEdges(slot, ss[slot]) = Unbound(ss[slot])
      BY <1>2 DEF BoundEdges
    <2>2. ASSUME NEW e \in Unbound(ss[slot]) PROVE CurrentEdge(e, ss, rev)
      <3>1. PICK d \in ss[slot].coll.edges : e = Edge(d.source, d.target, d.rel, d.evidence)
        BY <2>2 DEF Unbound
      <3>2. d.evidence = {}
        BY <3>1, RetainedEdges DEF SlotStates
      <3> QED
        BY <3>1, <3>2 DEF CurrentEdge, IsEdge, Edge
    <2> QED
      BY <2>1, <2>2 DEF AllCurrent
  <1> QED
    BY <1>1, <1>2

\* A fact of Docker's own bears the revision of the Docker observation.
LEMMA DockerEdgeCurrent ==
    ASSUME NEW s, NEW rev, NEW ss, NEW source, NEW target,
           NEW kind \in {"network_membership", "volume_mount", "port_publication", "unspecified_port",
                         "depends_on", "daemon_state"}
    PROVE  CurrentEdge(DockerEdge(s, rev, source, target, kind), ss, rev)
  <1> DEFINE v == Evidence(kind, source, target, rev, s.at, "fresh")
             e == DockerEdge(s, rev, source, target, kind)
  <1>1. IsEdge(e) /\ e.evidence = {v}
    BY DEF DockerEdge, IsEdge, Edge
  <1>2. IsFact(v) /\ v.kind = kind /\ v.rev = rev
    BY DEF IsFact, Evidence
  <1>3. EvidenceFamilies[kind].slot = NoSlot
    BY DEF EvidenceFamilies, Family
  <1> HIDE DEF v, e
  <1>4. Current(v, ss, rev)
    BY <1>2, <1>3 DEF Current
  <1>5. CurrentEdge(e, ss, rev)
    BY <1>1, <1>2, <1>4 DEF CurrentEdge
  <1> QED
    BY <1>5 DEF e

\* Everything that a snapshot adds to the map is attested by it, or by nothing.
LEMMA DerivedCurrent ==
    ASSUME NEW s, NEW collected, NEW rev, NEW ss, AllCurrent(collected.edges, ss, rev)
    PROVE  AllCurrent(DeriveRuntimeMap(s, collected, rev).edges, ss, rev)
  <1>1. AllCurrent(MembershipEdges(s, rev), ss, rev)
    BY DockerEdgeCurrent DEF AllCurrent, MembershipEdges
  <1>2. AllCurrent(ExposureEdges(s, rev), ss, rev)
    <2>1. ASSUME NEW source, NEW target PROVE CurrentEdge(Edge(source, target, "exposes", {}), ss, rev)
      BY DEF CurrentEdge, IsEdge, Edge
    <2> QED
      BY <2>1, DockerEdgeCurrent DEF AllCurrent, ExposureEdges
  <1>3. AllCurrent(DependencyEdges(s, rev), ss, rev)
    BY DockerEdgeCurrent DEF AllCurrent, DependencyEdges
  <1>4. AllCurrent(AttachmentEdges(s, rev), ss, rev)
    BY DockerEdgeCurrent DEF AllCurrent, AttachmentEdges
  <1>5. ASSUME NEW nodes, NEW sources, NEW risk, NEW kind \in {"unspecified_port", "daemon_state"}
        PROVE  AllCurrent(RiskEdges(s, rev, nodes, sources, risk, kind), ss, rev)
    BY DockerEdgeCurrent DEF AllCurrent, RiskEdges
  <1>6. PICK nodes, unspecified, daemon :
          DeriveRuntimeMap(s, collected, rev).edges =
            collected.edges \cup MembershipEdges(s, rev) \cup ExposureEdges(s, rev)
                    \cup DependencyEdges(s, rev) \cup AttachmentEdges(s, rev)
                    \cup RiskEdges(s, rev, nodes, unspecified, UnspecifiedRisk, "unspecified_port")
                    \cup RiskEdges(s, rev, nodes, daemon, DaemonStateRisk, "daemon_state")
    BY DEF DeriveRuntimeMap
  <1> QED
    BY <1>1, <1>2, <1>3, <1>4, <1>5, <1>6 DEF AllCurrent

\* Redaction keeps a slot's fact with its data, or drops it.
LEMMA RedactedCurrent ==
    ASSUME NEW e, NEW ss, NEW rev, CurrentEdge(e, ss, rev)
    PROVE  CurrentEdge(RedactEdge(e), ss, rev)
  <1>1. PICK a, b, r, ev : e = [source |-> a, target |-> b, rel |-> r, evidence |-> ev]
    BY DEF CurrentEdge, IsEdge, Edge
  <1> DEFINE facts == {[v EXCEPT !.subject = RedactId(@)] : v \in ev}
             x == [source |-> RedactId(a), target |-> RedactId(b), rel |-> r, evidence |-> facts]
             y == [source |-> RedactId(a), target |-> RedactId(b), rel |-> r, evidence |-> {}]
  <1>2. RedactEdge(e) = x \/ RedactEdge(e) = y
    BY <1>1 DEF RedactEdge
  <1>3. ASSUME NEW w \in facts PROVE IsFact(w) /\ Current(w, ss, rev)
    <2>1. PICK v \in ev : w = [v EXCEPT !.subject = RedactId(@)]
      OBVIOUS
    <2>2. IsFact(v) /\ Current(v, ss, rev)
      BY <1>1 DEF CurrentEdge
    <2>3. PICK k, su, ob, re, at, fr :
             v = [kind |-> k, subject |-> su, object |-> ob, rev |-> re, at |-> at, freshness |-> fr]
      BY <2>2 DEF IsFact, Evidence
    <2>4. w = [kind |-> k, subject |-> RedactId(su), object |-> ob, rev |-> re, at |-> at, freshness |-> fr]
      BY <2>1, <2>3
    <2>5. IsFact(w)
      BY <2>4 DEF IsFact, Evidence
    <2>6. /\ v.kind = k /\ v.subject = su /\ v.object = ob /\ v.rev = re /\ v.freshness = fr
          /\ w.kind = k /\ w.subject = RedactId(su) /\ w.object = ob /\ w.rev = re /\ w.freshness = fr
      BY <2>3, <2>4
    <2> QED
      BY <2>2, <2>5, <2>6 DEF Current
  <1>4. CurrentEdge(x, ss, rev)
    <2> HIDE DEF facts
    <2> QED BY <1>3 DEF CurrentEdge, IsEdge, Edge
  <1>5. CurrentEdge(y, ss, rev)
    BY DEF CurrentEdge, IsEdge, Edge
  <1> QED
    BY <1>2, <1>4, <1>5

\* The edges of sample data, which attest nothing.
Stripped(edges) == {[e EXCEPT !.evidence = {}] : e \in edges}

\* The nodes and the edges that a published map has, from those derived for it
\* (runtime_map_from_collection: redaction, then normalisation).
LEMMA PublishedParts ==
    ASSUME NEW s, NEW collected, NEW rev, NEW mode
    PROVE  LET derived == DeriveRuntimeMap(s, collected, rev)
               edges == IF mode = "docker" THEN derived.edges ELSE Stripped(derived.edges)
               new == RuntimeMapFromCollection(s, collected, rev, mode)
           IN  /\ new.nodes = {RedactNode(n) : n \in derived.nodes}
               /\ new.edges = {e \in {RedactEdge(x) : x \in edges} :
                                 /\ e.source \in {n.id : n \in new.nodes}
                                 /\ e.target \in {n.id : n \in new.nodes}}
  <1>1. PICK ns, es, ds, k, at : DeriveRuntimeMap(s, collected, rev) =
            [nodes |-> ns, edges |-> es, diagnostics |-> ds, duplicates |-> k, at |-> at]
    BY DEF DeriveRuntimeMap
  <1> DEFINE derived == DeriveRuntimeMap(s, collected, rev)
             edges == IF mode = "docker" THEN es ELSE Stripped(es)
             bare == [nodes |-> ns, edges |-> edges, diagnostics |-> ds, duplicates |-> k, at |-> at]
  <1>2. [derived EXCEPT !.edges = IF mode = "docker" THEN @ ELSE Stripped(@)] = bare
    BY <1>1
  <1>3. RuntimeMapFromCollection(s, collected, rev, mode) = RedactRuntimeMap(bare)
    BY <1>2 DEF RuntimeMapFromCollection, Stripped
  <1>4. derived.nodes = ns /\ derived.edges = es
    BY <1>1
  <1> HIDE DEF derived, edges
  <1> DEFINE N == {RedactNode(n) : n \in ns}
             E == {RedactEdge(e) : e \in edges}
             ids == {n.id : n \in N}
             hidden == [nodes |-> N, edges |-> E, diagnostics |-> ds, duplicates |-> k, at |-> at]
  <1>5. RedactCollection(bare) = hidden
    <2>1. bare.nodes = ns /\ bare.edges = edges
      OBVIOUS
    <2>2. RedactCollection(bare) = [bare EXCEPT !.nodes = N, !.edges = E]
      <3> HIDE DEF bare
      <3> QED BY <2>1 DEF RedactCollection
    <2> HIDE DEF N, E
    <2> QED
      BY <2>2
  <1> HIDE DEF bare
  <1>6. RedactRuntimeMap(bare) = NormalizeTopology(hidden)
    BY <1>5 DEF RedactRuntimeMap
  <1>7. /\ NormalizeTopology(hidden).nodes = N
        /\ NormalizeTopology(hidden).edges = {e \in E : e.source \in ids /\ e.target \in ids}
    <2>1. hidden.nodes = N /\ hidden.edges = E
      OBVIOUS
    <2>2. NormalizeTopology(hidden) = [hidden EXCEPT !.edges = {e \in E : e.source \in ids /\ e.target \in ids}]
      <3> HIDE DEF hidden
      <3> QED BY <2>1 DEF NormalizeTopology
    <2> HIDE DEF N, E, ids
    <2> QED
      BY <2>2
  <1> QED
    BY <1>3, <1>4, <1>6, <1>7 DEF derived, edges

\* Sample topology attests nothing, whatever it is made of.
LEMMA StrippedIsBare ==
    ASSUME NEW edges, NEW ss, NEW rev, AllCurrent(edges, ss, rev), NEW e \in Stripped(edges)
    PROVE  CurrentEdge(e, ss, rev) /\ RedactEdge(e).evidence = {}
  <1>1. PICK x \in edges : e = [x EXCEPT !.evidence = {}]
    BY DEF Stripped
  <1>2. PICK a, b, r, ev : x = [source |-> a, target |-> b, rel |-> r, evidence |-> ev]
    BY DEF AllCurrent, CurrentEdge, IsEdge, Edge
  <1>3. e = [source |-> a, target |-> b, rel |-> r, evidence |-> {}]
    BY <1>1, <1>2
  <1>4. CurrentEdge(e, ss, rev)
    BY <1>3 DEF CurrentEdge, IsEdge, Edge
  <1>5. RedactEdge(e) = [source |-> RedactId(a), target |-> RedactId(b), rel |-> r, evidence |-> {}]
    BY <1>3 DEF RedactEdge
  <1> QED
    BY <1>4, <1>5

\* The collection that the map of a snapshot is derived from.
Combined(mode, ss) ==
    LET nodes == UNION {ss[slot].coll.nodes : slot \in Slots}
        edges == UNION {BoundEdges(slot, ss[slot]) : slot \in Slots}
    IN [nodes |-> nodes, edges |-> {e \in edges : KeepsHostEdge(e, nodes, mode)},
        diagnostics |-> UNION {ss[slot].coll.diagnostics : slot \in Slots}]

\* The map's own nodes and edges are those of its collection.
LEMMA CombinedParts ==
    ASSUME NEW s, NEW mode, NEW ss, NEW rev
    PROVE  LET m == RuntimeMapForSnapshot(s, mode, ss, rev)
               new == RuntimeMapFromCollection(s, Combined(mode, ss), rev, mode)
           IN  /\ m = [nodes |-> new.nodes, edges |-> new.edges, diagnostics |-> m.diagnostics,
                       duplicates |-> m.duplicates, states |-> m.states, at |-> m.at]
  <1>1. RuntimeMapForSnapshot(s, mode, ss, rev) =
          WithSlots(RuntimeMapFromCollection(s, Combined(mode, ss), rev, mode), ss)
    BY DEF RuntimeMapForSnapshot, Combined
  <1> QED
    BY <1>1 DEF WithSlots

\* All that the derived map attests is current, and sample data attest nothing.
LEMMA MapCurrent ==
    ASSUME NEW s, NEW mode, NEW ss \in [Slots -> SlotStates], NEW rev
    PROVE  LET m == RuntimeMapForSnapshot(s, mode, ss, rev)
           IN  /\ AllCurrent(m.edges, ss, rev)
               /\ mode # "docker" => \A e \in m.edges : e.evidence = {}
  <1> DEFINE collected == Combined(mode, ss)
             derived == DeriveRuntimeMap(s, collected, rev)
             edges == IF mode = "docker" THEN derived.edges ELSE Stripped(derived.edges)
             m == RuntimeMapForSnapshot(s, mode, ss, rev)
  <1>1. AllCurrent(collected.edges, ss, rev)
    <2>1. AllCurrent(UNION {BoundEdges(slot, ss[slot]) : slot \in Slots}, ss, rev)
      BY BoundCurrent DEF AllCurrent
    <2> QED
      BY <2>1 DEF Combined, AllCurrent
  <1>2. AllCurrent(derived.edges, ss, rev)
    <2> HIDE DEF collected
    <2> QED BY <1>1, DerivedCurrent
  <1>3. m.edges \subseteq {RedactEdge(e) : e \in edges}
    <2>1. m.edges = RuntimeMapFromCollection(s, collected, rev, mode).edges
      BY CombinedParts
    <2> HIDE DEF collected
    <2> QED BY <2>1, PublishedParts
  <1> HIDE DEF m, derived
  <1>4. \A e \in edges : CurrentEdge(e, ss, rev) /\ (mode # "docker" => RedactEdge(e).evidence = {})
    BY <1>2, StrippedIsBare DEF AllCurrent
  <1>5. \A e \in edges : CurrentEdge(RedactEdge(e), ss, rev)
    BY <1>4, RedactedCurrent
  <1> HIDE DEF edges
  <1>6. AllCurrent(m.edges, ss, rev) /\ (mode # "docker" => \A e \in m.edges : e.evidence = {})
    BY <1>3, <1>4, <1>5 DEF AllCurrent
  <1> QED
    BY <1>6 DEF m

\* The two nodes and the edge of the collision fact.
ScopeNode == Node(IntegrityScope, <<"integrity">>, "other", "integrity_scope",
                  "Runtime identity integrity", "", <<>>)
RiskNode == Node(CollisionRisk, <<"integrity">>, "other", "host_risk",
                 "Duplicate runtime topology identity", "", <<>>)
CollisionEdge(token, at) ==
    Edge(IntegrityScope, CollisionRisk, "related_to",
         {Evidence("identity_collision", IntegrityScope, CollisionRisk, token, at, "fresh")})

\* What the fact adds to a map (append_runtime_identity_collision_fact).
LEMMA AppendParts ==
    ASSUME NEW ns, NEW es, NEW ds, NEW k, NEW st, NEW t, NEW token, NEW at
    PROVE  LET m == [nodes |-> ns, edges |-> es, diagnostics |-> ds, duplicates |-> k, states |-> st, at |-> t]
               new == AppendCollisionFact(m, token, at)
           IN  IF \E n \in ns : n.id \in {IntegrityScope, CollisionRisk}
               THEN new = m
               ELSE new.nodes = ns \cup {ScopeNode, RiskNode} /\ new.edges = es \cup {CollisionEdge(token, at)}
  <1> DEFINE m == [nodes |-> ns, edges |-> es, diagnostics |-> ds, duplicates |-> k, states |-> st, at |-> t]
  <1>1. m.nodes = ns /\ m.edges = es
    OBVIOUS
  <1>2. AppendCollisionFact(m, token, at) =
          IF \E n \in ns : n.id \in {IntegrityScope, CollisionRisk} THEN m
          ELSE [m EXCEPT !.nodes = ns \cup {ScopeNode, RiskNode}, !.edges = es \cup {CollisionEdge(token, at)}]
    <2> HIDE DEF m
    <2> QED BY <1>1 DEF AppendCollisionFact, ScopeNode, RiskNode, CollisionEdge
  <1> DEFINE N == ns \cup {ScopeNode, RiskNode}
             E == es \cup {CollisionEdge(token, at)}
  <1>3. [m EXCEPT !.nodes = N, !.edges = E].nodes = N /\ [m EXCEPT !.nodes = N, !.edges = E].edges = E
    <2> HIDE DEF N, E
    <2> QED OBVIOUS
  <1> QED
    BY <1>2, <1>3

\* The map of a change, before the collision fact, and the map published.
IsPublished(m, new, mode, token, at) ==
    new = IF mode = "docker" /\ HasIdentityCollision(m) THEN AppendCollisionFact(m, token, at) ELSE m

\* What Republish does to the map and the findings.
LEMMA RepublishMap ==
    ASSUME NEW s, NEW h, NEW b, NEW ss, NEW iRev, Republish(s, h, b, ss, iRev)
    PROVE  /\ slots' = ss /\ health' = h
           /\ \E token : IsPublished(RuntimeMapForSnapshot(s, h.mode, ss, <<"docker", dockerRev'.seq>>),
                                     map', h.mode, token, s.at)
           /\ findings' = AssignedFindings(map', h, b, dockerRev')
  <1> DEFINE rev == Advance(dockerRev, DockerObservable(s, h.mode))
             built == Rebuilt(s, h, ss, rev, iRev)
             m == RuntimeMapForSnapshot(s, h.mode, ss, <<"docker", rev.seq>>)
  <1>1. /\ slots' = ss /\ health' = h /\ map' = built.map /\ dockerRev' = built.dockerRev
        /\ findings' = AssignedFindings(built.map, h, b, built.dockerRev)
    BY DEF Republish, Install
  <1>2. built.dockerRev = rev
    BY DEF Rebuilt, Attested
  <1>3. \E token : IsPublished(m, built.map, h.mode, token, s.at)
    <2> HIDE DEF m, rev
    <2> SUFFICES \E token : IsPublished(m, Attested(m, s, h, rev, iRev).map, h.mode, token, s.at)
      BY DEF Rebuilt, m
    <2> QED BY DEF Attested, IsPublished
  <1> HIDE DEF built, m, rev
  <1>4. \E token : IsPublished(m, map', h.mode, token, s.at)
    BY <1>1, <1>3
  <1>5. dockerRev' = rev
    BY <1>1, <1>2
  <1>6. m = RuntimeMapForSnapshot(s, h.mode, ss, <<"docker", dockerRev'.seq>>)
    BY <1>5 DEF m
  <1> QED
    BY <1>1, <1>4, <1>6

\* All that a published map attests is current, or its own collision fact.
Attestations(new, mode, ss, rev) ==
    \A e \in new.edges :
        /\ mode # "docker" => e.evidence = {}
        /\ \A v \in e.evidence : Current(v, ss, rev) \/ v.kind = "identity_collision"

\* The evidence of the published map is of this kind.
LEMMA PublishedEvidence ==
    ASSUME NEW s, NEW mode, NEW ss \in [Slots -> SlotStates], NEW rev, NEW token, NEW at, NEW new,
           IsPublished(RuntimeMapForSnapshot(s, mode, ss, rev), new, mode, token, at)
    PROVE  Attestations(new, mode, ss, rev)
  <1> DEFINE m == RuntimeMapForSnapshot(s, mode, ss, rev)
  <1>1. AllCurrent(m.edges, ss, rev) /\ (mode # "docker" => \A e \in m.edges : e.evidence = {})
    BY MapCurrent
  <1>2. PICK ns, es, ds, k, st, t :
          m = [nodes |-> ns, edges |-> es, diagnostics |-> ds, duplicates |-> k, states |-> st, at |-> t]
    BY CombinedParts
  <1> HIDE DEF m
  <1>3. CASE new = m
    BY <1>1, <1>3 DEF AllCurrent, CurrentEdge, Attestations
  <1>4. CASE new # m
    <2>1. mode = "docker" /\ new = AppendCollisionFact(m, token, at)
      BY <1>4 DEF IsPublished, m
    <2>2. new.edges = es \cup {CollisionEdge(token, at)}
      BY <1>2, <1>4, <2>1, AppendParts
    <2>3. \A v \in CollisionEdge(token, at).evidence : v.kind = "identity_collision"
      BY DEF CollisionEdge, Edge, Evidence
    <2> QED
      BY <1>1, <1>2, <2>1, <2>2, <2>3 DEF AllCurrent, CurrentEdge, Attestations
  <1> QED
    BY <1>3, <1>4

\* A change of the cache leaves it with current evidence only.
LEMMA RepublishEvidence ==
    ASSUME SlotsInv', NEW s, NEW h, NEW b, NEW ss, NEW iRev, Republish(s, h, b, ss, iRev)
    PROVE  EvidenceIsCurrent'
  <1>1. slots' = ss /\ health' = h /\ ss \in [Slots -> SlotStates]
    BY RepublishMap DEF SlotsInv
  <1>2. PICK token : IsPublished(RuntimeMapForSnapshot(s, h.mode, ss, <<"docker", dockerRev'.seq>>),
                                 map', h.mode, token, s.at)
    BY RepublishMap
  <1>0. Attestations(map', h.mode, ss, <<"docker", dockerRev'.seq>>)
    BY <1>1, <1>2, PublishedEvidence
  <1>3. ASSUME NEW e \in map'.edges, NEW v \in e.evidence
        PROVE  h.mode = "docker" /\ (Current(v, ss, <<"docker", dockerRev'.seq>>) \/ v.kind = "identity_collision")
    BY <1>0 DEF Attestations
  <1>4. \A slot \in Slots : ss[slot].dataObs = ss[slot].coll
    BY <1>1 DEF SlotsInv, SlotSound
  <1>5. EvidenceFamilies["identity_collision"].slot = NoSlot
    BY DEF EvidenceFamilies, Family
  <1>6. ASSUME NEW e \in map'.edges, NEW v \in e.evidence
        PROVE  LET slot == EvidenceFamilies[v.kind].slot
               IN /\ health'.mode = "docker"
                  /\ slot # NoSlot => /\ v.rev = <<slot, slots'[slot].dataRev>>
                                      /\ slots'[slot].dataObs = slots'[slot].coll
                                      /\ \E d \in slots'[slot].coll.edges :
                                            d.source = v.subject /\ d.target = v.object
                                      /\ v.freshness = "fresh" <=> slots'[slot].obs = "fresh"
                  /\ slot = NoSlot /\ v.kind # "identity_collision" => v.rev = <<"docker", dockerRev'.seq>>
    <2>1. h.mode = "docker" /\ (Current(v, ss, <<"docker", dockerRev'.seq>>) \/ v.kind = "identity_collision")
      BY <1>3, <1>6
    <2>2. CASE v.kind = "identity_collision"
      BY <1>1, <1>5, <2>1, <2>2
    <2>3. CASE Current(v, ss, <<"docker", dockerRev'.seq>>)
      BY <1>1, <1>4, <2>1, <2>3 DEF Current
    <2> QED
      BY <2>1, <2>2, <2>3
  <1> QED
    BY <1>6 DEF EvidenceIsCurrent

\* Whatever Docker, the collectors and the refreshes do, and in whatever order: evidence that a
\* map publishes is of a Docker source, bears the revision of the very data the slot retains,
\* and is called fresh exactly while the slot's observation is.
THEOREM EvidenceStaysCurrent == Spec => []EvidenceIsCurrent
  <1>1. Init => EvidenceIsCurrent
    BY DEF Init, EvidenceIsCurrent, EmptyMap
  <1>2. SlotsInv' /\ EvidenceIsCurrent /\ [Next]_vars => EvidenceIsCurrent'
    <2> SUFFICES ASSUME SlotsInv', EvidenceIsCurrent, [Next]_vars PROVE EvidenceIsCurrent'
      OBVIOUS
    <2>1. CASE UNCHANGED cacheVars
      BY <2>1 DEF cacheVars, EvidenceIsCurrent
    <2>2. CASE \E s, h, b, ss, iRev : Republish(s, h, b, ss, iRev)
      BY <2>2, RepublishEvidence
    <2> QED
      BY <2>1, <2>2, StepRepublishes
  <1> QED
    BY <1>1, <1>2, SlotsInvariant, PTL DEF Spec

-----------------------------------------------------------------------------
(* What the findings rest on *)

\* One node of the map has this id.
Alone(m, id) == Cardinality({n \in m.nodes : n.id = id}) = 1

\* An edge a finding may rest on: valid evidence, between two ends that are alone.
GroundedEdge(m, e) ==
    /\ e \in m.edges /\ e.evidence # {} /\ HasValidEvidence(e)
    /\ Alone(m, e.source) /\ Alone(m, e.target)

Grounded(m, f) ==
    /\ f.evidence # {}
    /\ \A v \in f.evidence : \E e \in m.edges :
          /\ v \in e.evidence /\ MatchesEdge(e, v)
          /\ \A id \in {e.source, e.target, f.subject, f.target} : Alone(m, id)

AllGrounded(m, fs) == \A f \in fs : Grounded(m, f)

\* A rule's node sets are parts of the unique nodes, so an end found in one is alone.
LEMMA FoundAlone ==
    ASSUME NEW m, NEW id, NEW part \in SUBSET UniqueNodes(m), HasNode(part, id)
    PROVE  Alone(m, id)
  BY DEF HasNode, UniqueNodes, Alone

\* Every set of nodes that a rule looks in is one.
LEMMA RuleNodes ==
    ASSUME NEW nodes
    PROVE  /\ Containers(nodes) \subseteq nodes /\ DaemonStateRisks(nodes) \subseteq nodes
           /\ UnspecifiedRisks(nodes) \subseteq nodes /\ InternalNetworks(nodes) \subseteq nodes
           /\ Listeners(nodes) \subseteq nodes /\ PublishedListeners(nodes) \subseteq nodes
           /\ IntegrityScopes(nodes) \subseteq nodes /\ CollisionRisks(nodes) \subseteq nodes
           /\ Units(nodes) \subseteq nodes /\ ActiveUnits(nodes) \subseteq nodes
           /\ StoppedUnits(nodes) \subseteq nodes
  BY DEF Containers, HostRisks, DaemonStateRisks, UnspecifiedRisks, InternalNetworks, Listeners,
         PublishedListeners, IntegrityScopes, CollisionRisks, Units, ActiveUnits, StoppedUnits

\* An edge that attests and whose ends a rule found is one to rest on.
LEMMA AttestedEdge ==
    ASSUME NEW m, NEW e \in m.edges, NEW kind, NEW freshness, Attests(e, kind, freshness),
           NEW from \in SUBSET UniqueNodes(m), NEW to \in SUBSET UniqueNodes(m),
           HasNode(from, e.source), HasNode(to, e.target)
    PROVE  GroundedEdge(m, e)
  <1>1. e.evidence # {}
    BY FS_EmptySet DEF Attests
  <1> QED
    BY <1>1, FoundAlone DEF GroundedEdge, Attests

\* A finding with the evidence of one such edge is grounded.
LEMMA OneEdge ==
    ASSUME NEW m, NEW e, NEW rule, GroundedEdge(m, e)
    PROVE  Grounded(m, Finding(rule, e, e.evidence))
  BY DEF GroundedEdge, Grounded, Finding, HasValidEvidence

\* So is one with the evidence of two.
LEMMA TwoEdges ==
    ASSUME NEW m, NEW e, NEW p, NEW rule, GroundedEdge(m, e), GroundedEdge(m, p)
    PROVE  Grounded(m, Finding(rule, e, e.evidence \cup p.evidence))
  <1> DEFINE f == Finding(rule, e, e.evidence \cup p.evidence)
  <1>1. f.evidence = e.evidence \cup p.evidence /\ f.subject = e.source /\ f.target = e.target
    BY DEF Finding
  <1>2. f.evidence # {}
    BY <1>1 DEF GroundedEdge
  <1> HIDE DEF f
  <1>3. ASSUME NEW v \in f.evidence
        PROVE  \E x \in m.edges : /\ v \in x.evidence /\ MatchesEdge(x, v)
                                  /\ \A id \in {x.source, x.target, f.subject, f.target} : Alone(m, id)
    <2>1. CASE v \in e.evidence
      BY <1>1, <2>1 DEF GroundedEdge, HasValidEvidence
    <2>2. CASE v \in p.evidence
      BY <1>1, <2>2 DEF GroundedEdge, HasValidEvidence
    <2> QED
      BY <1>1, <2>1, <2>2
  <1>4. Grounded(m, f)
    BY <1>2, <1>3 DEF Grounded
  <1> QED
    BY <1>4 DEF f

\* The rules that rest on one edge.
LEMMA OneEdgeRules ==
    ASSUME NEW m
    PROVE  LET nodes == UniqueNodes(m)
           IN  /\ AllGrounded(m, NotCurrent(m, nodes)) /\ AllGrounded(m, Collision(m, nodes))
               /\ AllGrounded(m, UnspecifiedAddress(m, nodes))
               /\ \A rule, kind : AllGrounded(m, StoppedUnit(m, nodes, rule, kind))
               /\ AllGrounded(m, DaemonStateAlone(m, nodes))
               /\ AllGrounded(m, StoppedDependency(m, nodes))
  <1> DEFINE nodes == UniqueNodes(m)
  <1>1. /\ Containers(nodes) \in SUBSET UniqueNodes(m) /\ DaemonStateRisks(nodes) \in SUBSET UniqueNodes(m)
        /\ UnspecifiedRisks(nodes) \in SUBSET UniqueNodes(m)
        /\ IntegrityScopes(nodes) \in SUBSET UniqueNodes(m) /\ CollisionRisks(nodes) \in SUBSET UniqueNodes(m)
        /\ Units(nodes) \in SUBSET UniqueNodes(m) /\ ActiveUnits(nodes) \in SUBSET UniqueNodes(m)
        /\ StoppedUnits(nodes) \in SUBSET UniqueNodes(m)
    BY RuleNodes
  <1> HIDE DEF nodes
  <1>2. AllGrounded(m, NotCurrent(m, nodes))
    <2> SUFFICES ASSUME NEW f \in NotCurrent(m, nodes) PROVE Grounded(m, f)
      BY DEF AllGrounded
    <2>1. PICK e \in m.edges :
            /\ f = Finding("evidence_not_current", e, e.evidence)
            /\ \E kind \in Declared : Attests(e, kind, {"stale", "timed_out"})
            /\ HasNode(Units(nodes), e.source) /\ HasNode(Units(nodes), e.target)
      BY DEF NotCurrent, Single
    <2> QED
      BY <1>1, <2>1, AttestedEdge, OneEdge
  <1>3. AllGrounded(m, Collision(m, nodes))
    <2> SUFFICES ASSUME NEW f \in Collision(m, nodes) PROVE Grounded(m, f)
      BY DEF AllGrounded
    <2>1. PICK e \in m.edges :
            /\ f = Finding("identity_collision", e, e.evidence)
            /\ Attests(e, "identity_collision", {"fresh"})
            /\ HasNode(IntegrityScopes(nodes), e.source) /\ HasNode(CollisionRisks(nodes), e.target)
      BY DEF Collision, Joins
    <2> QED
      BY <1>1, <2>1, AttestedEdge, OneEdge
  <1>4. AllGrounded(m, UnspecifiedAddress(m, nodes))
    <2> SUFFICES ASSUME NEW f \in UnspecifiedAddress(m, nodes) PROVE Grounded(m, f)
      BY DEF AllGrounded
    <2>1. PICK e \in m.edges :
            /\ f = Finding("unspecified_address", e, e.evidence)
            /\ Attests(e, "unspecified_port", {"fresh"})
            /\ HasNode(Containers(nodes), e.source) /\ HasNode(UnspecifiedRisks(nodes), e.target)
      BY DEF UnspecifiedAddress, Joins
    <2> QED
      BY <1>1, <2>1, AttestedEdge, OneEdge
  <1>5. ASSUME NEW rule, NEW kind PROVE AllGrounded(m, StoppedUnit(m, nodes, rule, kind))
    <2> SUFFICES ASSUME NEW f \in StoppedUnit(m, nodes, rule, kind) PROVE Grounded(m, f)
      BY DEF AllGrounded
    <2>1. PICK e \in m.edges :
            /\ f = Finding(rule, e, e.evidence) /\ Attests(e, kind, {"fresh"})
            /\ HasNode(ActiveUnits(nodes), e.source) /\ HasNode(StoppedUnits(nodes), e.target)
      BY DEF StoppedUnit, Single, Joins
    <2> QED
      BY <1>1, <2>1, AttestedEdge, OneEdge
  <1>6. AllGrounded(m, DaemonStateAlone(m, nodes))
    <2> SUFFICES ASSUME NEW f \in DaemonStateAlone(m, nodes) PROVE Grounded(m, f)
      BY DEF AllGrounded
    <2>1. PICK e \in m.edges :
            /\ f = Finding("daemon_state", e, e.evidence) /\ Attests(e, "daemon_state", {"fresh"})
            /\ HasNode(Containers(nodes), e.source) /\ HasNode(DaemonStateRisks(nodes), e.target)
      BY DEF DaemonStateAlone, DaemonState, Single, Joins
    <2> QED
      BY <1>1, <2>1, AttestedEdge, OneEdge
  <1>7. AllGrounded(m, StoppedDependency(m, nodes))
    <2> SUFFICES ASSUME NEW f \in StoppedDependency(m, nodes) PROVE Grounded(m, f)
      BY DEF AllGrounded
    <2>1. PICK e \in m.edges :
            /\ f = Finding("dependency_not_active", e, e.evidence) /\ Attests(e, "depends_on", {"fresh"})
            /\ HasNode(Containers(nodes), e.source) /\ HasNode(Containers(nodes), e.target)
      BY DEF StoppedDependency, Dependencies, Single, Joins
    <2> QED
      BY <1>1, <2>1, AttestedEdge, OneEdge
  <1> QED
    BY <1>2, <1>3, <1>4, <1>5, <1>6, <1>7 DEF nodes

\* The rules that join the evidence of two edges.
LEMMA TwoEdgeRules ==
    ASSUME NEW m
    PROVE  LET nodes == UniqueNodes(m)
           IN  /\ AllGrounded(m, DaemonStateWithPort(m, nodes))
               /\ AllGrounded(m, MutualDependency(m, nodes))
               /\ AllGrounded(m, InternalNetworkPort(m, nodes))
  <1> DEFINE nodes == UniqueNodes(m)
  <1>1. /\ Containers(nodes) \in SUBSET UniqueNodes(m) /\ DaemonStateRisks(nodes) \in SUBSET UniqueNodes(m)
        /\ InternalNetworks(nodes) \in SUBSET UniqueNodes(m)
        /\ PublishedListeners(nodes) \in SUBSET UniqueNodes(m)
    BY RuleNodes
  <1> HIDE DEF nodes
  <1>2. ASSUME NEW p \in PublishedPorts(m, nodes) PROVE GroundedEdge(m, p)
    <2>1. /\ p \in m.edges /\ Attests(p, "port_publication", {"fresh"})
          /\ HasNode(Containers(nodes), p.source) /\ HasNode(PublishedListeners(nodes), p.target)
      BY <1>2 DEF PublishedPorts, Joins
    <2> QED
      BY <1>1, <2>1, AttestedEdge
  <1>3. ASSUME NEW d \in Dependencies(m, nodes) PROVE GroundedEdge(m, d)
    <2>1. /\ d \in m.edges /\ Attests(d, "depends_on", {"fresh"})
          /\ HasNode(Containers(nodes), d.source) /\ HasNode(Containers(nodes), d.target)
      BY <1>3 DEF Dependencies, Single, Joins
    <2> QED
      BY <1>1, <2>1, AttestedEdge
  <1>4. AllGrounded(m, DaemonStateWithPort(m, nodes))
    <2> SUFFICES ASSUME NEW f \in DaemonStateWithPort(m, nodes) PROVE Grounded(m, f)
      BY DEF AllGrounded
    <2>1. PICK e \in DaemonState(m, nodes), p \in PublishedPorts(m, nodes) :
            /\ f = Finding("daemon_state_port", e, e.evidence \cup p.evidence)
            /\ Attests(e, "daemon_state", {"fresh"})
      BY DEF DaemonStateWithPort, SameSource
    <2>2. /\ e \in m.edges
          /\ HasNode(Containers(nodes), e.source) /\ HasNode(DaemonStateRisks(nodes), e.target)
      BY DEF DaemonState, Joins
    <2>3. GroundedEdge(m, e)
      BY <1>1, <2>1, <2>2, AttestedEdge
    <2> QED
      BY <1>2, <2>1, <2>3, TwoEdges
  <1>5. AllGrounded(m, MutualDependency(m, nodes))
    <2> SUFFICES ASSUME NEW f \in MutualDependency(m, nodes) PROVE Grounded(m, f)
      BY DEF AllGrounded
    <2>1. PICK e \in Dependencies(m, nodes), p \in Dependencies(m, nodes) :
            f = Finding("mutual_dependency", e, e.evidence \cup p.evidence)
      BY DEF MutualDependency
    <2> QED
      BY <1>3, <2>1, TwoEdges
  <1>6. AllGrounded(m, InternalNetworkPort(m, nodes))
    <2> SUFFICES ASSUME NEW f \in InternalNetworkPort(m, nodes) PROVE Grounded(m, f)
      BY DEF AllGrounded
    <2>1. PICK e \in m.edges, p \in PublishedPorts(m, nodes) :
            /\ f = Finding("internal_network_port", e, e.evidence \cup p.evidence)
            /\ Joins(e, "connected_to", Containers(nodes), InternalNetworks(nodes))
            /\ Attests(e, "network_membership", {"fresh"})
      BY DEF InternalNetworkPort, SameSource, Single
    <2>2. GroundedEdge(m, e)
      BY <1>1, <2>1, AttestedEdge DEF Joins
    <2> QED
      BY <1>2, <2>1, <2>2, TwoEdges
  <1> QED
    BY <1>4, <1>5, <1>6 DEF nodes

\* Whatever the map is, each of its findings is grounded in it (derive_findings).
LEMMA DerivedGrounded ==
    ASSUME NEW m
    PROVE  AllGrounded(m, DeriveFindings(m))
  BY OneEdgeRules, TwoEdgeRules DEF DeriveFindings, AllGrounded

\* The findings of a publication are those of its map and those of its Compose binding.
LEMMA AssignedParts ==
    ASSUME NEW m, NEW h, NEW b, NEW rev, NEW f \in AssignedFindings(m, h, b, rev).findings
    PROVE  f \in DeriveFindings(m) \/ f.rule = "declared_mount_missing"
  <1>1. ASSUME NEW x, NEW g \in ComposeFindings(b, x) PROVE g.rule = "declared_mount_missing"
    <2>1. PICK a, ev : g = [rule |-> "declared_mount_missing", subject |-> a, target |-> a, evidence |-> ev]
      BY <1>1, Zenon DEF ComposeFindings
    <2> QED
      BY <2>1
  <1>2. f \in DeriveFindings(m) \/ f \in ComposeFindings(b, <<"docker", rev.seq>>)
    BY DEF AssignedFindings, WithSummary
  <1> QED
    BY <1>1, <1>2

\* A change of the cache leaves it with grounded findings only.
LEMMA RepublishGrounded ==
    ASSUME SlotsInv', NEW s, NEW h, NEW b, NEW ss, NEW iRev, Republish(s, h, b, ss, iRev)
    PROVE  FindingsGrounded'
  <1>1. /\ slots' = ss /\ health' = h /\ ss \in [Slots -> SlotStates]
        /\ findings' = AssignedFindings(map', h, b, dockerRev')
    BY RepublishMap DEF SlotsInv
  <1>2. PICK token : IsPublished(RuntimeMapForSnapshot(s, h.mode, ss, <<"docker", dockerRev'.seq>>),
                                 map', h.mode, token, s.at)
    BY RepublishMap
  <1>3. Attestations(map', h.mode, ss, <<"docker", dockerRev'.seq>>)
    BY <1>1, <1>2, PublishedEvidence
  <1>4. ASSUME NEW f \in findings'.findings, f.rule # "declared_mount_missing"
        PROVE  Grounded(map', f) /\ health'.mode = "docker"
    <2>1. Grounded(map', f)
      BY <1>1, <1>4, AssignedParts, DerivedGrounded DEF AllGrounded
    <2>2. PICK v \in f.evidence : \E e \in map'.edges : v \in e.evidence
      BY <2>1 DEF Grounded
    <2> QED
      BY <1>1, <1>3, <2>1, <2>2 DEF Attestations
  <1> QED
    BY <1>4 DEF FindingsGrounded, Grounded, Alone

\* Every rule of derive_findings, on every map that the daemon can publish, names only ends
\* that are alone with their ids and rests only on facts of edges of that map.
THEOREM FindingsAreGrounded == Spec => []FindingsGrounded
  <1>1. Init => FindingsGrounded
    BY DEF Init, FindingsGrounded
  <1>2. SlotsInv' /\ FindingsGrounded /\ [Next]_vars => FindingsGrounded'
    <2> SUFFICES ASSUME SlotsInv', FindingsGrounded, [Next]_vars PROVE FindingsGrounded'
      OBVIOUS
    <2>1. CASE UNCHANGED cacheVars
      BY <2>1 DEF cacheVars, FindingsGrounded
    <2>2. CASE \E s, h, b, ss, iRev : Republish(s, h, b, ss, iRev)
      BY <2>2, RepublishGrounded
    <2> QED
      BY <2>1, <2>2, StepRepublishes
  <1> QED
    BY <1>1, <1>2, SlotsInvariant, PTL DEF Spec

-----------------------------------------------------------------------------
(* The collision report *)

Reserved == {IntegrityScope, CollisionRisk}

\* A node is the record of its fields, and free of the collision fact's ids.
Free(n) ==
    /\ n = Node(n.id, n.from, n.provider, n.kind, n.label, n.status, n.detail)
    /\ n.id \notin Reserved

AllFree(nodes) == \A n \in nodes : Free(n)

\* A node made of its fields is free if its id is.
LEMMA NodeFree ==
    ASSUME NEW id, NEW from, NEW provider, NEW kind, NEW label, NEW status, NEW detail, id \notin Reserved
    PROVE  Free(Node(id, from, provider, kind, label, status, detail))
  BY DEF Free, Node

\* Redaction makes no reserved id.
LEMMA RedactedFree ==
    ASSUME NEW n, Free(n)
    PROVE  Free(RedactNode(n))
  <1>1. PICK id, fr, pr, ki, la, st, de :
          n = [id |-> id, from |-> fr, provider |-> pr, kind |-> ki, label |-> la, status |-> st, detail |-> de]
    BY DEF Free, Node
  <1> DEFINE d == RedactDetail(de)
             l == RedactText(la)
             t == RedactText(st)
             i == RedactId(id)
  <1>2. RedactNode(n) = [n EXCEPT !.id = i, !.label = l, !.status = t, !.detail = d]
    BY <1>1 DEF RedactNode
  <1>3. i \notin Reserved
    <2>1. id \notin Reserved
      BY <1>1 DEF Free
    <2>2. <<Redacted>> \notin Reserved
      BY DEF Redacted, Reserved, IntegrityScope, CollisionRisk
    <2> QED
      BY <2>1, <2>2 DEF RedactId
  <1> HIDE DEF d, l, t, i
  <1>4. RedactNode(n) = Node(i, fr, pr, ki, l, t, d)
    BY <1>1, <1>2 DEF Node
  <1> QED
    BY <1>3, <1>4, NodeFree

\* What is retained is free.
LEMMA RetainedFree ==
    ASSUME NEW c \in Retainable
    PROVE  AllFree(c.nodes)
  <1>1. CASE c = NoCollection
    BY <1>1 DEF NoCollection, AllFree
  <1>2. CASE c # NoCollection
    <2>1. PICK slot \in Slots : \E r \in Collections[slot] : c = SanitizedForRetention(r)
      BY <1>2 DEF Retainable
    <2>2. PICK raw \in Collections[slot] : c = SanitizedForRetention(raw)
      BY <2>1
    <2>3. PICK ns, es, ds, st : raw = [nodes |-> ns, edges |-> es, diagnostics |-> ds, state |-> st]
      BY CollectionsAssumption
    <2>4. c.nodes = {RedactNode(n) : n \in ns}
      BY <2>2, <2>3 DEF SanitizedForRetention
    <2>5. \A n \in ns : Free(n)
      BY <2>2, <2>3, CollectorsAssumption DEF Free, Reserved
    <2> QED
      BY <2>4, <2>5, RedactedFree DEF AllFree
  <1> QED
    BY <1>1, <1>2

\* Docker's own nodes have ids of their own kinds.
LEMMA DerivedFree ==
    ASSUME NEW s, NEW collected, NEW rev, AllFree(collected.nodes)
    PROVE  AllFree(DeriveRuntimeMap(s, collected, rev).nodes)
  <1>0. \A x, y : <<"container", x>> \notin Reserved /\ <<"network", x>> \notin Reserved
                    /\ <<"volume", x>> \notin Reserved /\ <<"listener", x, y>> \notin Reserved
    BY DEF Reserved, IntegrityScope, CollisionRisk
  <1>1. AllFree(ContainerNodes(s))
    BY <1>0, NodeFree DEF AllFree, ContainerNodes, ContainerId
  <1>2. AllFree(ListenerNodes(s))
    <2> SUFFICES ASSUME NEW n \in ListenerNodes(s) PROVE Free(n)
      BY DEF AllFree
    <2>1. PICK i \in DOMAIN s.containers : \E k \in DOMAIN s.containers[i].ports :
              n = Node(ListenerId(s.containers[i], k), <<"ports", i, k>>, "network", "listener", "port",
                       "listening", <<"port", s.containers[i].ports[k]>>)
      BY DEF ListenerNodes
    <2>2. PICK k \in DOMAIN s.containers[i].ports :
              n = Node(ListenerId(s.containers[i], k), <<"ports", i, k>>, "network", "listener", "port",
                       "listening", <<"port", s.containers[i].ports[k]>>)
      BY <2>1
    <2>3. ListenerId(s.containers[i], k) \notin Reserved
      BY <1>0 DEF ListenerId
    <2> QED
      BY <2>2, <2>3, NodeFree
  <1>3. AllFree(NetworkNodes(s))
    BY <1>0, NodeFree DEF AllFree, NetworkNodes, NetworkId
  <1>4. AllFree(VolumeNodes(s))
    BY <1>0, NodeFree DEF AllFree, VolumeNodes, VolumeId
  <1>5. ASSUME NEW sources, NEW label, NEW risk \in {UnspecifiedRisk, DaemonStateRisk}
        PROVE  AllFree(RiskNodes(sources, risk, label))
    <2>1. risk \notin Reserved
      BY <1>5 DEF Reserved, IntegrityScope, CollisionRisk, UnspecifiedRisk, DaemonStateRisk
    <2> QED
      BY <2>1, NodeFree DEF AllFree, RiskNodes
  <1>6. PICK unspecified, daemon :
          DeriveRuntimeMap(s, collected, rev).nodes =
            collected.nodes \cup (ContainerNodes(s) \cup ListenerNodes(s) \cup NetworkNodes(s) \cup VolumeNodes(s))
              \cup RiskNodes(unspecified, UnspecifiedRisk, "Unspecified-address publication")
              \cup RiskNodes(daemon, DaemonStateRisk, "Docker daemon state exposure")
    BY DEF DeriveRuntimeMap
  <1> QED
    BY <1>1, <1>2, <1>3, <1>4, <1>5, <1>6 DEF AllFree

\* The map has no reserved id before its own fact is appended.
LEMMA MapFree ==
    ASSUME NEW s, NEW mode, NEW ss \in [Slots -> SlotStates], NEW rev
    PROVE  AllFree(RuntimeMapForSnapshot(s, mode, ss, rev).nodes)
  <1> DEFINE collected == Combined(mode, ss)
             m == RuntimeMapForSnapshot(s, mode, ss, rev)
  <1>1. AllFree(collected.nodes)
    <2>1. \A slot \in Slots : AllFree(ss[slot].coll.nodes)
      BY RetainedFree DEF SlotStates
    <2> QED
      BY <2>1 DEF Combined, AllFree
  <1>2. m.nodes = RuntimeMapFromCollection(s, collected, rev, mode).nodes
    BY CombinedParts
  <1> HIDE DEF collected, m
  <1>3. m.nodes = {RedactNode(n) : n \in DeriveRuntimeMap(s, collected, rev).nodes}
    BY <1>2, PublishedParts
  <1>4. AllFree(DeriveRuntimeMap(s, collected, rev).nodes)
    BY <1>1, DerivedFree
  <1>5. AllFree(m.nodes)
    BY <1>3, <1>4, RedactedFree DEF AllFree
  <1> QED
    BY <1>5 DEF m

\* What a rule says are findings under its own name.
SaidBy(rule, fs) == \A f \in fs : \E e, evidence : f = Finding(rule, e, evidence)

\* Each rule of Findings speaks under its own name.
LEMMA RuleNames ==
    ASSUME NEW m, NEW nodes
    PROVE  /\ SaidBy("evidence_not_current", NotCurrent(m, nodes))
           /\ SaidBy("identity_collision", Collision(m, nodes))
           /\ SaidBy("unspecified_address", UnspecifiedAddress(m, nodes))
           /\ \A rule, kind : SaidBy(rule, StoppedUnit(m, nodes, rule, kind))
           /\ SaidBy("daemon_state_port", DaemonStateWithPort(m, nodes))
           /\ SaidBy("daemon_state", DaemonStateAlone(m, nodes))
           /\ SaidBy("mutual_dependency", MutualDependency(m, nodes))
           /\ SaidBy("dependency_not_active", StoppedDependency(m, nodes))
           /\ SaidBy("internal_network_port", InternalNetworkPort(m, nodes))
  <1>1. SaidBy("evidence_not_current", NotCurrent(m, nodes))
    BY Zenon DEF SaidBy, NotCurrent
  <1>2. SaidBy("identity_collision", Collision(m, nodes))
    BY Zenon DEF SaidBy, Collision
  <1>3. SaidBy("unspecified_address", UnspecifiedAddress(m, nodes))
    BY Zenon DEF SaidBy, UnspecifiedAddress
  <1>4. \A rule, kind : SaidBy(rule, StoppedUnit(m, nodes, rule, kind))
    BY Zenon DEF SaidBy, StoppedUnit
  <1>5. SaidBy("daemon_state_port", DaemonStateWithPort(m, nodes))
    BY Zenon DEF SaidBy, DaemonStateWithPort
  <1>6. SaidBy("daemon_state", DaemonStateAlone(m, nodes))
    BY Zenon DEF SaidBy, DaemonStateAlone
  <1>7. SaidBy("mutual_dependency", MutualDependency(m, nodes))
    BY Zenon DEF SaidBy, MutualDependency
  <1>8. SaidBy("dependency_not_active", StoppedDependency(m, nodes))
    BY Zenon DEF SaidBy, StoppedDependency
  <1>9. SaidBy("internal_network_port", InternalNetworkPort(m, nodes))
    BY Zenon DEF SaidBy, InternalNetworkPort
  <1> QED
    BY <1>1, <1>2, <1>3, <1>4, <1>5, <1>6, <1>7, <1>8, <1>9

\* The reports of a publication are what the collision rule says of its map.
Reports(fs) == {f \in fs : f.rule = "identity_collision"}

\* The collision reports among the findings derived from a map are those of the
\* collision rule, whatever the other rules say.
LEMMA ReportsOfMap ==
    ASSUME NEW m, NEW h, NEW b, NEW rev
    PROVE  Reports(AssignedFindings(m, h, b, rev).findings) = Collision(m, UniqueNodes(m))
  <1> DEFINE nodes == UniqueNodes(m)
             all == AssignedFindings(m, h, b, rev).findings
  <1>1. ASSUME NEW rule, NEW fs, SaidBy(rule, fs), NEW f \in fs PROVE f.rule = rule
    BY <1>1 DEF SaidBy, Finding
  <1>2. ASSUME NEW f \in Collision(m, nodes) PROVE f.rule = "identity_collision" /\ f \in all
    <2>1. f.rule = "identity_collision"
      BY <1>1, <1>2, RuleNames
    <2>2. f \in DeriveFindings(m)
      BY <1>2 DEF DeriveFindings
    <2> QED
      BY <2>1, <2>2 DEF AssignedFindings, WithSummary
  <1>3. ASSUME NEW f \in DeriveFindings(m), f.rule = "identity_collision" PROVE f \in Collision(m, nodes)
    <2>1. /\ f \notin NotCurrent(m, nodes) /\ f \notin UnspecifiedAddress(m, nodes)
          /\ f \notin StoppedUnit(m, nodes, "requires_not_active", "systemd_requires")
          /\ f \notin StoppedUnit(m, nodes, "part_of_not_active", "systemd_part_of")
          /\ f \notin DaemonStateWithPort(m, nodes) /\ f \notin DaemonStateAlone(m, nodes)
          /\ f \notin MutualDependency(m, nodes) /\ f \notin StoppedDependency(m, nodes)
          /\ f \notin InternalNetworkPort(m, nodes)
      BY <1>1, <1>3, RuleNames
    <2> QED
      BY <1>3, <2>1 DEF DeriveFindings
  <1>4. ASSUME NEW f \in all, f.rule = "identity_collision" PROVE f \in DeriveFindings(m)
    BY <1>4, AssignedParts
  <1> HIDE DEF all, nodes
  <1>5. Reports(all) = Collision(m, nodes)
    BY <1>2, <1>3, <1>4 DEF Reports
  <1> QED
    BY <1>5 DEF all, nodes

\* A map without the reserved ids reports nothing.
LEMMA FreeReportsNothing ==
    ASSUME NEW m, AllFree(m.nodes)
    PROVE  Collision(m, UniqueNodes(m)) = {}
  <1>1. IntegrityScopes(UniqueNodes(m)) = {}
    BY DEF IntegrityScopes, UniqueNodes, AllFree, Free, Reserved
  <1> QED
    BY <1>1 DEF Collision, Joins, HasNode

\* A map whose nodes are free has its edges between free ends.
LEMMA EndsFree ==
    ASSUME NEW s, NEW mode, NEW ss \in [Slots -> SlotStates], NEW rev,
           NEW e \in RuntimeMapForSnapshot(s, mode, ss, rev).edges
    PROVE  e.source \notin Reserved
  <1> DEFINE m == RuntimeMapForSnapshot(s, mode, ss, rev)
             new == RuntimeMapFromCollection(s, Combined(mode, ss), rev, mode)
  <1>1. m.nodes = new.nodes /\ m.edges = new.edges
    BY CombinedParts
  <1>2. AllFree(m.nodes)
    BY MapFree
  <1>3. e.source \in {n.id : n \in new.nodes}
    <2> DEFINE collected == Combined(mode, ss)
    <2> HIDE DEF collected
    <2>1. \A x \in RuntimeMapFromCollection(s, collected, rev, mode).edges :
            x.source \in {n.id : n \in RuntimeMapFromCollection(s, collected, rev, mode).nodes}
      BY PublishedParts
    <2> QED
      BY <1>1, <2>1 DEF collected
  <1> HIDE DEF m, new
  <1> QED
    BY <1>1, <1>2, <1>3 DEF AllFree, Free

FreeEnds(edges) == \A e \in edges : e.source \notin Reserved

\* A map with the collision fact over these nodes and edges.
WithFact(new, ns, es, token, at) ==
    new.nodes = ns \cup {ScopeNode, RiskNode} /\ new.edges = es \cup {CollisionEdge(token, at)}

\* It reports the collision once.
ReportsOne(new) ==
    Cardinality(Collision(new, UniqueNodes(new))) = 1 /\ DuplicateIds(new.nodes) # {}

\* The fact makes one report, and hides no doubled id.
LEMMA AppendedReportsOne ==
    ASSUME NEW ns, NEW es, NEW new, NEW token, NEW at, AllFree(ns), FreeEnds(es),
           WithFact(new, ns, es, token, at), DuplicateIds(ns) # {}
    PROVE  ReportsOne(new)
  <1> DEFINE edge == CollisionEdge(token, at)
             fact == Evidence("identity_collision", IntegrityScope, CollisionRisk, token, at, "fresh")
             nodes == UniqueNodes(new)
  <1> USE DEF WithFact, FreeEnds
  <1>0. IntegrityScope # CollisionRisk
    BY DEF IntegrityScope, CollisionRisk
  <1>1. /\ ScopeNode.id = IntegrityScope /\ ScopeNode.provider = "other" /\ ScopeNode.kind = "integrity_scope"
        /\ RiskNode.id = CollisionRisk /\ RiskNode.provider = "other" /\ RiskNode.kind = "host_risk"
    BY DEF ScopeNode, RiskNode, Node
  <1>2. \A n \in ns : n.id # IntegrityScope /\ n.id # CollisionRisk
    BY DEF AllFree, Free, Reserved
  <1>3. ScopeNode \in nodes /\ RiskNode \in nodes
    <2>1. /\ {n \in new.nodes : n.id = ScopeNode.id} = {ScopeNode}
          /\ {n \in new.nodes : n.id = RiskNode.id} = {RiskNode}
      BY <1>0, <1>1, <1>2
    <2> QED
      BY <2>1, FS_Singleton DEF UniqueNodes
  <1>4. /\ edge.source = IntegrityScope /\ edge.target = CollisionRisk /\ edge.rel = "related_to"
        /\ edge.evidence = {fact}
    BY DEF CollisionEdge, Edge
  <1>5. /\ fact.kind = "identity_collision" /\ fact.subject = IntegrityScope /\ fact.freshness = "fresh"
    BY DEF Evidence
  <1>6. MatchesEdge(edge, fact)
    <2>1. /\ EvidenceFamilies["identity_collision"].rel = "related_to"
          /\ EvidenceFamilies["identity_collision"].source = "integrity_scope"
          /\ EvidenceFamilies["identity_collision"].target = "collision_risk"
      BY DEF EvidenceFamilies, Family
    <2>2. IntegrityScope[1] = "integrity_scope" /\ CollisionRisk[1] = "collision_risk"
      BY DEF IntegrityScope, CollisionRisk
    <2> HIDE DEF edge, fact
    <2> QED
      BY <1>0, <1>4, <1>5, <2>1, <2>2 DEF MatchesEdge, HasValidShape
  <1> HIDE DEF edge, fact, nodes
  <1>7. Attests(edge, "identity_collision", {"fresh"})
    BY <1>4, <1>5, <1>6, FS_Singleton DEF Attests, HasValidEvidence
  <1>8. Joins(edge, "related_to", IntegrityScopes(nodes), CollisionRisks(nodes))
    BY <1>1, <1>3, <1>4 DEF Joins, HasNode, IntegrityScopes, CollisionRisks
  <1>9. {e \in new.edges : e.source = IntegrityScope /\ e.target = CollisionRisk} = {edge}
    BY <1>4 DEF Reserved, edge
  <1>10. ASSUME NEW e \in new.edges, Joins(e, "related_to", IntegrityScopes(nodes), CollisionRisks(nodes))
         PROVE  e = edge
    <2>1. e.source = IntegrityScope /\ e.target = CollisionRisk
      BY <1>10 DEF Joins, HasNode, IntegrityScopes, CollisionRisks
    <2> QED
      BY <1>9, <2>1
  <1>11. Collision(new, nodes) = {Finding("identity_collision", edge, edge.evidence)}
    <2>1. edge \in new.edges
      BY <1>9
    <2>2. Cardinality({e \in new.edges : e.source = IntegrityScope /\ e.target = CollisionRisk}) = 1
      BY <1>9, FS_Singleton
    <2>3. {e \in new.edges :
             /\ Cardinality({x \in new.edges : x.source = IntegrityScope /\ x.target = CollisionRisk}) = 1
             /\ Joins(e, "related_to", IntegrityScopes(nodes), CollisionRisks(nodes))
             /\ Attests(e, "identity_collision", {"fresh"})} = {edge}
      BY <1>7, <1>8, <1>10, <2>1, <2>2
    <2> QED
      BY <2>3 DEF Collision
  <1>12. ASSUME NEW id \in DuplicateIds(ns) PROVE id \in DuplicateIds(new.nodes)
    <2>1. id \in {n.id : n \in ns} /\ Cardinality({n \in ns : n.id = id}) > 1
      BY <1>12 DEF DuplicateIds
    <2>2. {n \in new.nodes : n.id = id} = {n \in ns : n.id = id}
      BY <1>1, <1>2, <2>1
    <2> QED
      BY <2>1, <2>2 DEF DuplicateIds
  <1> QED
    BY <1>11, <1>12, FS_Singleton DEF nodes, ReportsOne

\* A change of the cache leaves it reporting a collision exactly when there is one.
LEMMA RepublishReports ==
    ASSUME SlotsInv', NEW s, NEW h, NEW b, NEW ss, NEW iRev, Republish(s, h, b, ss, iRev)
    PROVE  CollisionReported'
  <1> DEFINE rev == <<"docker", dockerRev'.seq>>
             m == RuntimeMapForSnapshot(s, h.mode, ss, rev)
  <1>1. /\ slots' = ss /\ health' = h /\ ss \in [Slots -> SlotStates]
        /\ findings' = AssignedFindings(map', h, b, dockerRev')
    BY RepublishMap DEF SlotsInv
  <1>2. PICK token : IsPublished(m, map', h.mode, token, s.at)
    BY RepublishMap
  <1>3. AllFree(m.nodes) /\ FreeEnds(m.edges)
    BY <1>1, MapFree, EndsFree DEF FreeEnds
  <1>4. PICK ns, es, ds, k, st, t :
          m = [nodes |-> ns, edges |-> es, diagnostics |-> ds, duplicates |-> k, states |-> st, at |-> t]
    BY CombinedParts
  <1> HIDE DEF m
  <1>5. Reports(findings'.findings) = Collision(map', UniqueNodes(map'))
    BY <1>1, ReportsOfMap
  <1>6. CASE h.mode = "docker" /\ HasIdentityCollision(m)
    <2>1. map' = AppendCollisionFact(m, token, s.at)
      BY <1>2, <1>6 DEF IsPublished
    <2>2. WithFact(map', ns, es, token, s.at)
      <3>1. ~\E n \in ns : n.id \in {IntegrityScope, CollisionRisk}
        BY <1>3, <1>4 DEF AllFree, Free, Reserved
      <3> QED
        BY <1>4, <2>1, <3>1, AppendParts DEF WithFact
    <2>3. AllFree(ns) /\ FreeEnds(es) /\ DuplicateIds(ns) # {}
      BY <1>3, <1>4, <1>6 DEF HasIdentityCollision
    <2>4. ReportsOne(map')
      BY <2>2, <2>3, AppendedReportsOne
    <2> QED
      BY <1>1, <1>5, <1>6, <2>4 DEF CollisionReported, Reports, ReportsOne
  <1>7. CASE ~(h.mode = "docker" /\ HasIdentityCollision(m))
    <2>1. map' = m
      BY <1>2, <1>7 DEF IsPublished
    <2>2. Collision(map', UniqueNodes(map')) = {}
      BY <1>3, <2>1, FreeReportsNothing
    <2> QED
      BY <1>1, <1>5, <1>7, <2>1, <2>2 DEF CollisionReported, Reports, HasIdentityCollision
  <1> QED
    BY <1>6, <1>7

\* A map with a doubled id says so in exactly one finding, and no other map does: neither the
\* fact's own nodes nor redaction, which may make two ids one, can hide a collision or forge one.
THEOREM CollisionIsReported == Spec => []CollisionReported
  <1>1. Init => CollisionReported
    BY DEF Init, CollisionReported, EmptyMap, MockHealth
  <1>2. SlotsInv' /\ CollisionReported /\ [Next]_vars => CollisionReported'
    <2> SUFFICES ASSUME SlotsInv', CollisionReported, [Next]_vars PROVE CollisionReported'
      OBVIOUS
    <2>1. CASE UNCHANGED cacheVars
      BY <2>1 DEF cacheVars, CollisionReported
    <2>2. CASE \E s, h, b, ss, iRev : Republish(s, h, b, ss, iRev)
      BY <2>2, RepublishReports
    <2> QED
      BY <2>1, <2>2, StepRepublishes
  <1> QED
    BY <1>1, <1>2, SlotsInvariant, PTL DEF Spec
=============================================================================
