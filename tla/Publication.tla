------------------------------ MODULE Publication ------------------------------
(***************************************************************************)
(* The daemon's cache (cache_refresh.rs): every change of it, a Docker     *)
(* read, a fall back to mock data, the claim of a provider slot and the    *)
(* outcome of its collection, rebuilds the runtime map from the retained   *)
(* observations, assigns the revisions and derives the findings under one  *)
(* write lock.  SnapshotTopology and Findings compute the values; this     *)
(* module keeps the state they are computed from.                          *)
(*                                                                         *)
(* When a slot may be claimed, and how claims and outcomes race with a     *)
(* change of source, is ProviderScheduler's subject: here a slot that is   *)
(* not collecting may be claimed at any time while the source is Docker.   *)
(* Times are wall-clock ticks, 0 stands for no time.                       *)
(***************************************************************************)
EXTENDS Findings

CONSTANTS Slots,            \* the provider slots of this instance
          Inventories,      \* what Docker may list
          MockInventory,    \* mock_snapshot
          Messages,         \* why mock data are served
          Collections,      \* what each slot's collector may return
          Bindings,         \* the Compose projections, NoBinding among them
          MaxTime, MaxGeneration, MaxRevision

ASSUME SlotsAssumption == IsFiniteSet(Slots)

ASSUME BoundAssumption ==
    MaxTime \in Nat \ {0} /\ MaxGeneration \in Nat /\ MaxRevision \in Nat \ {0}

\* A collector that returns has set its state (collect_provider_slot).
ASSUME CollectionsAssumption ==
    \A slot \in Slots : \A c \in Collections[slot] :
        /\ c = [nodes |-> c.nodes, edges |-> c.edges, diagnostics |-> c.diagnostics, state |-> c.state]
        /\ c.state \in {"fresh", "disabled"}

\* Every collector prefixes the ids of its nodes with its own name, so that none takes an id
\* of the collision fact, and leaves the evidence of its edges empty.
ASSUME CollectorsAssumption ==
    \A slot \in Slots : \A c \in Collections[slot] :
        /\ \A n \in c.nodes :
              /\ n = Node(n.id, n.from, n.provider, n.kind, n.label, n.status, n.detail)
              /\ n.id \notin {IntegrityScope, CollisionRisk}
        /\ \A e \in c.edges :
              /\ e = [source |-> e.source, target |-> e.target, rel |-> e.rel,
                      evidence |-> e.evidence, marker |-> e.marker]
              /\ e.evidence = {}

VARIABLES snapshot,     \* DaemonCache.snapshot, raw
          health,       \* its mode and message
          binding,      \* compose_runtime_binding
          slots,        \* runtime_providers
          generation,   \* source_generation
          dockerRev, integrityRev, revision,
          map, findings,
          flights,      \* per slot: what the running collection was started with
          now

cacheVars == <<snapshot, health, binding, slots, generation, dockerRev, integrityRev, revision,
               map, findings>>
vars == <<cacheVars, flights, now>>

NoBinding == [fresh |-> FALSE]
NoCollection == [nodes |-> {}, edges |-> {}, diagnostics |-> {}, state |-> "none"]
NoFlight == [running |-> FALSE]

UnavailableSlot(reason) ==
    [obs |-> "unavailable", coll |-> NoCollection, attempt |-> 0, success |-> 0, failures |-> 0,
     dataRev |-> 0, dataObs |-> NoCollection, reason |-> reason]

-----------------------------------------------------------------------------
(* From the retained observations to the runtime map *)

Disabled(state) == state.coll.state = "disabled"

\* Mutant: retained evidence keeps being called fresh while the slot collects again.
BindEvidenceRelabelled(state, slot) ==
    {Edge(e.source, e.target, e.rel,
          IF state.dataRev # 0 /\ e.marker # "" THEN {Evidence(e.marker, e.source, e.target,
              <<slot, state.dataRev>>, state.success, "fresh")} ELSE {}) : e \in state.coll.edges}

\* The marker a collector left on an edge becomes evidence if the slot has a revision and a
\* success, is not disabled, and the edge is of the marker's own kind; otherwise it is dropped.
BindEvidence(state, slot) ==
    LET freshness == CASE state.obs = "fresh" -> "fresh"
                       [] state.obs \in {"collecting", "degraded"} -> "stale"
                       [] OTHER -> "timed_out"
        usable == state.dataRev # 0 /\ state.success # 0 /\ ~Disabled(state)
        Fits(e) == /\ e.marker \in DOMAIN EvidenceFamilies
                   /\ LET f == EvidenceFamilies[e.marker]
                      IN  /\ f.slot = slot /\ e.rel = f.rel /\ e.source # e.target
                          /\ e.source[1] = f.source /\ e.target[1] = f.target
        Facts(e) == IF usable /\ Fits(e)
                    THEN {Evidence(e.marker, e.source, e.target, <<slot, state.dataRev>>,
                                   state.success, freshness)}
                    ELSE {}
    IN {Edge(e.source, e.target, e.rel, Facts(e)) : e \in state.coll.edges}

BindSystemd(state) == BindEvidence(state, "systemd")
BindNpm(state) == BindEvidence(state, "npm")
BindCron(state) == BindEvidence(state, "cron")
BindTmux(state) == BindEvidence(state, "tmux")

\* Another slot's edges keep what its collector gave them.
Unbound(state) == {Edge(e.source, e.target, e.rel, e.evidence) : e \in state.coll.edges}

BoundEdges(slot, state) == CASE slot = "systemd" -> BindSystemd(state)
                             [] slot = "npm"     -> BindNpm(state)
                             [] slot = "cron"    -> BindCron(state)
                             [] slot = "tmux"    -> BindTmux(state)
                             [] OTHER            -> Unbound(state)

\* Jobs and sessions run on the host only if exactly one host was observed; a session needs a
\* Docker source and an id of its own too.
KeepsHostEdge(e, nodes, mode) ==
    LET hosts == {n \in nodes : n.id = Host}
        oneHost == Cardinality(hosts) = 1
                    /\ \A h \in hosts : h.provider = "host" /\ h.kind = "host"
        sources == {n \in nodes : n.id = e.source}
    IN \/ e.target # Host \/ e.rel # "runs_on" \/ e.source[1] \notin {"job", "session"}
       \/ e.source[1] = "job" /\ oneHost
       \/ /\ e.source[1] = "session" /\ oneHost /\ mode = "docker"
          /\ Cardinality(sources) = 1
          /\ \A n \in sources : n.provider = "tmux" /\ n.kind = "session"

SlotDiagnostic(slot, state) == <<slot, state.obs, state.coll # NoCollection>>

\* provider_states_for: what a reader is told about each slot.
ProviderState(state) ==
    LET base == IF state.coll = NoCollection THEN "unavailable" ELSE state.coll.state
        told == CASE state.obs = "fresh" -> base
                  [] base = "disabled" /\ state.obs # "unavailable" -> "disabled"
                  [] state.obs = "collecting" -> IF base = "unavailable" THEN "collecting" ELSE "stale"
                  [] state.obs = "degraded" -> IF state.coll = NoCollection THEN "unavailable" ELSE "stale"
                  [] OTHER -> state.obs
    IN [state |-> told, attempt |-> state.attempt, success |-> state.success,
        failures |-> state.failures, dataRev |-> state.dataRev,
        reason |-> IF told = "disabled" THEN "disabled" ELSE state.reason]

ProviderStates(ss) == [slot \in Slots |-> ProviderState(ss[slot])]

\* The map of a collection, with what it says of the slots.
WithSlots(derived, ss) ==
    [nodes |-> derived.nodes, edges |-> derived.edges,
     diagnostics |-> derived.diagnostics
        \cup {SlotDiagnostic(slot, ss[slot]) : slot \in {x \in Slots : ss[x].obs # "fresh"}},
     duplicates |-> derived.duplicates, states |-> ProviderStates(ss), at |-> derived.at]

RuntimeMapForSnapshot(s, mode, ss, rev) ==
    LET nodes == UNION {ss[slot].coll.nodes : slot \in Slots}
        edges == UNION {BoundEdges(slot, ss[slot]) : slot \in Slots}
    IN WithSlots(RuntimeMapFromCollection(
                    s, [nodes |-> nodes, edges |-> {e \in edges : KeepsHostEdge(e, nodes, mode)},
                        diagnostics |-> UNION {ss[slot].coll.diagnostics : slot \in Slots}], rev, mode),
                 ss)

-----------------------------------------------------------------------------
(* Revisions *)

Advance(rev, observable) ==
    IF rev.last = observable THEN rev ELSE [rev EXCEPT !.seq = @ + 1, !.last = observable]

WithoutTime(s) == [s EXCEPT !.at = 0]

\* The sanitised Docker facts and their source, without the time they were observed at.
DockerObservable(s, mode) == <<mode, WithoutTime(PublishSnapshot(s))>>

\* clear_volatile_observation_markers
Timeless(m) ==
    [m EXCEPT !.at = 0,
              !.edges = {[e EXCEPT !.evidence = {[v EXCEPT !.at = 0] : v \in @}] : e \in @}]

\* Exactly what the routes can expose.
Observable(s, h, m) == <<WithoutTime(PublishSnapshot(s)), h, Timeless(RedactRuntimeMap(m))>>

\* A process that starts afresh draws a new opaque prefix; only a change of source does.
FreshIntegrity(g) == [boot |-> g, seq |-> 0, last |-> "unknown"]

Token(rev) == <<rev.boot, rev.seq>>

-----------------------------------------------------------------------------
(* The common end of every change: rebuild_runtime_map and assign_revision *)

\* Mutant: the fact is appended when the collision appears, not on every rebuild.
AttestedFirstOnly(derived, s, h, rev, iRev) ==
    LET active == h.mode = "docker" /\ HasIdentityCollision(derived)
        integrity == Advance(iRev, IF active THEN "active" ELSE "clear")
    IN [dockerRev |-> rev, integrityRev |-> integrity,
        map |-> IF active /\ integrity # iRev
                THEN AppendCollisionFact(derived, Token(integrity), s.at) ELSE derived]

\* A map whose ids collide says so itself, under its own token.
Attested(derived, s, h, rev, iRev) ==
    LET active == h.mode = "docker" /\ HasIdentityCollision(derived)
        integrity == Advance(iRev, IF active THEN "active" ELSE "clear")
    IN [dockerRev |-> rev, integrityRev |-> integrity,
        map |-> IF active THEN AppendCollisionFact(derived, Token(integrity), s.at) ELSE derived]

Rebuilt(s, h, ss, rev, iRev) ==
    Attested(RuntimeMapForSnapshot(s, h.mode, ss, <<"docker", rev.seq>>), s, h, rev, iRev)

WithSummary(all) == [findings |-> all, summary |-> FindingSummary(all)]

AssignedFindings(m, h, b, rev) ==
    WithSummary(DeriveFindings(m) \cup
                IF h.mode = "docker" /\ b # NoBinding THEN ComposeFindings(b, <<"docker", rev.seq>>) ELSE {})

\* Mutant: the replaced cache brings its own publication revision.
InstallAnew(s, h, b, ss, built) ==
    /\ snapshot' = s /\ health' = h /\ binding' = b /\ slots' = ss
    /\ dockerRev' = built.dockerRev /\ integrityRev' = built.integrityRev
    /\ map' = built.map
    /\ revision' = [seq |-> IF h = health THEN revision.seq ELSE 1,
                    last |-> Observable(s, h, built.map)]
    /\ findings' = AssignedFindings(built.map, h, b, built.dockerRev)

\* The cache becomes this one, with the publication revision it had.
Install(s, h, b, ss, built) ==
    /\ snapshot' = s /\ health' = h /\ binding' = b /\ slots' = ss
    /\ dockerRev' = built.dockerRev /\ integrityRev' = built.integrityRev
    /\ map' = built.map
    /\ revision' = Advance(revision, Observable(s, h, built.map))
    /\ findings' = AssignedFindings(built.map, h, b, built.dockerRev)

Republish(s, h, b, ss, iRev) ==
    Install(s, h, b, ss, Rebuilt(s, h, ss, Advance(dockerRev, DockerObservable(s, h.mode)), iRev))

-----------------------------------------------------------------------------
(* DaemonCache::mock, before the first refresh: nothing is mapped yet *)

EmptyMap == [nodes |-> {}, edges |-> {}, diagnostics |-> {}, duplicates |-> 0,
             states |-> [slot \in Slots |-> ProviderState(UnavailableSlot("none"))], at |-> 1]

MockHealth(message) == [mode |-> "mock", message |-> message]
DockerHealth == [mode |-> "docker", message |-> ""]

Init ==
    LET s == BuildSnapshot(MockInventory, 1)
        h == MockHealth("unavailable")
    IN /\ snapshot = s /\ health = h /\ binding = NoBinding
       /\ slots = [slot \in Slots |-> UnavailableSlot("none")]
       /\ generation = 0
       /\ dockerRev = [seq |-> 1, last |-> DockerObservable(s, "mock")]
       /\ integrityRev = FreshIntegrity(0)
       /\ map = EmptyMap
       /\ revision = [seq |-> 1, last |-> Observable(s, h, EmptyMap)]
       /\ findings = [findings |-> {}, summary |-> FindingSummary({})]
       /\ flights = [slot \in Slots |-> NoFlight]
       /\ now = 1

Tick == now < MaxTime /\ now' = now + 1 /\ UNCHANGED <<cacheVars, flights>>

SameEvidence(left, right) == PublishSnapshot(left) = PublishSnapshot(right)

\* mark_network_observation_stale
NetworkStale(ss) ==
    [slot \in Slots |-> IF slot = "network" /\ ss[slot].obs = "fresh"
                        THEN [ss[slot] EXCEPT !.obs = "degraded"] ELSE ss[slot]]

\* publish_docker_snapshot_cache: the same source keeps its observations and revisions.
PublishSameSource(s, h, b) ==
    /\ h.mode = health.mode
    /\ Republish(s, h, b, IF SameEvidence(snapshot, s) THEN slots ELSE NetworkStale(slots),
                 integrityRev)
    /\ UNCHANGED generation

PublishOtherSource(s, h, b) ==
    /\ h.mode # health.mode /\ generation < MaxGeneration
    /\ Republish(s, h, b, [slot \in Slots |-> UnavailableSlot("source_reset")],
                 FreshIntegrity(generation + 1))
    /\ generation' = generation + 1

Publish(s, h, b) == /\ PublishSameSource(s, h, b) \/ PublishOtherSource(s, h, b)
                    /\ UNCHANGED <<flights, now>>

PublishDocker(raw, b) ==
    /\ revision.seq < MaxRevision
    /\ Publish(BuildSnapshot(raw, now), DockerHealth, IF b = NoBinding THEN b ELSE [b EXCEPT !.at = now])

PublishMock(message) ==
    /\ revision.seq < MaxRevision
    /\ Publish(BuildSnapshot(MockInventory, now), MockHealth(message), NoBinding)

\* claim_due_provider_slots: a disabled slot is probed once.
Claim(slot) ==
    LET state == slots[slot]
        claimed == [state EXCEPT !.obs = "collecting", !.attempt = now, !.reason = "refreshing"]
    IN /\ health.mode = "docker" /\ revision.seq < MaxRevision
       /\ state.obs # "collecting" /\ ~(state.obs = "fresh" /\ Disabled(state))
       /\ ~flights[slot].running
       /\ Republish(snapshot, health, binding, [slots EXCEPT ![slot] = claimed], integrityRev)
       /\ flights' = [flights EXCEPT ![slot] =
                        [running |-> TRUE, snapshot |-> snapshot, generation |-> generation]]
       /\ UNCHANGED <<generation, now>>

\* sanitized_for_retention: no normalisation, an edge may need Docker's nodes.
SanitizedForRetention(c) ==
    [c EXCEPT !.nodes = {RedactNode(n) : n \in @},
              !.edges = {[e EXCEPT !.source = RedactId(@), !.target = RedactId(@)] : e \in @}]

\* update_slot_data_revision
WithData(state, c) ==
    IF state.dataObs = c THEN state ELSE [state EXCEPT !.dataRev = @ + 1, !.dataObs = c]

\* Mutant: the reason of the attempt is not cleared by its success.
CollectedKeepsReason(state, collection, same) ==
    LET c == SanitizedForRetention(collection)
    IN [WithData(state, c) EXCEPT !.success = now, !.failures = 0, !.coll = c,
                                  !.obs = IF same THEN "fresh" ELSE "degraded"]

\* A collection is kept; it is fresh only if Docker showed the same throughout.
Collected(state, collection, same) ==
    LET c == SanitizedForRetention(collection)
    IN [WithData(state, c) EXCEPT
            !.success = now, !.failures = 0, !.reason = "none", !.coll = c,
            !.obs = IF same THEN "fresh" ELSE "degraded"]

\* Mutant: the outcome's own name becomes the observation.
NotCollectedByName(state, outcome) ==
    [state EXCEPT !.obs = outcome, !.failures = @ + 1, !.reason = "collection_" \o outcome]

\* in_flight and timed_out tell the same; what was retained stays.
NotCollected(state, outcome) ==
    [state EXCEPT !.obs = IF outcome = "failed" THEN "degraded" ELSE "timed_out",
                  !.failures = @ + 1,
                  !.reason = IF outcome = "failed" THEN "collection_failed" ELSE "collection_timed_out"]

\* apply_provider_slot_outcome, for a collection of the current source
Apply(slot, new) ==
    /\ flights[slot].running /\ flights[slot].generation = generation
    /\ revision.seq < MaxRevision
    /\ Republish(snapshot, health, binding, [slots EXCEPT ![slot] = new], integrityRev)
    /\ flights' = [flights EXCEPT ![slot] = NoFlight]
    /\ UNCHANGED <<generation, now>>

ApplyCollected(slot) ==
    \E c \in Collections[slot] :
        Apply(slot, Collected(slots[slot], c, SameEvidence(snapshot, flights[slot].snapshot)))

ApplyNotCollected(slot) ==
    \E outcome \in {"failed", "timed_out"} : Apply(slot, NotCollected(slots[slot], outcome))

\* An outcome of an earlier source is dropped.
DropOutcome(slot) ==
    /\ flights[slot].running /\ flights[slot].generation # generation
    /\ flights' = [flights EXCEPT ![slot] = NoFlight]
    /\ UNCHANGED <<cacheVars, now>>

SlotStep(slot) == Claim(slot) \/ ApplyCollected(slot) \/ ApplyNotCollected(slot) \/ DropOutcome(slot)

Next ==
    \/ Tick
    \/ \E raw \in Inventories, b \in Bindings : PublishDocker(raw, b)
    \/ \E message \in Messages : PublishMock(message)
    \/ \E slot \in Slots : SlotStep(slot)

Spec == Init /\ [][Next]_vars

-----------------------------------------------------------------------------
(* Properties *)

TypeOK ==
    /\ health.mode \in {"docker", "mock"} /\ generation \in 0..MaxGeneration
    /\ now \in 1..MaxTime /\ revision.seq \in 1..MaxRevision
    /\ \A slot \in Slots :
          /\ slots[slot].obs \in {"unavailable", "fresh", "collecting", "degraded", "timed_out"}
          /\ slots[slot].attempt \in 0..now /\ slots[slot].success \in 0..now
          /\ slots[slot].coll = NoCollection \/ slots[slot].coll.state \in {"fresh", "disabled"}

\* A publication's revision is a label of what the routes expose: it changes with every
\* change of it, whichever of the cache's parts changed, and never otherwise.  The cache is
\* replaced whole by a refresh, so a revision that is not carried over starts again.
Published == Observable(snapshot, health, map)

Revisioned == INSTANCE RevisionedModel WITH model <- Published, label <- revision.seq

RefinesRevisionedModel == Revisioned!Spec

\* An identical Docker refresh at a later time does not change the revision.
IdenticalRefresh ==
    /\ health' = health /\ health.mode = "docker" /\ flights' = flights
    /\ WithoutTime(snapshot') = WithoutTime(snapshot)

IdenticalRefreshKeepsRevision == [][IdenticalRefresh => revision' = revision]_cacheVars

\* The provider states a map tells pass the API's table of coherent freshness, which refuses
\* the whole map otherwise.
Coherent(p) ==
    /\ p.success # 0 => p.attempt # 0
    /\ p.dataRev # 0 => p.success # 0
    /\ CASE p.state = "fresh" -> /\ p.reason = "none" /\ p.failures = 0 /\ p.success # 0
                                 /\ p.attempt <= p.success /\ p.dataRev # 0
         [] p.state = "collecting" -> p.reason = "refreshing" /\ p.attempt # 0 /\ p.success = 0
         [] p.state = "timed_out" -> p.reason = "collection_timed_out" /\ p.failures > 0 /\ p.attempt # 0
         [] p.state = "disabled" -> p.reason = "disabled"
         [] p.state = "stale" ->
              /\ p.success # 0 /\ p.dataRev # 0 /\ p.attempt # 0
              /\ \/ p.reason = "refreshing"
                 \/ p.reason = "collection_failed" /\ p.failures > 0
                 \/ p.reason = "none" /\ p.attempt <= p.success
         [] p.state = "unavailable" ->
              IF p.reason = "collection_failed"
              THEN p.attempt # 0 /\ p.success = 0 /\ p.failures > 0
              ELSE p.reason \in {"none", "source_reset"} /\ p.attempt = 0 /\ p.success = 0 /\ p.failures = 0

ProviderStatesAccepted == \A slot \in Slots : Coherent(map.states[slot])

\* Evidence called fresh was collected from this source by the slot's last attempt, and
\* bears the revision of the very data it is published with.
EvidenceIsCurrent ==
    \A e \in map.edges : \A v \in e.evidence :
        LET slot == EvidenceFamilies[v.kind].slot
        IN /\ health.mode = "docker"
           /\ slot # NoSlot => /\ v.rev = <<slot, slots[slot].dataRev>>
                               /\ slots[slot].dataObs = slots[slot].coll
                               /\ \E d \in slots[slot].coll.edges :
                                     d.source = v.subject /\ d.target = v.object
                               /\ v.freshness = "fresh" <=> slots[slot].obs = "fresh"
           /\ slot = NoSlot /\ v.kind # "identity_collision" => v.rev = <<"docker", dockerRev.seq>>

\* A finding rests on facts of edges of the published map, and its own ends and theirs are
\* alone with their ids in it; sample data give none.
FindingsGrounded ==
    \A f \in {f \in findings.findings : f.rule # "declared_mount_missing"} :
        /\ health.mode = "docker" /\ f.evidence # {}
        /\ \A v \in f.evidence : \E e \in map.edges :
              /\ v \in e.evidence /\ MatchesEdge(e, v)
              /\ \A id \in {e.source, e.target, f.subject, f.target} :
                    Cardinality({n \in map.nodes : n.id = id}) = 1

\* The collision is reported exactly while the map holds a doubled id, and by one finding.
CollisionReported ==
    LET reports == {f \in findings.findings : f.rule = "identity_collision"}
    IN IF health.mode = "docker" /\ DuplicateIds(map.nodes) # {}
       THEN Cardinality(reports) = 1 ELSE reports = {}
=============================================================================
