------------------------------- MODULE Findings -------------------------------
(***************************************************************************)
(* The advisory findings (findings.rs): ten rules over the published       *)
(* runtime map, and the one rule over a Compose declaration bound to its   *)
(* running container (compose_runtime_binding.rs).  Every rule names nodes *)
(* that are unique in the map and edges that carry one valid fact; where   *)
(* several edges could support one conclusion it says nothing.  A finding's*)
(* id, severity and texts are fixed by its rule and its ends.              *)
(***************************************************************************)
EXTENDS SnapshotTopology

\* MAX_COMPOSE_RUNTIME_BINDING_CONTAINERS
CONSTANT MaxBoundContainers

\* Mutant: doubled ids are looked up like any other.
UniqueNodesAll(map) == map.nodes

\* The nodes whose id nothing else has, and their ends of an edge.
UniqueNodes(map) == {n \in map.nodes : Cardinality({m \in map.nodes : m.id = n.id}) = 1}

HasNode(nodes, id) == \E n \in nodes : n.id = id

Containers(nodes) == {n \in nodes : n.provider = "docker" /\ n.kind = "container"}
HostRisks(nodes) == {n \in nodes : n.provider = "docker" /\ n.kind = "host_risk" /\ n.detail = <<>>}
DaemonStateRisks(nodes) == {n \in HostRisks(nodes) : n.id = DaemonStateRisk}
UnspecifiedRisks(nodes) == {n \in HostRisks(nodes) : n.id = UnspecifiedRisk}
InternalNetworks(nodes) == {n \in nodes : n.provider = "docker" /\ n.kind = "network" /\ n.detail[2]}
Listeners(nodes) == {n \in nodes : n.provider = "network" /\ n.kind = "listener"}
PublishedListeners(nodes) == {n \in Listeners(nodes) : IsHostPublished(n.detail[2])}
IntegrityScopes(nodes) == {n \in nodes : n.id = IntegrityScope /\ n.provider = "other"
                                           /\ n.kind = "integrity_scope"}
CollisionRisks(nodes) == {n \in nodes : n.id = CollisionRisk /\ n.provider = "other"
                                          /\ n.kind = "host_risk"}
Units(nodes) == {n \in nodes : n.provider = "systemd" /\ n.kind = "unit"}
ActiveUnits(nodes) == {n \in Units(nodes) : n.status = "active"}
StoppedUnits(nodes) == {n \in Units(nodes) : n.status \in {"inactive", "failed"}}

\* from_status_text: Docker's free text, by its first words.
RunningContainers(nodes) == {n \in Containers(nodes) : n.status \in {"Up", "running"}}
StoppedContainers(nodes) ==
    {n \in Containers(nodes) :
        n.status \in {"Exited", "stopped", "dead", "paused", "removing", "failed", "error"}}

Joins(e, rel, from, to) == e.rel = rel /\ HasNode(from, e.source) /\ HasNode(to, e.target)

\* is_fresh_docker_evidence, is_candidate_requires and the other evidence shapes: exactly one
\* fact, of this kind, valid on this edge, and of this freshness.
Attests(e, kind, freshness) ==
    /\ HasValidEvidence(e) /\ Cardinality(e.evidence) = 1
    /\ \A v \in e.evidence : v.kind = kind /\ v.freshness \in freshness

Finding(rule, e, evidence) ==
    [rule |-> rule, subject |-> e.source, target |-> e.target, evidence |-> evidence]

\* The edges in a set that no other edge of the set doubles, end for end.
Single(edges) == {e \in edges : \A f \in edges :
                    f.source = e.source /\ f.target = e.target => f = e}

SameSource(edges, e) == {f \in edges : f.source = e.source}

\* A current snapshot gives all its facts one time and one token.
SameObservation(e, f) ==
    \A v \in e.evidence, w \in f.evidence : v.at = w.at /\ v.rev = w.rev

Declared == {"systemd_requires", "systemd_wants", "systemd_part_of"}

NotCurrent(map, nodes) ==
    LET Old(e) == \E kind \in Declared : Attests(e, kind, {"stale", "timed_out"})
    IN {Finding("evidence_not_current", e, e.evidence) :
            e \in {e \in Single({e \in map.edges : Old(e)}) :
                     HasNode(Units(nodes), e.source) /\ HasNode(Units(nodes), e.target)}}

Collision(map, nodes) ==
    LET between == {e \in map.edges : e.source = IntegrityScope /\ e.target = CollisionRisk}
    IN {Finding("identity_collision", e, e.evidence) :
            e \in {e \in map.edges :
                     /\ Cardinality(between) = 1
                     /\ Joins(e, "related_to", IntegrityScopes(nodes), CollisionRisks(nodes))
                     /\ Attests(e, "identity_collision", {"fresh"})}}

UnspecifiedAddress(map, nodes) ==
    LET shaped == {e \in map.edges : Joins(e, "exposes", Containers(nodes), UnspecifiedRisks(nodes))}
    IN {Finding("unspecified_address", e, e.evidence) :
            e \in {e \in shaped : Cardinality(SameSource(shaped, e)) = 1
                                    /\ Attests(e, "unspecified_port", {"fresh"})}}

\* Requires and PartOf differ in the relation only.
StoppedUnit(map, nodes, rule, kind) ==
    {Finding(rule, e, e.evidence) :
        e \in {e \in Single({e \in map.edges : Attests(e, kind, {"fresh"})}) :
                 Joins(e, EvidenceFamilies[kind].rel, ActiveUnits(nodes), StoppedUnits(nodes))}}

DaemonState(map, nodes) ==
    {e \in map.edges : Joins(e, "exposes_daemon_state", Containers(nodes), DaemonStateRisks(nodes))}

Listening(map, nodes) == {e \in map.edges : Joins(e, "exposes", Containers(nodes), Listeners(nodes))}

PublishedPorts(map, nodes) ==
    {e \in map.edges : Joins(e, "exposes", Containers(nodes), PublishedListeners(nodes))
                         /\ Attests(e, "port_publication", {"fresh"})}

\* Both facts must be the container's only ones of their shape.
DaemonStateWithPort(map, nodes) ==
    LET daemon == DaemonState(map, nodes)
    IN UNION {{Finding("daemon_state_port", e, e.evidence \cup p.evidence) :
                  p \in {p \in SameSource(PublishedPorts(map, nodes), e) : SameObservation(e, p)}} :
              e \in {e \in daemon :
                       /\ Cardinality(SameSource(daemon, e)) = 1
                       /\ Cardinality(SameSource(Listening(map, nodes), e)) = 1
                       /\ Attests(e, "daemon_state", {"fresh"})}}

DaemonStateAlone(map, nodes) ==
    {Finding("daemon_state", e, e.evidence) :
        e \in {e \in Single(DaemonState(map, nodes)) : Attests(e, "daemon_state", {"fresh"})}}

\* Declared dependencies with nothing else between the two containers.
Dependencies(map, nodes) ==
    {e \in Single({e \in map.edges : e.rel = "depends_on"}) :
        e.source # e.target /\ Joins(e, "depends_on", Containers(nodes), Containers(nodes))
            /\ Attests(e, "depends_on", {"fresh"})}

\* An unordered pair is reported once, from the end whose id sorts first.
SortsFirst(a, b) == a = CHOOSE x \in {a, b} : TRUE

MutualDependency(map, nodes) ==
    LET deps == Dependencies(map, nodes)
        Back(e) == {f \in deps : f.source = e.target /\ f.target = e.source /\ SameObservation(e, f)}
    IN UNION {{Finding("mutual_dependency", e, e.evidence \cup f.evidence) : f \in Back(e)} :
              e \in {e \in deps : SortsFirst(e.source, e.target)}}

StoppedDependency(map, nodes) ==
    {Finding("dependency_not_active", e, e.evidence) :
        e \in {e \in Dependencies(map, nodes) :
                 HasNode(RunningContainers(nodes), e.source) /\ HasNode(StoppedContainers(nodes), e.target)}}

\* One finding for each internal network and each published port of a container.
InternalNetworkPort(map, nodes) ==
    LET members == {e \in map.edges :
                      Joins(e, "connected_to", Containers(nodes), InternalNetworks(nodes))}
        ports == PublishedPorts(map, nodes) \cap Single(Listening(map, nodes))
    IN UNION {{Finding("internal_network_port", e, e.evidence \cup p.evidence) :
                  p \in SameSource(ports, e)} :
              e \in {e \in Single(members) : Attests(e, "network_membership", {"fresh"})}}

\* derive_findings.  The cached map has no source, so the mock guard never applies to it.
DeriveFindings(map) ==
    LET nodes == UniqueNodes(map)
    IN NotCurrent(map, nodes) \cup Collision(map, nodes) \cup UnspecifiedAddress(map, nodes)
        \cup StoppedUnit(map, nodes, "requires_not_active", "systemd_requires")
        \cup StoppedUnit(map, nodes, "part_of_not_active", "systemd_part_of")
        \cup DaemonStateWithPort(map, nodes) \cup DaemonStateAlone(map, nodes)
        \cup MutualDependency(map, nodes) \cup StoppedDependency(map, nodes)
        \cup InternalNetworkPort(map, nodes)

-----------------------------------------------------------------------------
(* The summary: each rule has one severity and one category *)

Warnings == {"requires_not_active", "daemon_state_port", "daemon_state", "declared_mount_missing"}

Category == [requires_not_active    |-> "declared_dependency",
             part_of_not_active     |-> "declared_dependency",
             dependency_not_active  |-> "declared_dependency",
             mutual_dependency      |-> "declared_dependency",
             declared_mount_missing |-> "declared_dependency",
             daemon_state           |-> "docker_daemon_authority",
             internal_network_port  |-> "host_port_publication",
             daemon_state_port      |-> "host_port_publication",
             unspecified_address    |-> "host_port_publication",
             identity_collision     |-> "evidence_integrity",
             evidence_not_current   |-> "evidence_integrity"]

FindingSummary(fs) ==
    [warnings   |-> Cardinality({f \in fs : f.rule \in Warnings}),
     advisories |-> Cardinality({f \in fs : f.rule \notin Warnings}),
     categories |-> [c \in {Category[r] : r \in DOMAIN Category} |->
                        Cardinality({f \in fs : Category[f.rule] = c})]]

-----------------------------------------------------------------------------
(* A Compose declaration against the container it is bound to *)

\* mounts_match: the same kind, target and source; a bind's source is the resolved one, if any.
MountsMatch(declared, runtime) ==
    /\ declared.kind = runtime.kind /\ declared.target = runtime.target
    /\ runtime.source = IF declared.kind = "bind" /\ declared.resolved # ""
                        THEN declared.resolved ELSE declared.source

\* The containers of the declaration's own project and files that run a service.
BoundTo(binding, service) ==
    {i \in DOMAIN binding.containers :
        LET c == binding.containers[i]
        IN  c.project = binding.project /\ c.files = binding.files /\ c.service = service}

\* Nothing without a fresh, complete and warning-free scan of exactly the bound files.
UsableBinding(binding) ==
    /\ binding.fresh /\ binding.project # "" /\ binding.files # {}
    /\ Len(binding.containers) <= MaxBoundContainers
    /\ binding.scan.files = binding.files /\ ~binding.scan.warnings
    /\ \A i \in DOMAIN binding.containers :
          binding.containers[i].id # "" /\ binding.containers[i].service # ""

\* derive_compose_runtime_mount_findings: the one container of the declared service, whose id
\* no other has, lacks the declared mount.
ComposeFindings(binding, rev) ==
    LET cs == binding.containers
        Sole(service) == {i \in BoundTo(binding, service) :
                            /\ BoundTo(binding, service) = {i}
                            /\ \A j \in DOMAIN cs \ {i} : cs[j].id # cs[i].id}
        Lacks(i, m) == \A r \in cs[i].mounts : ~MountsMatch(m, r)
        Subject(i) == <<"binding", cs[i].id>>
        Fact(kind, i, k) ==
            Evidence(kind, Subject(i), <<"mount", cs[i].id, k>>, rev, binding.at, "fresh")
        Missing(k) == {i \in Sole(binding.scan.mounts[k].service) : Lacks(i, binding.scan.mounts[k])}
    IN IF ~UsableBinding(binding) THEN {}
       ELSE UNION {{[rule |-> "declared_mount_missing", subject |-> Subject(i), target |-> Subject(i),
                     evidence |-> {Fact("compose_mount", i, k), Fact("compose_binding", i, k)}] :
                        i \in Missing(k)} :
                   k \in {k \in DOMAIN binding.scan.mounts :
                            binding.scan.mounts[k].kind \in {"bind", "named"}}}
=============================================================================
