--------------------------- MODULE SnapshotTopology ---------------------------
(***************************************************************************)
(* What a Docker observation becomes on its way out of the daemon: the     *)
(* snapshot built from Docker's lists (docker_collector.rs), the dependency*)
(* graph and the runtime map derived from it (snapshot_runtime.rs), the    *)
(* evidence an edge may carry (models.rs), and the redaction and           *)
(* normalisation every published value goes through (publication.rs).      *)
(*                                                                         *)
(* Texts are strings.  A text in Sensitive is replaced whole, one in Unsafe*)
(* holds characters that are replaced; a generated id hides both, except   *)
(* that a Marked text (one with the test marker) stays sensitive inside it.*)
(* Generated ids are tuples, <<kind, name, ...>>: the code appends a digest*)
(* of the whole raw name to each, so that distinct names stay distinct.    *)
(* Lists whose order or repetition matters are sequences; nodes are sets of*)
(* records that say where they came `from`, so that two nodes with one id  *)
(* remain two.                                                             *)
(***************************************************************************)
EXTENDS Naturals, Sequences, FiniteSets

CONSTANTS Sensitive, Unsafe, Marked

ASSUME TextAssumption == /\ Marked \subseteq Sensitive
                         /\ Sensitive \cap Unsafe = {}
                         /\ "" \notin Sensitive \cup Unsafe

Redacted == "[redacted]"

\* redact_runtime_display_text: the secret is dropped before the characters are cleaned.
RedactText(t) == CASE t \in Sensitive -> Redacted
                   [] t \in Unsafe    -> "[replaced]"
                   [] OTHER           -> t

RedactId(id) == IF Len(id) > 1 /\ id[2] \in Marked THEN <<Redacted>> ELSE id

Host          == <<"host">>
ContainerId(c) == <<"container", c.id>>
NetworkId(n)   == <<"network", n>>
VolumeId(v)    == <<"volume", v>>
UnspecifiedRisk == <<"unspecified_risk">>
DaemonStateRisk == <<"daemon_state_risk">>
IntegrityScope  == <<"integrity_scope">>
CollisionRisk   == <<"collision_risk">>

-----------------------------------------------------------------------------
(* From Docker's lists to the snapshot *)

\* com.docker.compose.depends_on: the conditions are cut off, empty items dropped, and
\* a service s is referred to as container_s.
Reference(service) == [name |-> service, raw |-> "container_" \o service]

DependsOn(label) == {Reference(item.service) : item \in {i \in label : i.service # ""}}

\* The publication Docker reports for one port: public:private/protocol or private/protocol.
PortText(p) == [public |-> p.public, private |-> p.private, protocol |-> p.protocol]

PublishesUnspecified(p) == /\ p.ip \in {"0.0.0.0", "::"}
                           /\ p.public > 0 /\ p.private > 0
                           /\ p.protocol \in {"tcp", "udp", "sctp"}

\* Only binds, named and anonymous volumes keep their kind; a mount with no target is dropped.
ContainerMounts(ms) ==
    {[kind   |-> IF m.type = "volume" THEN IF m.name = "" THEN "anonymous" ELSE "named"
                 ELSE IF m.type = "bind" THEN "bind" ELSE "unsupported",
      source |-> CASE m.type = "bind" -> m.source
                   [] m.type = "volume" -> m.name
                   [] OTHER -> IF m.source = "" THEN m.name ELSE m.source,
      target |-> m.target] : m \in {x \in ms : x.target # ""}}

ContainerRecord(c) ==
    [id |-> c.id, name |-> IF c.names = <<>> THEN c.id ELSE Head(c.names),
     image |-> c.image, status |-> c.status,
     role |-> IF c.service = "" THEN "service" ELSE c.service,
     networks |-> c.networks, ports |-> [i \in DOMAIN c.ports |-> PortText(c.ports[i])],
     unspecified |-> \E i \in DOMAIN c.ports : PublishesUnspecified(c.ports[i]),
     mounts |-> ContainerMounts(c.mounts), dependsOn |-> DependsOn(c.dependsOn)]

\* build_snapshot: members and attachments are joined by container name.
BuildSnapshot(raw, at) ==
    LET containers == [i \in DOMAIN raw.containers |-> ContainerRecord(raw.containers[i])]
        Named(P(_)) == {containers[i].name : i \in {j \in DOMAIN containers : P(j)}}
        Members(n) == LET P(j) == n \in containers[j].networks IN Named(P)
        Attached(v) ==
            LET P(j) == \E m \in raw.containers[j].mounts : m.name # "" /\ m.name = v
            IN  Named(P)
    IN [containers |-> containers,
        networks |-> [i \in DOMAIN raw.networks |->
                        [id |-> raw.networks[i].id, name |-> raw.networks[i].name,
                         internal |-> raw.networks[i].internal,
                         members |-> Members(raw.networks[i].id)]],
        volumes |-> [i \in DOMAIN raw.volumes |->
                        [id |-> raw.volumes[i], name |-> raw.volumes[i],
                         attachedTo |-> Attached(raw.volumes[i])]],
        at |-> at]

\* derive_images: one record per image, the first container's status.
DeriveImages(s) ==
    LET Of(image) == {i \in DOMAIN s.containers : s.containers[i].image = image}
        First(is) == CHOOSE i \in is : \A j \in is : i <= j
    IN {[image |-> image, containers |-> {s.containers[i].name : i \in Of(image)},
         status |-> s.containers[First(Of(image))].status] :
            image \in {s.containers[i].image : i \in DOMAIN s.containers}}

-----------------------------------------------------------------------------
(* Publishing the snapshot *)

PublishContainer(c) ==
    [c EXCEPT !.id = RedactText(@), !.name = RedactText(@), !.image = RedactText(@),
              !.status = RedactText(@), !.role = RedactText(@),
              !.networks = {RedactText(n) : n \in @},
              !.dependsOn = {IF d.name \in Sensitive THEN [name |-> Redacted, raw |-> Redacted]
                             ELSE Reference(RedactText(d.name)) : d \in @},
              !.mounts = {[m EXCEPT !.source = RedactText(@), !.target = RedactText(@)] : m \in @}]

PublishSnapshot(s) ==
    [s EXCEPT !.containers = [i \in DOMAIN @ |-> PublishContainer(@[i])],
              !.networks = [i \in DOMAIN @ |->
                  [@[i] EXCEPT !.id = RedactText(@), !.name = RedactText(@),
                               !.members = {RedactText(m) : m \in @}]],
              !.volumes = [i \in DOMAIN @ |->
                  [@[i] EXCEPT !.id = RedactText(@), !.name = RedactText(@),
                               !.attachedTo = {RedactText(a) : a \in @}]]]

-----------------------------------------------------------------------------
(* Identities and dependencies *)

None == 0

\* ContainerAliases: the containers one alias names; more than one make it unusable.
Named(cs, field, value) == IF value = "" THEN {} ELSE {i \in DOMAIN cs : cs[i][field] = value}

HasUniqueName(cs, i) == Named(cs, "name", cs[i].name) = {i}

\* resolve_dependency: role, name and id are looked up in turn; an alias that names
\* several containers, or two aliases that disagree, resolve to nothing.
ResolveDependency(cs, d) ==
    LET lookups == {Named(cs, "role", d.name), Named(cs, "name", d.name),
                    Named(cs, "id", d.raw)} \ {{}}
    IN IF lookups # {} /\ \A l, k \in lookups : l = k /\ Cardinality(l) = 1
       THEN CHOOSE i \in UNION lookups : TRUE
       ELSE None

-----------------------------------------------------------------------------
(* The dependency graph, derived from the published snapshot *)

GraphNodes(s) ==
    {[id |-> s.containers[i].id, kind |-> "container", label |-> s.containers[i].name] :
        i \in DOMAIN s.containers}
    \cup {[id |-> s.networks[i].id, kind |-> "network", label |-> s.networks[i].name] :
        i \in DOMAIN s.networks}
    \cup {[id |-> s.volumes[i].id, kind |-> "volume", label |-> s.volumes[i].name] :
        i \in DOMAIN s.volumes}

\* GraphIdentityIndex: how many records of one list, or of all three, have an id.
Occurrences(list, id) == IF id = "" THEN 0 ELSE Cardinality({i \in DOMAIN list : list[i].id = id})

UniqueNode(s, id) == Occurrences(s.containers, id) + Occurrences(s.networks, id)
                        + Occurrences(s.volumes, id) = 1

UniqueContainer(s, i) == /\ Occurrences(s.containers, s.containers[i].id) = 1
                         /\ UniqueNode(s, s.containers[i].id)

GraphEdge(s, i, target, rel) == [source |-> s.containers[i].id, target |-> target, rel |-> rel]

NetworkLinks(s, i) ==
    {GraphEdge(s, i, n, "connected_to") : n \in {n \in s.containers[i].networks :
        UniqueContainer(s, i) /\ Occurrences(s.networks, n) = 1 /\ UniqueNode(s, n)}}

VolumeLinks(s, i) ==
    {GraphEdge(s, i, s.volumes[v].id, "mounts") : v \in {v \in DOMAIN s.volumes :
        /\ HasUniqueName(s.containers, i) /\ s.containers[i].name \in s.volumes[v].attachedTo
        /\ UniqueContainer(s, i) /\ UniqueNode(s, s.volumes[v].id)}}

DependencyLinks(s, i) ==
    LET Target(d) == ResolveDependency(s.containers, d)
    IN {GraphEdge(s, i, s.containers[Target(d)].id, "connected_to") :
            d \in {d \in s.containers[i].dependsOn :
                    /\ Target(d) # None
                    /\ UniqueContainer(s, i) /\ UniqueContainer(s, Target(d))
                    /\ Target(d) # i}}

DeriveGraph(s) ==
    [nodes |-> GraphNodes(s),
     edges |-> UNION {NetworkLinks(s, i) \cup VolumeLinks(s, i) \cup DependencyLinks(s, i) :
                        i \in DOMAIN s.containers}]

-----------------------------------------------------------------------------
(* Evidence *)

NoSlot == "none"

Family(slot, rel, source, target) ==
    [slot |-> slot, rel |-> rel, source |-> source, target |-> target]

\* The closed fact families: the provider slot that owns one (which fixes its version,
\* provider and assertion too) and the only kind of edge it may be attached to.
EvidenceFamilies ==
    [network_membership |-> Family(NoSlot, "connected_to", "container", "network"),
     volume_mount       |-> Family(NoSlot, "mounts", "container", "volume"),
     port_publication   |-> Family(NoSlot, "exposes", "container", "listener"),
     unspecified_port   |-> Family(NoSlot, "exposes", "container", "unspecified_risk"),
     depends_on         |-> Family(NoSlot, "depends_on", "container", "container"),
     daemon_state       |-> Family(NoSlot, "exposes_daemon_state", "container", "daemon_state_risk"),
     identity_collision |-> Family(NoSlot, "related_to", "integrity_scope", "collision_risk"),
     systemd_requires   |-> Family("systemd", "requires", "unit", "unit"),
     systemd_wants      |-> Family("systemd", "wants", "unit", "unit"),
     systemd_part_of    |-> Family("systemd", "part_of", "unit", "unit"),
     npm_manifest       |-> Family("npm", "depends_on", "project", "package"),
     cron_schedule      |-> Family("cron", "runs_on", "job", "host"),
     tmux_listing       |-> Family("tmux", "runs_on", "session", "host")]

\* An evidence's id is a digest of the two raw ends; `object` stands for it.
Evidence(kind, subject, object, rev, at, freshness) ==
    [kind |-> kind, subject |-> subject, object |-> object, rev |-> rev, at |-> at,
     freshness |-> freshness]

\* Only a provider slot's evidence may be anything but fresh.
HasValidShape(e) == \/ e.freshness = "fresh"
                    \/ EvidenceFamilies[e.kind].slot # NoSlot /\ e.freshness \in {"stale", "timed_out"}

MatchesEdge(edge, e) ==
    LET f == EvidenceFamilies[e.kind]
    IN /\ e.subject = edge.source /\ HasValidShape(e)
       /\ edge.rel = f.rel /\ edge.source[1] = f.source /\ edge.target[1] = f.target
       /\ edge.source # edge.target

HasValidEvidence(edge) == \A e \in edge.evidence : MatchesEdge(edge, e)

-----------------------------------------------------------------------------
(* The runtime map *)

Node(id, from, provider, kind, label, status, detail) ==
    [id |-> id, from |-> from, provider |-> provider, kind |-> kind, label |-> label,
     status |-> status, detail |-> detail]

Edge(source, target, rel, evidence) ==
    [source |-> source, target |-> target, rel |-> rel, evidence |-> evidence]

DockerEdge(s, rev, source, target, kind) ==
    Edge(source, target, EvidenceFamilies[kind].rel,
         {Evidence(kind, source, target, rev, s.at, "fresh")})

IsHostPublished(p) == /\ p.public > 0 /\ p.private > 0
                      /\ p.protocol \in {"tcp", "udp", "sctp"}

ListenerId(c, k) == <<"listener", c.id, c.ports[k]>>

ContainerNodes(s) ==
    {LET c == s.containers[i]
     IN  Node(ContainerId(c), <<"containers", i>>, "docker", "container", c.name, c.status,
              <<"container", c.image, c.role, c.ports>>) : i \in DOMAIN s.containers}

ListenerNodes(s) ==
    UNION {{Node(ListenerId(s.containers[i], k), <<"ports", i, k>>, "network", "listener", "port",
                 "listening", <<"port", s.containers[i].ports[k]>>) :
                k \in DOMAIN s.containers[i].ports} : i \in DOMAIN s.containers}

NetworkNodes(s) ==
    {Node(NetworkId(s.networks[i].id), <<"networks", i>>, "docker", "network", s.networks[i].name,
          "", <<"internal", s.networks[i].internal>>) : i \in DOMAIN s.networks}

VolumeNodes(s) ==
    {Node(VolumeId(s.volumes[i].id), <<"volumes", i>>, "docker", "volume", s.volumes[i].name,
          "", <<>>) : i \in DOMAIN s.volumes}

MembershipEdges(s, rev) ==
    UNION {{DockerEdge(s, rev, ContainerId(c), NetworkId(n), "network_membership") : n \in c.networks} :
           c \in {s.containers[i] : i \in DOMAIN s.containers}}

\* A container-only port is topology without evidence: nothing attests a host publication.
ExposureEdges(s, rev) ==
    UNION {{IF IsHostPublished(c.ports[k])
            THEN DockerEdge(s, rev, ContainerId(c), ListenerId(c, k), "port_publication")
            ELSE Edge(ContainerId(c), ListenerId(c, k), "exposes", {}) : k \in DOMAIN c.ports} :
           c \in {s.containers[i] : i \in DOMAIN s.containers}}

\* RuntimeContainerIdentityIndex
UniqueRuntimeId(s, i) ==
    s.containers[i].id # "" /\ Named(s.containers, "id", s.containers[i].id) = {i}

DependencyEdges(s, rev) ==
    LET cs == s.containers
        Usable(i, t) == t # None /\ UniqueRuntimeId(s, i) /\ UniqueRuntimeId(s, t) /\ t # i
    IN UNION {{DockerEdge(s, rev, ContainerId(cs[i]), ContainerId(cs[t]), "depends_on") :
                  t \in {t \in {ResolveDependency(cs, d) : d \in cs[i].dependsOn} : Usable(i, t)}} :
              i \in DOMAIN cs}

\* An attachment goes to the first container of that name.
AttachmentEdges(s, rev) ==
    LET First(is) == CHOOSE i \in is : \A j \in is : i <= j
        Owners(v) == {First(Named(s.containers, "name", a)) : a \in
                        {a \in s.volumes[v].attachedTo : Named(s.containers, "name", a) # {}}}
    IN UNION {{DockerEdge(s, rev, ContainerId(s.containers[i]), VolumeId(s.volumes[v].id),
                          "volume_mount") : i \in Owners(v)} : v \in DOMAIN s.volumes}

\* is_docker_daemon_state_bind_source: the socket or the data root.
ExposingDaemonState(cs) ==
    {i \in DOMAIN cs : \E m \in cs[i].mounts :
                         m.kind = "bind" /\ m.source \in {"docker.sock", "docker_root"}}

PublishingEverywhere(cs) ==
    {i \in DOMAIN cs : cs[i].unspecified /\ \E k \in DOMAIN cs[i].ports : IsHostPublished(cs[i].ports[k])}

\* A risk node appears with the first container that shows it, unless its id is taken.
RiskSources(s, nodes, risk, showing) ==
    IF \E n \in nodes : n.id = risk THEN {}
    ELSE {ContainerId(s.containers[i]) : i \in {i \in showing : UniqueRuntimeId(s, i)}}

RiskNodes(sources, risk, label) ==
    IF sources = {} THEN {}
    ELSE {Node(risk, <<"risk">>, "docker", "host_risk", label, "", <<>>)}

RiskEdges(s, rev, nodes, sources, risk, kind) ==
    {DockerEdge(s, rev, c, risk, kind) :
        c \in {c \in sources : Cardinality({n \in nodes : n.id = c}) = 1}}

DuplicateIds(nodes) ==
    {id \in {n.id : n \in nodes} : Cardinality({n \in nodes : n.id = id}) > 1}

\* derive_runtime_map: the host's observations come in, Docker's are added.
DeriveRuntimeMap(s, collected, rev) ==
    LET docker == ContainerNodes(s) \cup ListenerNodes(s) \cup NetworkNodes(s) \cup VolumeNodes(s)
        nodes == collected.nodes \cup docker
        unspecified == RiskSources(s, nodes, UnspecifiedRisk, PublishingEverywhere(s.containers))
        withUnspecified ==
            nodes \cup RiskNodes(unspecified, UnspecifiedRisk, "Unspecified-address publication")
        daemon == RiskSources(s, withUnspecified, DaemonStateRisk, ExposingDaemonState(s.containers))
        all == withUnspecified \cup RiskNodes(daemon, DaemonStateRisk, "Docker daemon state exposure")
    IN [nodes |-> all,
        edges |-> collected.edges \cup MembershipEdges(s, rev) \cup ExposureEdges(s, rev)
                    \cup DependencyEdges(s, rev) \cup AttachmentEdges(s, rev)
                    \cup RiskEdges(s, rev, all, unspecified, UnspecifiedRisk, "unspecified_port")
                    \cup RiskEdges(s, rev, all, daemon, DaemonStateRisk, "daemon_state"),
        diagnostics |-> collected.diagnostics,
        duplicates |-> Cardinality(DuplicateIds(all)),
        at |-> s.at]

-----------------------------------------------------------------------------
(* Publishing the map *)

RedactDetail(d) == IF d # <<>> /\ d[1] = "container"
                   THEN [d EXCEPT ![2] = RedactText(@), ![3] = RedactText(@)] ELSE d

RedactNode(n) == [n EXCEPT !.id = RedactId(@), !.label = RedactText(@), !.status = RedactText(@),
                           !.detail = RedactDetail(@)]

\* The endpoints and the evidence's subject are redacted alike; evidence that no longer
\* fits its edge is dropped, all of it.
RedactEdge(e) ==
    LET redacted == [e EXCEPT !.source = RedactId(@), !.target = RedactId(@),
                              !.evidence = {[v EXCEPT !.subject = RedactId(@)] : v \in @}]
    IN IF HasValidEvidence(redacted) THEN redacted ELSE [redacted EXCEPT !.evidence = {}]

RedactCollection(c) ==
    [c EXCEPT !.nodes = {RedactNode(n) : n \in @}, !.edges = {RedactEdge(e) : e \in @}]

\* normalize_runtime_map_topology: an edge needs both of its ends.
NormalizeTopology(map) ==
    LET ids == {n.id : n \in map.nodes}
    IN [map EXCEPT !.edges = {e \in @ : e.source \in ids /\ e.target \in ids}]

RedactRuntimeMap(map) == NormalizeTopology(RedactCollection(map))

HasIdentityCollision(map) == DuplicateIds(map.nodes) # {}

\* append_runtime_identity_collision_fact: refused when a provider took a reserved id.
AppendCollisionFact(map, token, at) ==
    IF \E n \in map.nodes : n.id \in {IntegrityScope, CollisionRisk} THEN map
    ELSE [map EXCEPT
            !.nodes = @ \cup {Node(IntegrityScope, <<"integrity">>, "other", "integrity_scope",
                                   "Runtime identity integrity", "", <<>>),
                              Node(CollisionRisk, <<"integrity">>, "other", "host_risk",
                                   "Duplicate runtime topology identity", "", <<>>)},
            !.edges = @ \cup {Edge(IntegrityScope, CollisionRisk, "related_to",
                {Evidence("identity_collision", IntegrityScope, CollisionRisk, token, at, "fresh")})}]

\* runtime_map_from_collection: mock topology is never attested.
RuntimeMapFromCollection(s, collected, rev, mode) ==
    RedactRuntimeMap([DeriveRuntimeMap(s, collected, rev) EXCEPT
                        !.edges = IF mode = "docker" THEN @ ELSE {[e EXCEPT !.evidence = {}] : e \in @}])
=============================================================================
