----------------------------- MODULE DockerGateway -----------------------------
(***************************************************************************)
(* The Docker Read Gateway (dockermap-docker-gateway) and the requests the *)
(* collector sends through it (docker_collector.rs, docker_config.rs).     *)
(*                                                                         *)
(* A request is a record: its method and target form, whether it carries a *)
(* framing header or a body, the path by kind, whether the path is plain   *)
(* (no dot segments, escapes or second query), the label in its filters,   *)
(* and for logs the container's name and the query's two free parameters.  *)
(* A label as configured may have blanks around it; NoLabel is none.       *)
(***************************************************************************)
EXTENDS Naturals

CONSTANTS LogTail,        \* the tail both sides name
          LabelTexts,     \* DOCKERMAP_DOCKER_LABEL_FILTER as set
          TrimmedLabel,   \* what is left of each when trimmed
          BadLabels,      \* trimmed texts that no filter may be
          NoLabel         \* the empty text

ASSUME LabelAssumption == /\ NoLabel \in LabelTexts /\ TrimmedLabel[NoLabel] = NoLabel
                          /\ NoLabel \notin BadLabels

InventoryPaths == {"containers", "networks", "volumes"}

Request(method, path, label, name, until, tail) ==
    [method |-> method, originForm |-> TRUE, framing |-> FALSE, body |-> FALSE, plain |-> TRUE,
     path |-> path, label |-> label, name |-> name, until |-> until, tail |-> tail]

-----------------------------------------------------------------------------
(* The collector's side *)

\* parse_docker_label_filter: blank is no filter, an unusable one refuses to connect.
CollectorLabel(text) == TrimmedLabel[text]

CollectorConnects(text) == TrimmedLabel[text] \notin BadLabels

\* docker_filters: one label for all three lists.
ListRequests(text) ==
    {Request("GET", path, CollectorLabel(text), "", 0, 0) : path \in InventoryPaths}

LogsRequest(name, until) == Request("GET", "logs", NoLabel, name, until, LogTail)

-----------------------------------------------------------------------------
(* The gateway's side *)

\* serve: an empty text is no filter, a blank or unusable one stops the gateway.
GatewayServes(text) ==
    text = NoLabel \/ (TrimmedLabel[text] # NoLabel /\ TrimmedLabel[text] \notin BadLabels)

PolicyLabel(text) == TrimmedLabel[text]

\* valid_container_name: letters, digits and, not first, three signs.
ValidContainerName(name) == name \notin {"", "-odd"}

\* inventory: exactly the configured filter, or exactly none.
AllowInventory(label, r) == IF r.label = label THEN "allowed" ELSE "query"

\* logs: the parameters in the measured order, with this tail and any whole second.
AllowLogs(r) == IF ~ValidContainerName(r.name) THEN "target"
                ELSE IF r.tail # LogTail THEN "query"
                ELSE "allowed"

\* Policy::allow, its refusals in their order
Allow(label, r) ==
    IF r.method # "GET" THEN "method"
    ELSE IF ~r.originForm THEN "target"
    ELSE IF r.framing THEN "framing"
    ELSE IF ~r.plain THEN "target"
    ELSE IF r.path \in InventoryPaths THEN AllowInventory(label, r)
    ELSE IF r.path = "logs" THEN AllowLogs(r)
    ELSE "target"

HandleAnyBody(text, r, dockerUp) ==                                 \* mutant: the body goes on
    IF Allow(PolicyLabel(text), r) # "allowed" THEN "forbidden"
    ELSE IF dockerUp THEN "forwarded" ELSE "bad_gateway"

\* handle: the body is refused after the target, Docker is connected to last.
Handle(text, r, dockerUp) ==
    IF Allow(PolicyLabel(text), r) # "allowed" \/ r.body THEN "forbidden"
    ELSE IF dockerUp THEN "forwarded" ELSE "bad_gateway"
=============================================================================
