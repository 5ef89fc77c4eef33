---------------------------- MODULE DockerRefresh ----------------------------
(***************************************************************************)
(* One Docker observation after another (collect_snapshot and              *)
(* collect_docker_snapshot_candidate in cache_refresh.rs, with             *)
(* collect_observation in docker_collector.rs), and the log requests that  *)
(* share its cached Docker client (docker_collector, get_logs).            *)
(*                                                                         *)
(* The refresh takes or opens the client, reads containers, networks and   *)
(* volumes one after the other while the host may change, and starts the   *)
(* Compose projection of what it read in a blocking task that holds the    *)
(* projection flight; one time limit covers both.  The client cache is     *)
(* read, filled and emptied in separate critical sections.                 *)
(*                                                                         *)
(* A client remembers the gateway incarnation it was opened for; a request *)
(* through a client of an earlier incarnation fails (external).            *)
(***************************************************************************)
EXTENDS Integers, FiniteSets

CONSTANTS
  AllowMock,     \* AppState.allow_mock
  Users,         \* log requests in progress at once
  Projections,   \* bound: blocking projection tasks alive at once
  MaxHost,       \* bound: changes of the Docker host
  MaxIncarnation \* bound: restarts of the gateway

Inventories == <<"containers", "networks", "volumes">>
Kinds == {Inventories[i] : i \in 1..3}
Versions == 0..MaxHost
Incarnations == 0..MaxIncarnation
NoBinding == -1

ASSUME BoundAssumption ==
  /\ MaxHost \in Nat /\ MaxIncarnation \in Nat
  /\ AllowMock \in BOOLEAN

VARIABLES
  host,        \* version of the containers, networks and volumes on the host
  gateway,     \* incarnation of the Docker Read Gateway, and whether it is up
  docker,      \* AppState.docker: at most one cached client
  refresh,     \* the refresh loop
  expired,     \* the snapshot time limit of the running refresh has passed
  flight,      \* ComposeProjectionFlight.active
  projection,  \* the blocking projection tasks
  cache,       \* what the refresh published
  user         \* the log requests

vars == <<host, gateway, docker, refresh, expired, flight, projection, cache, user>>

Clients == SUBSET Incarnations
Reads == [Kinds -> Versions]
RefreshStates ==
  [pc : {"idle", "client", "connect", "store", "read", "invalidate", "project",
         "await", "publish"},
   client : Incarnations, next : 1..4, reads : Reads,
   task : Projections \cup {"none"}, binding : Versions \cup {NoBinding},
   mode : {"docker", "mock"}]
Caches == [mode : {"docker", "mock"}, reads : Reads,
           binding : Versions \cup {NoBinding}]
ProjectionStates ==
  [st : {"free", "running", "returned"}, of : Versions,
   result : Versions \cup {NoBinding}]
UserStates ==
  [pc : {"idle", "client", "connect", "store", "logs", "done"},
   client : Incarnations, mode : {"docker", "mock"},
   entries : {"none", "docker", "mock"}, stamp : {"none", "docker", "mock"}]

NoReads == [k \in Kinds |-> 0]
IdleRefresh == [pc |-> "idle", client |-> 0, next |-> 1, reads |-> NoReads,
                task |-> "none", binding |-> NoBinding, mode |-> "mock"]
FreeTask == [st |-> "free", of |-> 0, result |-> NoBinding]
IdleUser == [pc |-> "idle", client |-> 0, mode |-> "mock", entries |-> "none",
             stamp |-> "none"]

TypeOK ==
  /\ host \in Versions
  /\ gateway \in [at : Incarnations, up : BOOLEAN]
  /\ docker \in Clients /\ Cardinality(docker) <= 1
  /\ refresh \in RefreshStates
  /\ expired \in BOOLEAN /\ flight \in BOOLEAN
  /\ projection \in [Projections -> ProjectionStates]
  /\ cache \in Caches
  /\ user \in [Users -> UserStates]

\* The daemon boots from the mock cache, before its first refresh.
Init ==
  /\ host = 0 /\ gateway = [at |-> 0, up |-> TRUE]
  /\ docker = {} /\ refresh = IdleRefresh /\ expired = FALSE /\ flight = FALSE
  /\ projection = [t \in Projections |-> FreeTask]
  /\ cache = [mode |-> "mock", reads |-> NoReads, binding |-> NoBinding]
  /\ user = [u \in Users |-> IdleUser]

-----------------------------------------------------------------------------
(* The host, the gateway and time *)

HostChanges ==
  /\ host < MaxHost /\ host' = host + 1
  /\ UNCHANGED <<gateway, docker, refresh, expired, flight, projection, cache, user>>

GatewayStops ==
  /\ gateway.up /\ gateway.at < MaxIncarnation
  /\ gateway' = [gateway EXCEPT !.up = FALSE]
  /\ UNCHANGED <<host, docker, refresh, expired, flight, projection, cache, user>>

GatewayRestarts ==
  /\ ~gateway.up
  /\ gateway' = [at |-> gateway.at + 1, up |-> TRUE]
  /\ UNCHANGED <<host, docker, refresh, expired, flight, projection, cache, user>>

Answers(client) == gateway.up /\ client = gateway.at

Expire ==
  /\ refresh.pc \in {"read", "project", "await"} /\ ~expired
  /\ expired' = TRUE
  /\ UNCHANGED <<host, gateway, docker, refresh, flight, projection, cache, user>>

-----------------------------------------------------------------------------
(* docker_collector: the steps of a refresh up to its client *)

RefreshStarts ==
  /\ refresh.pc = "idle"
  /\ refresh' = [IdleRefresh EXCEPT !.pc = "client"]
  /\ expired' = FALSE
  /\ UNCHANGED <<host, gateway, docker, flight, projection, cache, user>>

\* One read section finds the client or not.
TakeClient ==
  /\ refresh.pc = "client"
  /\ \/ \E c \in docker :
          refresh' = [refresh EXCEPT !.pc = "read", !.client = c]
     \/ docker = {} /\ refresh' = [refresh EXCEPT !.pc = "connect"]
  /\ UNCHANGED <<host, gateway, docker, expired, flight, projection, cache, user>>

\* Opening a client needs the gateway's socket; without it mock data is served.
Connect ==
  /\ refresh.pc = "connect"
  /\ refresh' = IF gateway.up
                THEN [refresh EXCEPT !.pc = "store", !.client = gateway.at]
                ELSE [refresh EXCEPT !.pc = "publish"]
  /\ UNCHANGED <<host, gateway, docker, expired, flight, projection, cache, user>>

StoreClient ==
  /\ refresh.pc = "store"
  /\ docker' = {refresh.client}
  /\ refresh' = [refresh EXCEPT !.pc = "read"]
  /\ UNCHANGED <<host, gateway, expired, flight, projection, cache, user>>

-----------------------------------------------------------------------------
(* collect_observation under the time limit *)

\* The next inventory is read as the host has it at that moment.
ReadInventory ==
  /\ refresh.pc = "read" /\ Answers(refresh.client)
  /\ LET k == Inventories[refresh.next] IN
       refresh' = [refresh EXCEPT
         !.reads = [@ EXCEPT ![k] = host],
         !.next = @ + 1,
         !.pc = IF refresh.next = 3 THEN "project" ELSE "read"]
  /\ UNCHANGED <<host, gateway, docker, expired, flight, projection, cache, user>>

\* A failed or timed out read gives up the whole observation.
ReadFails ==
  /\ refresh.pc = "read"
  /\ expired \/ ~Answers(refresh.client)
  /\ refresh' = [refresh EXCEPT !.pc = "invalidate"]
  /\ UNCHANGED <<host, gateway, docker, expired, flight, projection, cache, user>>

\* Mutant: a failed client stays cached.
InvalidateNever ==
  /\ refresh.pc = "invalidate"
  /\ refresh' = [refresh EXCEPT !.pc = "publish"]
  /\ UNCHANGED <<host, gateway, docker, expired, flight, projection, cache, user>>

\* invalidate_docker_collector: whoever filled the cache in between.
Invalidate ==
  /\ refresh.pc = "invalidate"
  /\ docker' = {}
  /\ refresh' = [refresh EXCEPT !.pc = "publish"]
  /\ UNCHANGED <<host, gateway, expired, flight, projection, cache, user>>

-----------------------------------------------------------------------------
(* The Compose projection and its flight *)

Observed(binding) ==
  refresh' = [refresh EXCEPT !.pc = "publish", !.mode = "docker",
                             !.binding = binding, !.task = "none"]

\* Mutant: a refresh that finds the flight taken waits for that projection.
ProjectionBusyJoins ==
  /\ refresh.pc = "project" /\ flight
  /\ \E t \in Projections :
       /\ projection[t].st = "running"
       /\ refresh' = [refresh EXCEPT !.pc = "await", !.task = t]
  /\ UNCHANGED <<host, gateway, docker, expired, flight, projection, cache, user>>

\* An earlier projection is still unwinding: no correlation this time.
ProjectionBusy ==
  /\ refresh.pc = "project" /\ flight
  /\ Observed(NoBinding)
  /\ UNCHANGED <<host, gateway, docker, expired, flight, projection, cache, user>>

\* The flight is claimed, and dropped at once, when no time is left.
NoTimeToProject ==
  /\ refresh.pc = "project" /\ ~flight /\ expired
  /\ Observed(NoBinding)
  /\ UNCHANGED <<host, gateway, docker, expired, flight, projection, cache, user>>

StartProjection ==
  /\ refresh.pc = "project" /\ ~flight /\ ~expired
  /\ flight' = TRUE
  /\ \E t \in Projections :
       /\ projection[t].st = "free"
       /\ projection' = [projection EXCEPT
            ![t] = [st |-> "running", of |-> refresh.reads["containers"],
                    result |-> NoBinding]]
       /\ refresh' = [refresh EXCEPT !.pc = "await", !.task = t]
  /\ UNCHANGED <<host, gateway, docker, expired, cache, user>>

\* bounded_compose_runtime_binding returns a binding of the containers it was
\* given, or none; the flight is dropped with the closure.  A task nobody
\* awaits any more is gone.
ProjectionReturns(t) ==
  /\ projection[t].st = "running"
  /\ flight' = FALSE
  /\ \E result \in {projection[t].of, NoBinding} :
       projection' = [projection EXCEPT
         ![t] = IF refresh.task = t
                THEN [@ EXCEPT !.st = "returned", !.result = result]
                ELSE FreeTask]
  /\ UNCHANGED <<host, gateway, docker, refresh, expired, cache, user>>

TakeBinding ==
  /\ refresh.pc = "await" /\ projection[refresh.task].st = "returned"
  /\ Observed(projection[refresh.task].result)
  /\ projection' = [projection EXCEPT ![refresh.task] = FreeTask]
  /\ UNCHANGED <<host, gateway, docker, expired, flight, cache, user>>

\* The time limit ends the wait, not the projection.
AwaitTimesOut ==
  /\ refresh.pc = "await" /\ expired /\ projection[refresh.task].st = "running"
  /\ Observed(NoBinding)
  /\ UNCHANGED <<host, gateway, docker, expired, flight, projection, cache, user>>

\* publish_docker_snapshot_cache; a failed observation publishes mock data.
Publish ==
  /\ refresh.pc = "publish"
  /\ cache' = IF refresh.mode = "docker"
              THEN [mode |-> "docker", reads |-> refresh.reads,
                    binding |-> refresh.binding]
              ELSE [mode |-> "mock", reads |-> NoReads, binding |-> NoBinding]
  /\ refresh' = IdleRefresh
  /\ UNCHANGED <<host, gateway, docker, expired, flight, projection, user>>

-----------------------------------------------------------------------------
(* get_logs: the other user of the cached client *)

UserStep(u, new) ==
  /\ user' = [user EXCEPT ![u] = new]
  /\ UNCHANGED <<host, gateway, refresh, expired, flight, projection, cache>>

Responded(u, entries) ==
  [user[u] EXCEPT !.pc = "done", !.entries = entries, !.stamp = user[u].mode]

\* Mode and snapshot are read in one section; mock entries need no client.
AskLogs(u) ==
  /\ user[u].pc \in {"idle", "done"}
  /\ AllowMock \/ cache.mode = "docker"
  /\ UserStep(u,
       IF cache.mode = "docker"
       THEN [IdleUser EXCEPT !.pc = "client", !.mode = "docker"]
       ELSE [IdleUser EXCEPT !.pc = "done", !.entries = "mock", !.stamp = "mock"])
  /\ UNCHANGED docker

UserTakesClient(u) ==
  /\ user[u].pc = "client"
  /\ \/ \E c \in docker :
          UserStep(u, [user[u] EXCEPT !.pc = "logs", !.client = c])
     \/ docker = {} /\ UserStep(u, [user[u] EXCEPT !.pc = "connect"])
  /\ UNCHANGED docker

UserConnects(u) ==
  /\ user[u].pc = "connect"
  /\ UserStep(u, IF gateway.up
                 THEN [user[u] EXCEPT !.pc = "store", !.client = gateway.at]
                 ELSE IdleUser)
  /\ UNCHANGED docker

UserStores(u) ==
  /\ user[u].pc = "store"
  /\ docker' = {user[u].client}
  /\ UserStep(u, [user[u] EXCEPT !.pc = "logs"])

\* Mutant: the response is stamped with the mode published by now.
UserReadsLateStamp(u) ==
  /\ user[u].pc = "logs"
  /\ UserStep(u, IF Answers(user[u].client)
                 THEN [Responded(u, "docker") EXCEPT !.stamp = cache.mode]
                 ELSE IdleUser)
  /\ UNCHANGED docker

\* A failure answers 502; the client stays cached.
UserReads(u) ==
  /\ user[u].pc = "logs"
  /\ UserStep(u, IF Answers(user[u].client) THEN Responded(u, "docker")
                 ELSE IdleUser)
  /\ UNCHANGED docker

Refresh ==
  \/ RefreshStarts \/ TakeClient \/ Connect \/ StoreClient
  \/ ReadInventory \/ ReadFails \/ Invalidate
  \/ ProjectionBusy \/ NoTimeToProject \/ StartProjection
  \/ TakeBinding \/ AwaitTimesOut \/ Publish

User(u) ==
  \/ AskLogs(u) \/ UserTakesClient(u) \/ UserConnects(u)
  \/ UserStores(u) \/ UserReads(u)

Next ==
  \/ HostChanges \/ GatewayStops \/ GatewayRestarts \/ Expire
  \/ Refresh
  \/ \E t \in Projections : ProjectionReturns(t)
  \/ \E u \in Users : User(u)

Spec == Init /\ [][Next]_vars

\* The refresh task is scheduled and its time limit passes while it waits for
\* its projection.  Nothing makes a projection or the gateway return.
Fairness ==
  /\ WF_vars(Refresh)
  /\ WF_vars(Expire /\ refresh.pc = "await")
FairSpec == Spec /\ Fairness

-----------------------------------------------------------------------------
(* Properties *)

\* A published correlation was computed from the containers published with it,
\* never from those of an earlier refresh whose projection came back late
\* (collect_docker_snapshot_candidate).
BindingOfItsSnapshot ==
  (cache.binding # NoBinding) =>
    cache.mode = "docker" /\ cache.binding = cache.reads["containers"]

\* The source stamped on a log response is that of the bytes in it, though the
\* cache may change sides while the logs are read (get_logs).
StampIsHonest == \A u \in Users : user[u].stamp = user[u].entries

\* Once the gateway stays up, Docker is observed again unless reads time out,
\* although a log request may put a client of an earlier incarnation back into
\* the cache after the refresh emptied it (docker_collector, invalidate).
DockerRecovers ==
  (<>[] gateway.up) => []<>(cache.mode = "docker" \/ expired)
=============================================================================
