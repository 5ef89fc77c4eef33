------------------------- MODULE DockerRefreshProofs -------------------------
(***************************************************************************)
(* What a refresh publishes and what a log response says of itself, for    *)
(* every number of log requests, projection tasks, host changes and        *)
(* gateway restarts; and, in the second part, what a reader of a           *)
(* container's log sees and what the gateway lets through, for every log,  *)
(* page size, window and length of the log.                                *)
(***************************************************************************)
EXTENDS DockerRefresh, LogPaging, TLAPS, FiniteSetTheorems, Sequences

\* A refresh that still reads has an inventory left to read.
ReadsLeft == refresh.pc \in {"client", "connect", "store", "read"} => refresh.next \in 1..3

\* A refresh that waits, waits for a projection.
TaskNamed == refresh.pc = "await" => refresh.task \in Projections

\* A gateway that is down has a restart left.
RestartLeft == ~gateway.up => gateway.at < MaxIncarnation

TypeInv == TypeOK /\ ReadsLeft /\ TaskNamed /\ RestartLeft

\* The cache holds one client, or none.
LEMMA OneClient ==
  /\ {} \in Clients /\ Cardinality({}) <= 1
  /\ \A c \in Incarnations : {c} \in Clients /\ Cardinality({c}) <= 1
  BY FS_EmptySet, FS_Singleton DEF Clients

\* The three inventories are read by their number.
LEMMA InventoryKinds ==
  /\ Kinds = {"containers", "networks", "volumes"}
  /\ \A i \in 1..3 : Inventories[i] \in Kinds
  <1>1. Inventories[1] = "containers" /\ Inventories[2] = "networks" /\ Inventories[3] = "volumes"
    BY DEF Inventories
  <1>2. 1..3 = {1, 2, 3}
    OBVIOUS
  <1> QED
    BY <1>1, <1>2 DEF Kinds

\* What is idle has the type of what runs.
LEMMA IdleTypes ==
  /\ IdleRefresh \in RefreshStates
  /\ FreeTask \in ProjectionStates
  /\ IdleUser \in UserStates
  /\ NoReads \in Reads
  <1>1. 0 \in Versions /\ 0 \in Incarnations
    BY BoundAssumption DEF Versions, Incarnations
  <1>2. NoReads \in Reads
    BY <1>1 DEF NoReads, Reads
  <1> QED
    BY <1>1, <1>2 DEF IdleRefresh, RefreshStates, FreeTask, ProjectionStates, IdleUser, UserStates

\* Nothing runs at first.
LEMMA TypeInit == Init => TypeInv
  <1> SUFFICES ASSUME Init PROVE TypeInv
    OBVIOUS
  <1>1. refresh \in RefreshStates /\ user \in [Users -> UserStates]
        /\ projection \in [Projections -> ProjectionStates]
    BY IdleTypes DEF Init
  <1>2. cache \in Caches
    BY IdleTypes DEF Init, Caches
  <1>3. host \in Versions /\ gateway \in [at : Incarnations, up : BOOLEAN]
    BY BoundAssumption DEF Init, Versions, Incarnations
  <1>4. ReadsLeft /\ TaskNamed /\ RestartLeft
    BY DEF Init, ReadsLeft, TaskNamed, RestartLeft, IdleRefresh
  <1> QED
    BY <1>1, <1>2, <1>3, <1>4, OneClient DEF Init, TypeInv, TypeOK

\* The steps of a refresh keep the types.
LEMMA RefreshTypeStep ==
  ASSUME TypeInv, Refresh
  PROVE  TypeInv'
  <1> USE DEF TypeInv, TypeOK, ReadsLeft, TaskNamed, RestartLeft
  <1>1. CASE RefreshStarts
    <2>1. PICK r \in RefreshStates : r = IdleRefresh
      BY IdleTypes
    <2>2. r.next = 1 /\ refresh' = [r EXCEPT !.pc = "client"]
      BY <1>1, <2>1, Zenon DEF RefreshStarts, IdleRefresh
    <2>3. refresh' \in RefreshStates /\ refresh'.next = 1 /\ refresh'.pc = "client"
      BY <2>2 DEF RefreshStates
    <2>4. expired' \in BOOLEAN
          /\ UNCHANGED <<host, gateway, docker, flight, projection, cache, user>>
      BY <1>1 DEF RefreshStarts
    <2> QED
      BY <2>3, <2>4
  <1>2. CASE TakeClient
    BY <1>2 DEF TakeClient, RefreshStates, Clients
  <1>3. CASE Connect
    BY <1>3 DEF Connect, RefreshStates
  <1>4. CASE StoreClient
    BY <1>4, OneClient DEF StoreClient, RefreshStates
  <1>5. CASE ReadInventory
    <2>1. refresh.next \in 1..3 /\ refresh.reads \in [Kinds -> Versions]
      BY <1>5 DEF ReadInventory, RefreshStates, Reads
    <2> DEFINE k == Inventories[refresh.next]
               reads == [refresh.reads EXCEPT ![k] = host]
               next == refresh.next + 1
               pc == IF refresh.next = 3 THEN "project" ELSE "read"
    <2>2. k \in Kinds
      BY <2>1, InventoryKinds
    <2>3. reads \in Reads
      BY <2>1, <2>2 DEF Reads
    <2>4. next \in 1..4 /\ pc \in {"project", "read"} /\ (pc = "read" => next \in 1..3)
      BY <2>1
    <2>5. refresh' = [refresh EXCEPT !.reads = reads, !.next = next, !.pc = pc]
      BY <1>5, Zenon DEF ReadInventory
    <2>6. UNCHANGED <<host, gateway, docker, expired, flight, projection, cache, user>>
      BY <1>5 DEF ReadInventory
    <2> HIDE DEF k, reads, next, pc
    <2>7. refresh' \in RefreshStates /\ refresh'.pc = pc /\ refresh'.next = next
      BY <2>3, <2>4, <2>5 DEF RefreshStates
    <2> QED
      BY <2>4, <2>6, <2>7
  <1>6. CASE ReadFails
    BY <1>6 DEF ReadFails, RefreshStates
  <1>7. CASE Invalidate
    BY <1>7, OneClient DEF Invalidate, RefreshStates
  <1>8. CASE ProjectionBusy \/ NoTimeToProject
    BY <1>8 DEF ProjectionBusy, NoTimeToProject, Observed, RefreshStates
  <1>9. CASE StartProjection
    <2>1. PICK t \in Projections :
            /\ projection' = [projection EXCEPT ![t] =
                 [st |-> "running", of |-> refresh.reads["containers"], result |-> NoBinding]]
            /\ refresh' = [refresh EXCEPT !.pc = "await", !.task = t]
      BY <1>9 DEF StartProjection
    <2>2. refresh.reads["containers"] \in Versions
      BY InventoryKinds DEF RefreshStates, Reads
    <2>3. projection' \in [Projections -> ProjectionStates]
      BY <2>1, <2>2 DEF ProjectionStates
    <2>4. refresh' \in RefreshStates /\ refresh'.pc = "await" /\ refresh'.task = t
      BY <2>1 DEF RefreshStates
    <2> QED
      BY <1>9, <2>3, <2>4 DEF StartProjection
  <1>10. CASE TakeBinding
    <2>1. projection[refresh.task].result \in Versions \cup {NoBinding}
      BY <1>10 DEF TakeBinding, ProjectionStates
    <2>2. projection' \in [Projections -> ProjectionStates]
      BY <1>10, IdleTypes DEF TakeBinding
    <2>3. refresh' \in RefreshStates /\ refresh'.pc = "publish"
      BY <1>10, <2>1 DEF TakeBinding, Observed, RefreshStates
    <2> QED
      BY <1>10, <2>2, <2>3 DEF TakeBinding
  <1>11. CASE AwaitTimesOut
    BY <1>11 DEF AwaitTimesOut, Observed, RefreshStates
  <1>12. CASE Publish
    BY <1>12, IdleTypes DEF Publish, IdleRefresh, Caches, RefreshStates
  <1> QED
    BY <1>1, <1>2, <1>3, <1>4, <1>5, <1>6, <1>7, <1>8, <1>9, <1>10, <1>11, <1>12 DEF Refresh

\* The steps of a log request keep the types.
LEMMA UserTypeStep ==
  ASSUME TypeInv, NEW u \in Users, User(u)
  PROVE  TypeInv'
  <1> USE DEF TypeInv, TypeOK, ReadsLeft, TaskNamed, RestartLeft
  <1>1. ASSUME NEW new \in UserStates, UserStep(u, new),
               docker' \in Clients, Cardinality(docker') <= 1
        PROVE  TypeInv'
    BY <1>1 DEF UserStep
  <1>2. user[u] \in UserStates /\ gateway.at \in Incarnations /\ docker \subseteq Incarnations
    BY DEF Clients
  <1>3. CASE AskLogs(u)
    <2>1. [IdleUser EXCEPT !.pc = "client", !.mode = "docker"] \in UserStates
      BY IdleTypes DEF UserStates
    <2>2. [IdleUser EXCEPT !.pc = "done", !.entries = "mock", !.stamp = "mock"] \in UserStates
      BY IdleTypes DEF UserStates
    <2> QED
      BY <1>1, <1>3, <2>1, <2>2 DEF AskLogs
  <1>4. CASE UserTakesClient(u)
    <2>1. ASSUME NEW c \in docker
          PROVE  [user[u] EXCEPT !.pc = "logs", !.client = c] \in UserStates
      BY <1>2, <2>1 DEF UserStates
    <2>2. [user[u] EXCEPT !.pc = "connect"] \in UserStates
      BY <1>2 DEF UserStates
    <2> QED
      BY <1>1, <1>4, <2>1, <2>2 DEF UserTakesClient
  <1>5. CASE UserConnects(u)
    <2>1. [user[u] EXCEPT !.pc = "store", !.client = gateway.at] \in UserStates
      BY <1>2 DEF UserStates
    <2> QED
      BY <1>1, <1>5, <2>1, IdleTypes DEF UserConnects
  <1>6. CASE UserStores(u)
    <2>1. [user[u] EXCEPT !.pc = "logs"] \in UserStates /\ user[u].client \in Incarnations
      BY <1>2 DEF UserStates
    <2> QED
      BY <1>1, <1>6, <2>1, OneClient DEF UserStores
  <1>7. CASE UserReads(u)
    <2>1. Responded(u, "docker") \in UserStates
      BY <1>2 DEF UserStates, Responded
    <2> QED
      BY <1>1, <1>7, <2>1, IdleTypes DEF UserReads
  <1> QED
    BY <1>3, <1>4, <1>5, <1>6, <1>7 DEF User

\* Every step keeps the types.
LEMMA TypeStep ==
  ASSUME TypeInv, [Next]_vars
  PROVE  TypeInv'
  <1> USE DEF TypeInv, TypeOK, ReadsLeft, TaskNamed, RestartLeft
  <1>1. CASE HostChanges
    BY <1>1, BoundAssumption DEF HostChanges, Versions
  <1>2. CASE GatewayStops
    BY <1>2 DEF GatewayStops
  <1>3. CASE GatewayRestarts
    <2>1. gateway.at \in Incarnations /\ gateway.at < MaxIncarnation
      BY <1>3 DEF GatewayRestarts
    <2>2. gateway.at + 1 \in Incarnations
      BY <2>1, BoundAssumption DEF Incarnations
    <2>3. gateway' \in [at : Incarnations, up : BOOLEAN] /\ gateway'.up
      BY <1>3, <2>2 DEF GatewayRestarts
    <2> QED
      BY <1>3, <2>3 DEF GatewayRestarts
  <1>4. CASE Expire
    BY <1>4 DEF Expire
  <1>5. ASSUME NEW t \in Projections, ProjectionReturns(t)
        PROVE  TypeInv'
    <2>1. PICK result \in {projection[t].of, NoBinding} :
            projection' = [projection EXCEPT ![t] =
              IF refresh.task = t
              THEN [projection[t] EXCEPT !.st = "returned", !.result = result] ELSE FreeTask]
      BY <1>5 DEF ProjectionReturns
    <2>2. projection[t] \in ProjectionStates
      OBVIOUS
    <2>3. [projection[t] EXCEPT !.st = "returned", !.result = result] \in ProjectionStates
      BY <2>2 DEF ProjectionStates
    <2>4. projection' \in [Projections -> ProjectionStates]
      BY <2>1, <2>3, IdleTypes
    <2> QED
      BY <1>5, <2>4 DEF ProjectionReturns
  <1>6. CASE UNCHANGED vars
    BY <1>6 DEF vars
  <1> QED
    BY <1>1, <1>2, <1>3, <1>4, <1>5, <1>6, RefreshTypeStep, UserTypeStep DEF Next

\* Clients, reads, tasks and log requests keep their types, and the cache holds at most one client.
THEOREM TypeCorrect == Spec => []TypeOK
  <1>1. TypeInv /\ [Next]_vars => TypeInv'
    BY TypeStep
  <1>2. TypeInv => TypeOK
    BY DEF TypeInv
  <1> QED
    BY <1>1, <1>2, TypeInit, PTL DEF Spec

-----------------------------------------------------------------------------
(* The correlation of a snapshot *)

\* The projection a refresh waits for is one of the containers this refresh read.
AwaitsItsOwn ==
  refresh.pc = "await" =>
    /\ projection[refresh.task].of = refresh.reads["containers"]
    /\ projection[refresh.task].result \in {NoBinding, refresh.reads["containers"]}

\* What a refresh is about to publish is of its own reads; before, it has no correlation.
CarriesItsOwn ==
  refresh.binding # NoBinding =>
    /\ refresh.pc = "publish" /\ refresh.mode = "docker"
    /\ refresh.binding = refresh.reads["containers"]

BindingInv == AwaitsItsOwn /\ CarriesItsOwn /\ BindingOfItsSnapshot

\* A refresh starts, awaits and publishes its own projection only.
LEMMA BindingRefreshStep ==
  ASSUME TypeInv, BindingInv, Refresh
  PROVE  BindingInv'
  <1> USE DEF BindingInv, AwaitsItsOwn, CarriesItsOwn, BindingOfItsSnapshot
  <1>1. refresh \in RefreshStates /\ projection \in [Projections -> ProjectionStates]
    BY DEF TypeInv, TypeOK
  <1>2. CASE RefreshStarts
    <2>1. refresh'.binding = NoBinding /\ refresh'.pc = "client"
      BY <1>2, Zenon DEF RefreshStarts, IdleRefresh
    <2>2. cache' = cache
      BY <1>2 DEF RefreshStarts
    <2> QED
      BY <2>1, <2>2
  <1>3. CASE TakeClient \/ Connect \/ StoreClient \/ ReadFails \/ Invalidate
    <2>1. /\ refresh'.binding = refresh.binding /\ refresh.pc # "publish"
          /\ refresh'.pc # "await" /\ cache' = cache
      BY <1>1, <1>3 DEF TakeClient, Connect, StoreClient, ReadFails, Invalidate, RefreshStates
    <2> QED
      BY <2>1
  <1>4. CASE ReadInventory
    <2>1. /\ refresh'.binding = refresh.binding /\ refresh.pc # "publish"
          /\ refresh'.pc # "await" /\ cache' = cache
      BY <1>1, <1>4 DEF ReadInventory, RefreshStates
    <2> QED
      BY <2>1
  <1>5. CASE ProjectionBusy \/ NoTimeToProject \/ AwaitTimesOut
    <2>1. refresh'.binding = NoBinding /\ refresh'.pc = "publish" /\ cache' = cache
      BY <1>1, <1>5 DEF ProjectionBusy, NoTimeToProject, AwaitTimesOut, Observed, RefreshStates
    <2> QED
      BY <2>1
  <1>6. CASE StartProjection
    <2>1. PICK t \in Projections :
            /\ projection' = [projection EXCEPT ![t] =
                 [st |-> "running", of |-> refresh.reads["containers"], result |-> NoBinding]]
            /\ refresh' = [refresh EXCEPT !.pc = "await", !.task = t]
      BY <1>6 DEF StartProjection
    <2>2. /\ projection'[t].of = refresh.reads["containers"]
          /\ projection'[t].result = NoBinding
      BY <1>1, <2>1
    <2>3. /\ refresh'.task = t /\ refresh'.reads = refresh.reads
          /\ refresh'.binding = refresh.binding
      BY <1>1, <2>1 DEF RefreshStates
    <2>4. refresh.pc # "publish" /\ cache' = cache
      BY <1>6 DEF StartProjection
    <2> QED
      BY <2>2, <2>3, <2>4
  <1>7. CASE TakeBinding
    <2>1. /\ refresh'.binding = projection[refresh.task].result /\ refresh'.mode = "docker"
          /\ refresh'.pc = "publish" /\ refresh'.reads = refresh.reads
      BY <1>1, <1>7 DEF TakeBinding, Observed, RefreshStates
    <2>2. projection[refresh.task].result \in {NoBinding, refresh.reads["containers"]}
      BY <1>7 DEF TakeBinding
    <2>3. cache' = cache
      BY <1>7 DEF TakeBinding
    <2> QED
      BY <2>1, <2>2, <2>3
  <1>8. CASE Publish
    <2>1. refresh'.binding = NoBinding /\ refresh'.pc = "idle"
      BY <1>8 DEF Publish, IdleRefresh
    <2>2. cache'.binding # NoBinding =>
            cache'.mode = "docker" /\ cache'.binding = cache'.reads["containers"]
      BY <1>8 DEF Publish
    <2> QED
      BY <2>1, <2>2
  <1> QED
    BY <1>2, <1>3, <1>4, <1>5, <1>6, <1>7, <1>8 DEF Refresh

\* No other step touches the projection that a refresh waits for.
LEMMA BindingStep ==
  ASSUME TypeInv, BindingInv, [Next]_vars
  PROVE  BindingInv'
  <1> USE DEF BindingInv, AwaitsItsOwn, CarriesItsOwn, BindingOfItsSnapshot
  <1>1. ASSUME UNCHANGED <<refresh, projection, cache>>
        PROVE  BindingInv'
    BY <1>1
  <1>2. ASSUME NEW t \in Projections, ProjectionReturns(t)
        PROVE  BindingInv'
    <2>1. PICK result \in {projection[t].of, NoBinding} :
            projection' = [projection EXCEPT ![t] =
              IF refresh.task = t
              THEN [projection[t] EXCEPT !.st = "returned", !.result = result] ELSE FreeTask]
      BY <1>2 DEF ProjectionReturns
    <2>2. /\ refresh \in RefreshStates /\ projection \in [Projections -> ProjectionStates]
          /\ refresh.pc = "await" => refresh.task \in Projections
      BY DEF TypeInv, TypeOK, TaskNamed
    <2>3. ASSUME refresh.task = t
          PROVE  projection'[t].of = projection[t].of /\ projection'[t].result = result
      BY <2>1, <2>2, <2>3 DEF ProjectionStates
    <2>4. ASSUME refresh.task # t, refresh.task \in Projections
          PROVE  projection'[refresh.task] = projection[refresh.task]
      BY <2>1, <2>2, <2>4
    <2>5. refresh' = refresh /\ cache' = cache
      BY <1>2 DEF ProjectionReturns
    <2> QED
      BY <2>2, <2>3, <2>4, <2>5
  <1> QED
    BY <1>1, <1>2, BindingRefreshStep
    DEF Next, vars, HostChanges, GatewayStops, GatewayRestarts, Expire, User, UserStep,
        AskLogs, UserTakesClient, UserConnects, UserStores, UserReads

\* A published correlation was computed from the containers published with it, however late
\* projections of earlier refreshes return (collect_docker_snapshot_candidate).
THEOREM BindingIsOfItsSnapshot == Spec => []BindingOfItsSnapshot
  <1>1. Init => BindingInv
    BY DEF Init, BindingInv, AwaitsItsOwn, CarriesItsOwn, BindingOfItsSnapshot, IdleRefresh
  <1>2. TypeInv /\ BindingInv /\ [Next]_vars => (TypeInv /\ BindingInv)'
    BY TypeStep, BindingStep
  <1>3. BindingInv => BindingOfItsSnapshot
    BY DEF BindingInv
  <1> QED
    BY <1>1, <1>2, <1>3, TypeInit, PTL DEF Spec

-----------------------------------------------------------------------------
(* The stamp of a log response *)

\* Until it is answered a request has neither entries nor stamp, and once it asks Docker for
\* them the mode it remembers is Docker's.
Honest(r) ==
  /\ r.pc # "done" => r.entries = "none" /\ r.stamp = "none"
  /\ r.pc \in {"client", "connect", "store", "logs"} => r.mode = "docker"
  /\ r.stamp = r.entries

StampInv == \A u \in Users : Honest(user[u])

\* A log request stamps what it reads with the mode it remembers.
LEMMA StampStep ==
  ASSUME TypeInv, StampInv, [Next]_vars
  PROVE  StampInv'
  <1>1. ASSUME UNCHANGED user
        PROVE  StampInv'
    BY <1>1 DEF StampInv
  <1>2. ASSUME NEW u \in Users, User(u)
        PROVE  StampInv'
    <2>1. user \in [Users -> UserStates] /\ user[u] \in UserStates /\ Honest(user[u])
      BY DEF TypeInv, TypeOK, StampInv
    <2>2. ASSUME NEW new, UserStep(u, new), Honest(new)
          PROVE  StampInv'
      BY <2>1, <2>2 DEF UserStep, StampInv
    <2>3. Honest(IdleUser)
      BY DEF IdleUser, Honest
    <2>4. CASE AskLogs(u)
      <3>1. Honest([IdleUser EXCEPT !.pc = "client", !.mode = "docker"])
        BY Zenon DEF IdleUser, Honest
      <3>2. Honest([IdleUser EXCEPT !.pc = "done", !.entries = "mock", !.stamp = "mock"])
        BY Zenon DEF IdleUser, Honest
      <3> QED
        BY <2>2, <2>4, <3>1, <3>2 DEF AskLogs
    <2>5. CASE UserTakesClient(u)
      <3>1. ASSUME NEW c PROVE Honest([user[u] EXCEPT !.pc = "logs", !.client = c])
        BY <2>1, <2>5 DEF UserTakesClient, Honest, UserStates
      <3>2. Honest([user[u] EXCEPT !.pc = "connect"])
        BY <2>1, <2>5 DEF UserTakesClient, Honest, UserStates
      <3> QED
        BY <2>2, <2>5, <3>1, <3>2 DEF UserTakesClient
    <2>6. CASE UserConnects(u)
      <3>1. Honest([user[u] EXCEPT !.pc = "store", !.client = gateway.at])
        BY <2>1, <2>6 DEF UserConnects, Honest, UserStates
      <3> QED
        BY <2>2, <2>3, <2>6, <3>1 DEF UserConnects
    <2>7. CASE UserStores(u)
      <3>1. Honest([user[u] EXCEPT !.pc = "logs"])
        BY <2>1, <2>7 DEF UserStores, Honest, UserStates
      <3> QED
        BY <2>2, <2>7, <3>1 DEF UserStores
    <2>8. CASE UserReads(u)
      <3>1. Honest(Responded(u, "docker"))
        BY <2>1, <2>8 DEF UserReads, Responded, Honest, UserStates
      <3> QED
        BY <2>2, <2>3, <2>8, <3>1 DEF UserReads
    <2> QED
      BY <1>2, <2>4, <2>5, <2>6, <2>7, <2>8 DEF User
  <1> QED
    BY <1>1, <1>2
    DEF Next, vars, HostChanges, GatewayStops, GatewayRestarts, Expire, ProjectionReturns, Refresh,
        RefreshStarts, TakeClient, Connect, StoreClient, ReadInventory, ReadFails, Invalidate,
        ProjectionBusy, NoTimeToProject, StartProjection, TakeBinding, AwaitTimesOut, Publish

\* The source stamped on a log response is that of the bytes in it, although the cache may
\* change sides while the logs are read (get_logs).
THEOREM StampsAreHonest == Spec => []StampIsHonest
  <1>1. Init => StampInv
    BY DEF Init, StampInv, IdleUser, Honest
  <1>2. TypeInv /\ StampInv /\ [Next]_vars => (TypeInv /\ StampInv)'
    BY TypeStep, StampStep
  <1>3. StampInv => StampIsHonest
    BY DEF StampInv, Honest, StampIsHonest
  <1> QED
    BY <1>1, <1>2, <1>3, TypeInit, PTL DEF Spec

-----------------------------------------------------------------------------
(***************************************************************************)
(* The reads of a container's log (LogPaging), which have a state and      *)
(* constants of their own.                                                 *)
(*                                                                         *)
(* As long as the window holds the log, an entry's id is a function of its *)
(* line (WindowEntries) and tells lines apart (IdsDiffer).  A cursor       *)
(* counts, of its millisecond, the sought lines of a smaller rank: a page  *)
(* gives all that the cursor it leaves counts beyond the one it was asked  *)
(* with (PageParts).  So the screen always shows all that its cursor       *)
(* counts, a page on its way continues from there, and a cursor at its end *)
(* counts everything.                                                      *)
(***************************************************************************)
\* Different places for the members of a finite set fill all places.
LEMMA PlacesFill ==
  ASSUME NEW S, IsFiniteSet(S), NEW place \in [S -> 1..Cardinality(S)],
         \A x, y \in S : place[x] = place[y] => x = y
  PROVE  \A n \in 1..Cardinality(S) : \E x \in S : place[x] = n
  <1>1. Cardinality(S) \in Nat
    BY FS_CardinalityType
  <1>2. IsFiniteSet(1..Cardinality(S)) /\ Cardinality(1..Cardinality(S)) = Cardinality(S)
    BY <1>1, FS_Interval
  <1>3. place \in Injection(S, 1..Cardinality(S))
    BY DEF Injection, IsInjective
  <1>4. place \in Surjection(S, 1..Cardinality(S))
    BY <1>2, <1>3, FS_Injection
  <1> QED
    BY <1>4 DEF Surjection

\* A smaller set that misses a member has fewer.
LEMMA MissingOne ==
  ASSUME NEW S, NEW T, IsFiniteSet(T), S \subseteq T, NEW x \in T, x \notin S
  PROVE  IsFiniteSet(S) /\ Cardinality(S) \in Nat /\ Cardinality(S) < Cardinality(T)
  <1>1. /\ IsFiniteSet(S) /\ Cardinality(S) <= Cardinality(T)
        /\ Cardinality(T) = Cardinality(S) => T = S
    BY FS_Subset
  <1>2. Cardinality(S) \in Nat /\ Cardinality(T) \in Nat
    BY <1>1, FS_CardinalityType
  <1> QED
    BY <1>1, <1>2

\* What Kept returns: the kept entries, each once.
KeptAre(s, keep, r) ==
  /\ \A n \in DOMAIN r : \E k \in keep : r[n] = s[k]
  /\ \A k \in keep : \E n \in DOMAIN r : r[n] = s[k]
  /\ \A m, n \in DOMAIN r : m # n => \E j, k \in keep : j # k /\ r[m] = s[j] /\ r[n] = s[k]

\* A function on 1..n is a sequence.
LEMMA FunctionIsSeq ==
  ASSUME NEW E, NEW n \in Nat, NEW f \in [1..n -> E]
  PROVE  f \in Seq(E) /\ Len(f) = n
  OBVIOUS

\* The screen's filter keeps the entries at the given positions, each once.
LEMMA KeptParts ==
  ASSUME NEW E, NEW s \in Seq(E), NEW keep \in SUBSET DOMAIN s
  PROVE  Kept(s, keep) \in Seq(E) /\ KeptAre(s, keep, Kept(s, keep))
  <1> DEFINE Upto(k) == {j \in keep : j <= k}
             N == Cardinality(keep)
             place == [k \in keep |-> Cardinality(Upto(k))]
             At(n) == CHOOSE k \in keep : Cardinality(Upto(k)) = n
             r == [n \in 1..N |-> s[At(n)]]
  <1>1. Len(s) \in Nat /\ DOMAIN s = 1..Len(s)
    OBVIOUS
  <1>2. IsFiniteSet(keep) /\ N \in Nat /\ N = Cardinality(keep)
    <2>1. IsFiniteSet(1..Len(s))
      BY <1>1, FS_Interval
    <2>2. IsFiniteSet(keep)
      BY <1>1, <2>1, FS_Subset
    <2> QED
      BY <2>2, FS_CardinalityType
  <1>3. \A k \in keep : IsFiniteSet(Upto(k)) /\ Cardinality(Upto(k)) \in 1..N
    <2> SUFFICES ASSUME NEW k \in keep
                 PROVE  IsFiniteSet(Upto(k)) /\ Cardinality(Upto(k)) \in 1..N
      OBVIOUS
    <2>1. IsFiniteSet(Upto(k)) /\ Cardinality(Upto(k)) <= N /\ Cardinality(Upto(k)) \in Nat
      BY <1>2, FS_Subset, FS_CardinalityType
    <2>2. k \in Upto(k) /\ k \notin {} /\ {} \subseteq Upto(k)
      BY <1>1
    <2>3. Cardinality({}) < Cardinality(Upto(k)) /\ Cardinality({}) = 0
      BY <2>1, <2>2, MissingOne, FS_EmptySet
    <2> QED
      BY <2>1, <2>3, <1>2
  <1>4. \A j, k \in keep : j < k => Cardinality(Upto(j)) < Cardinality(Upto(k))
    <2> SUFFICES ASSUME NEW j \in keep, NEW k \in keep, j < k
                 PROVE  Cardinality(Upto(j)) < Cardinality(Upto(k))
      OBVIOUS
    <2>1. Upto(j) \subseteq Upto(k) /\ k \in Upto(k) /\ k \notin Upto(j)
      BY <1>1
    <2> QED
      BY <1>3, <2>1, MissingOne
  <1>5. \A k \in keep : place[k] = Cardinality(Upto(k)) /\ place[k] = Cardinality(Upto(k))
    OBVIOUS
  <1>6. place \in [keep -> 1..N]
    BY <1>3
  <1>7. ASSUME NEW j \in keep, NEW k \in keep, place[j] = place[k], j # k
        PROVE  FALSE
    <2>1. j < k \/ k < j
      BY <1>1, <1>7
    <2>2. Cardinality(Upto(j)) = Cardinality(Upto(k)) /\ Cardinality(Upto(j)) \in Nat
      <3> HIDE DEF place, Upto, N
      <3>1. place[j] = Cardinality(Upto(j)) /\ place[k] = Cardinality(Upto(k)) /\ place[j] = place[k]
        BY <1>7, <1>5
      <3>2. Cardinality(Upto(j)) \in 1..N
        BY <1>3
      <3> QED
        BY <3>1, <3>2, <1>2
    <2> HIDE DEF Upto
    <2> QED
      BY <2>1, <2>2, <1>4
  <1>8. \A n \in 1..N : \E k \in keep : place[k] = n
    <2> HIDE DEF place, N
    <2> QED
      BY <1>2, <1>6, <1>7, PlacesFill
  <1>9. \A n \in 1..N : At(n) \in keep /\ place[At(n)] = n
    <2> SUFFICES ASSUME NEW n \in 1..N
                 PROVE  At(n) \in keep /\ place[At(n)] = n
      OBVIOUS
    <2>1. \E k \in keep : Cardinality(Upto(k)) = n
      BY <1>8, <1>5
    <2>2. At(n) \in keep /\ Cardinality(Upto(At(n))) = n
      BY <2>1
    <2> HIDE DEF At, place
    <2> QED
      BY <2>2, <1>5
  <1>10. \A k \in keep : place[k] \in 1..N /\ At(place[k]) = k
    <2> HIDE DEF place, At, N
    <2> QED
      BY <1>6, <1>7, <1>9
  <1>11. Kept(s, keep) = r
    BY DEF Kept
  <1>12. r \in Seq(E)
    <2> HIDE DEF At, N
    <2> HIDE DEF place
    <2>1. \A n \in 1..N : s[At(n)] \in E
      <3>1. \A k \in keep : s[k] \in E
        OBVIOUS
      <3> QED
        BY <3>1, <1>9
    <2>2. r \in [1..N -> E]
      BY <2>1
    <2> HIDE DEF r
    <2> QED
      BY <1>2, <2>2, FunctionIsSeq
  <1>13. DOMAIN r = 1..N
    OBVIOUS
  <1>14. \A n \in 1..N : r[n] = s[At(n)]
    OBVIOUS
  <1> HIDE DEF At, r, place, N, Upto
  <1>15. \A n \in DOMAIN r : \E k \in keep : r[n] = s[k]
    BY <1>9, <1>13, <1>14
  <1>16. \A k \in keep : \E n \in DOMAIN r : r[n] = s[k]
    BY <1>10, <1>13, <1>14
  <1>17. \A m, n \in DOMAIN r : m # n => \E j, k \in keep : j # k /\ r[m] = s[j] /\ r[n] = s[k]
    <2> SUFFICES ASSUME NEW m \in 1..N, NEW n \in 1..N, m # n
                 PROVE  \E j, k \in keep : j # k /\ r[m] = s[j] /\ r[n] = s[k]
      BY <1>13
    <2>1. At(m) # At(n) /\ At(m) \in keep /\ At(n) \in keep
      BY <1>9
    <2> QED
      BY <2>1, <1>14
  <1>18. KeptAre(s, keep, r)
    BY <1>15, <1>16, <1>17 DEF KeptAre
  <1> QED
    BY <1>11, <1>12, <1>18

\* What a log entry is: its line, its time and its id.
LogEntry == [line : Nat, ms : Nat, id : Nat \X Nat]

\* No two entries are of one line.
OneALine(T) == \A a, b \in T : a.line = b.line => a = b

\* The order of a page.
Newer(a, b) == a.ms > b.ms \/ (a.ms = b.ms /\ a.line < b.line)

\* What a sort returns: every entry, each once, in the order of a page.
SortedAre(T, n, r) ==
  /\ r \in [1..n -> T]
  /\ \A e \in T : \E k \in 1..n : r[k] = e
  /\ \A j, k \in 1..n : j # k => r[j] # r[k]
  /\ \A j, k \in 1..n : Newer(r[j], r[k]) => j < k

\* NewestFirst sorts.
LEMMA NewestFirstSorts ==
  ASSUME NEW T \in SUBSET LogEntry, IsFiniteSet(T), OneALine(T)
  PROVE  Cardinality(T) \in Nat /\ SortedAre(T, Cardinality(T), NewestFirst(T))
  <1> DEFINE Ahead(e) == {x \in T : Newer(x, e)}
             N == Cardinality(T)
             place == [e \in T |-> Cardinality(Ahead(e)) + 1]
             At(n) == CHOOSE e \in T : Cardinality(Ahead(e)) + 1 = n
             r == [n \in 1..N |-> At(n)]
  <1>1. N \in Nat
    BY FS_CardinalityType
  <1>2. \A e \in T : e.line \in Nat /\ e.ms \in Nat
    BY DEF LogEntry
  <1>3. \A e \in T : ~Newer(e, e)
    BY <1>2 DEF Newer
  <1>4. \A a, b, c \in T : Newer(a, b) /\ Newer(b, c) => Newer(a, c)
    BY <1>2 DEF Newer
  <1>5. \A a, b \in T : a # b => Newer(a, b) \/ Newer(b, a)
    BY <1>2 DEF Newer, OneALine
  <1>6. \A e \in T : IsFiniteSet(Ahead(e)) /\ Cardinality(Ahead(e)) \in 0..N - 1
    <2> SUFFICES ASSUME NEW e \in T
                 PROVE  IsFiniteSet(Ahead(e)) /\ Cardinality(Ahead(e)) \in 0..N - 1
      OBVIOUS
    <2>1. Ahead(e) \subseteq T /\ e \notin Ahead(e)
      BY <1>3
    <2>2. IsFiniteSet(Ahead(e)) /\ Cardinality(Ahead(e)) \in Nat /\ Cardinality(Ahead(e)) < N
      BY <2>1, MissingOne
    <2> HIDE DEF Ahead, N
    <2> QED
      BY <2>2, <1>1
  <1>7. \A a, b \in T : Newer(a, b) => Cardinality(Ahead(a)) < Cardinality(Ahead(b))
    <2> SUFFICES ASSUME NEW a \in T, NEW b \in T, Newer(a, b)
                 PROVE  Cardinality(Ahead(a)) < Cardinality(Ahead(b))
      OBVIOUS
    <2>1. Ahead(a) \subseteq Ahead(b) /\ a \in Ahead(b) /\ a \notin Ahead(a)
      BY <1>3, <1>4
    <2> QED
      BY <2>1, <1>6, MissingOne
  <1>8. \A e \in T : place[e] = Cardinality(Ahead(e)) + 1
    OBVIOUS
  <1>9. place \in [T -> 1..N]
    <2>1. \A e \in T : Cardinality(Ahead(e)) + 1 \in 1..N
      <3> HIDE DEF Ahead, N
      <3> QED
        BY <1>6, <1>1
    <2> QED
      BY <2>1
  <1>10. \A a, b \in T : Newer(a, b) => place[a] < place[b]
    <2> HIDE DEF Ahead, place
    <2> QED
      BY <1>6, <1>7, <1>8
  <1>11. \A a, b \in T : place[a] = place[b] => a = b
    <2> HIDE DEF Ahead, place, N
    <2>1. \A e \in T : place[e] \in Nat
      BY <1>9
    <2> QED
      BY <1>5, <1>10, <2>1
  <1>12. \A n \in 1..N : \E e \in T : place[e] = n
    <2> HIDE DEF place
    <2> QED
      BY <1>9, <1>11, PlacesFill
  <1>13. \A n \in 1..N : At(n) \in T /\ place[At(n)] = n
    <2> SUFFICES ASSUME NEW n \in 1..N
                 PROVE  At(n) \in T /\ place[At(n)] = n
      OBVIOUS
    <2>1. \E e \in T : Cardinality(Ahead(e)) + 1 = n
      <3> HIDE DEF place, N, Ahead
      <3> QED
        BY <1>8, <1>12
    <2>2. At(n) \in T /\ Cardinality(Ahead(At(n))) + 1 = n
      BY <2>1
    <2> HIDE DEF At, place, Ahead
    <2> QED
      BY <2>2, <1>8
  <1>14. NewestFirst(T) = r
    <2>1. NewestFirst(T) = [n \in 1..Cardinality(T) |-> At(n)]
      BY DEF NewestFirst, Newer
    <2> HIDE DEF At
    <2> QED
      BY <2>1
  <1>15. \A n \in 1..N : r[n] = At(n)
    OBVIOUS
  <1>16. r \in [1..N -> T]
    <2> HIDE DEF At, N, place
    <2> QED
      BY <1>13
  <1> HIDE DEF At, N, place, Ahead, r
  <1>17. \A n \in 1..N : r[n] \in T /\ place[r[n]] = n
    BY <1>13, <1>15
  <1>18. \A e \in T : \E k \in 1..N : r[k] = e
    BY <1>9, <1>11, <1>17
  <1>19. \A j, k \in 1..N : j # k => r[j] # r[k]
    BY <1>17
  <1>20. \A j, k \in 1..N : Newer(r[j], r[k]) => j < k
    BY <1>10, <1>17
  <1>21. SortedAre(T, N, r)
    BY <1>16, <1>18, <1>19, <1>20 DEF SortedAre
  <1> QED
    BY <1>1, <1>14, <1>21 DEF N

\* What Docker's log is.
LogText == Seq([ms : Nat, text : {"hit", "miss", "bare"}])

\* The lines with an entry, and those a query (or none) finds.
EntryLines(l) == {i \in DOMAIN l : l[i].text # "bare"}
Sought(l, q) == {i \in DOMAIN l : l[i].text = "hit" \/ (l[i].text = "miss" /\ ~q)}

\* The lines of S before line i, of its millisecond.
SameMs(l, S, i) == {j \in S : j < i /\ l[j].ms = l[i].ms}

\* How many of the sought lines of its millisecond are before line i.
Rank(l, q, i) == Cardinality(SameMs(l, Sought(l, q), i))

\* The entry of a line, as every window that holds its millisecond gives it.
EntryOf(l, i) ==
  [line |-> i, ms |-> l[i].ms, id |-> <<l[i].ms, Cardinality(SameMs(l, EntryLines(l), i))>>]

\* The lines of a millisecond can be counted.
LEMMA SameMsCounts ==
  ASSUME NEW l \in LogText, NEW S \in SUBSET DOMAIN l, NEW i
  PROVE  IsFiniteSet(SameMs(l, S, i)) /\ Cardinality(SameMs(l, S, i)) \in Nat
  <1>1. DOMAIN l = 1..Len(l) /\ Len(l) \in Nat
    BY DEF LogText
  <1>2. SameMs(l, S, i) \subseteq 1..Len(l)
    BY <1>1 DEF SameMs
  <1>3. IsFiniteSet(1..Len(l))
    BY <1>1, FS_Interval
  <1>4. IsFiniteSet(SameMs(l, S, i))
    BY <1>2, <1>3, FS_Subset
  <1> QED
    BY <1>4, FS_CardinalityType

\* Lines of one millisecond have different counts.
LEMMA CountsDiffer ==
  ASSUME NEW l \in LogText, NEW S \in SUBSET DOMAIN l, NEW i \in S, NEW j \in S,
         l[i].ms = l[j].ms, i < j
  PROVE  Cardinality(SameMs(l, S, i)) < Cardinality(SameMs(l, S, j))
  <1>1. DOMAIN l = 1..Len(l) /\ Len(l) \in Nat
    BY DEF LogText
  <1>2. /\ SameMs(l, S, i) \subseteq SameMs(l, S, j)
        /\ i \in SameMs(l, S, j) /\ i \notin SameMs(l, S, i)
    BY <1>1 DEF SameMs
  <1> QED
    BY <1>2, SameMsCounts, MissingOne

\* A sequence's members.
LEMMA MemberOf ==
  ASSUME NEW R, NEW l \in Seq(R), NEW i \in DOMAIN l
  PROVE  i \in 1..Len(l) /\ Len(l) \in Nat /\ l[i] \in R
  OBVIOUS

\* Lines of a log are natural numbers, and so are their times.
LEMMA LineTypes ==
  ASSUME NEW l \in LogText, NEW i \in DOMAIN l
  PROVE  i \in Nat /\ i >= 1 /\ i <= Len(l) /\ l[i].ms \in Nat /\ l[i].text \in {"hit", "miss", "bare"}
  <1>1. i \in 1..Len(l) /\ Len(l) \in Nat /\ l[i] \in [ms : Nat, text : {"hit", "miss", "bare"}]
    BY MemberOf DEF LogText
  <1>2. l[i].ms \in Nat /\ l[i].text \in {"hit", "miss", "bare"}
    BY <1>1
  <1> QED
    BY <1>1, <1>2

\* Equal ids are of one line.
LEMMA IdsDiffer ==
  ASSUME NEW l \in LogText, NEW i \in EntryLines(l), NEW j \in EntryLines(l),
         EntryOf(l, i).id = EntryOf(l, j).id
  PROVE  i = j
  <1> DEFINE c(k) == Cardinality(SameMs(l, EntryLines(l), k))
  <1>1. EntryLines(l) \in SUBSET DOMAIN l
    BY DEF EntryLines
  <1>2. <<l[i].ms, c(i)>> = <<l[j].ms, c(j)>>
    BY DEF EntryOf
  <1>3. l[i].ms = l[j].ms /\ c(i) = c(j)
    BY <1>2
  <1>4. c(i) \in Nat /\ c(j) \in Nat
    BY <1>1, SameMsCounts
  <1>5. i \in Nat /\ j \in Nat
    BY <1>1, LineTypes
  <1>6. CASE i < j
    BY <1>1, <1>3, <1>4, <1>6, CountsDiffer
  <1>7. CASE j < i
    BY <1>1, <1>3, <1>4, <1>7, CountsDiffer
  <1> QED
    BY <1>5, <1>6, <1>7

\* The lines of a log, and what they are, when it grows.
GrowsTo(l, m) ==
  /\ DOMAIN l \subseteq DOMAIN m
  /\ \A i \in DOMAIN l : /\ m[i] = l[i]
                         /\ EntryOf(m, i) = EntryOf(l, i)
                         /\ \A q \in BOOLEAN : Rank(m, q, i) = Rank(l, q, i)
  /\ \A i \in EntryLines(l) : i \in EntryLines(m)
  /\ \A q \in BOOLEAN, i \in DOMAIN l : i \in Sought(m, q) <=> i \in Sought(l, q)

\* Lines written later change nothing about the earlier ones.
LEMMA AppendGrows ==
  ASSUME NEW l \in LogText, NEW x \in [ms : Nat, text : {"hit", "miss", "bare"}]
  PROVE  Append(l, x) \in LogText /\ GrowsTo(l, Append(l, x))
  <1> DEFINE m == Append(l, x)
  <1>1. /\ m \in LogText /\ DOMAIN l = 1..Len(l) /\ DOMAIN m = 1..Len(l) + 1 /\ Len(l) \in Nat
        /\ \A i \in DOMAIN l : m[i] = l[i]
    BY DEF LogText
  <1> HIDE DEF m
  <1>2. \A i \in EntryLines(l) : i \in EntryLines(m)
    BY <1>1 DEF EntryLines
  <1>3. \A q \in BOOLEAN, i \in DOMAIN l : i \in Sought(m, q) <=> i \in Sought(l, q)
    BY <1>1 DEF Sought
  <1>4. \A i \in DOMAIN l : SameMs(m, EntryLines(m), i) = SameMs(l, EntryLines(l), i)
    <2> SUFFICES ASSUME NEW i \in DOMAIN l, NEW j
                 PROVE  j \in SameMs(m, EntryLines(m), i) <=> j \in SameMs(l, EntryLines(l), i)
      OBVIOUS
    <2> QED
      BY <1>1 DEF SameMs, EntryLines
  <1>5. \A q \in BOOLEAN, i \in DOMAIN l : SameMs(m, Sought(m, q), i) = SameMs(l, Sought(l, q), i)
    <2> SUFFICES ASSUME NEW q \in BOOLEAN, NEW i \in DOMAIN l, NEW j
                 PROVE  j \in SameMs(m, Sought(m, q), i) <=> j \in SameMs(l, Sought(l, q), i)
      OBVIOUS
    <2> QED
      BY <1>1 DEF SameMs, Sought
  <1>6. \A i \in DOMAIN l : EntryOf(m, i) = EntryOf(l, i)
    BY <1>1, <1>4 DEF EntryOf
  <1>7. \A q \in BOOLEAN, i \in DOMAIN l : Rank(m, q, i) = Rank(l, q, i)
    BY <1>5 DEF Rank
  <1>8. GrowsTo(l, m)
    BY <1>1, <1>2, <1>3, <1>6, <1>7 DEF GrowsTo
  <1> QED
    BY <1>1, <1>8 DEF m

\* The second that is asked for holds the cursor's millisecond.
LEMMA UntilCovers ==
  ASSUME NEW c, c # NoCursor, c.ms \in Nat, MaxUntil \in Nat, MillisPerSecond \in Nat \ {0},
         c.ms < MaxUntil * MillisPerSecond
  PROVE  /\ Until(c) \in Nat \ {0}
         /\ c.ms < Until(c) * MillisPerSecond
  <1> DEFINE d == c.ms \div MillisPerSecond
  <1>1. d \in Nat /\ c.ms < (d + 1) * MillisPerSecond
    OBVIOUS
  <1>2. MaxUntil # 0
    BY SMT
  <1>3. Until(c) = IF d + 1 > MaxUntil THEN MaxUntil ELSE d + 1
    BY DEF Until
  <1> HIDE DEF d
  <1> QED
    BY <1>1, <1>2, <1>3

\* What a window gives: every line with an entry of the seconds asked for.
LEMMA WindowEntries ==
  ASSUME log \in LogText, LogTail \in Nat, Len(log) <= LogTail, NEW until
  PROVE  Entries(Window(until)) =
           {EntryOf(log, i) : i \in {j \in EntryLines(log) :
                                       until = 0 \/ log[j].ms < until * MillisPerSecond}}
  <1> DEFINE W == {j \in EntryLines(log) : until = 0 \/ log[j].ms < until * MillisPerSecond}
             Ord(i) == Cardinality({j \in W : j < i /\ log[j].ms = log[i].ms})
  <1>1. \A i \in DOMAIN log : i > Len(log) - LogTail
    BY LineTypes DEF LogText
  <1>2. {i \in Window(until) : log[i].text # "bare"} = W
    BY <1>1 DEF Window, EntryLines
  <1>3. Entries(Window(until)) = {[line |-> i, ms |-> log[i].ms, id |-> <<log[i].ms, Ord(i)>>] : i \in W}
    BY <1>2 DEF Entries
  <1>4. \A i \in W : {j \in W : j < i /\ log[j].ms = log[i].ms} = SameMs(log, EntryLines(log), i)
    BY DEF SameMs, EntryLines
  <1>5. \A i \in W : Ord(i) = Cardinality(SameMs(log, EntryLines(log), i))
    <2> TAKE i \in W
    <2>1. Ord(i) = Cardinality({j \in W : j < i /\ log[j].ms = log[i].ms})
      OBVIOUS
    <2> QED
      BY <2>1, <1>4
  <1> HIDE DEF W, Ord
  <1>6. \A i \in W : [line |-> i, ms |-> log[i].ms, id |-> <<log[i].ms, Ord(i)>>] = EntryOf(log, i)
    BY <1>5 DEF EntryOf
  <1>7. Entries(Window(until)) = {EntryOf(log, i) : i \in W}
    BY <1>3, <1>6
  <1> QED
    BY <1>7 DEF W

\* Different lines have different entries.
LEMMA EntriesCount ==
  ASSUME NEW l, NEW S, IsFiniteSet(S)
  PROVE  /\ IsFiniteSet({EntryOf(l, i) : i \in S})
         /\ Cardinality({EntryOf(l, i) : i \in S}) = Cardinality(S)
  <1> DEFINE T == {EntryOf(l, i) : i \in S}
             f == [i \in S |-> EntryOf(l, i)]
  <1>1. \A i \in S : EntryOf(l, i).line = i
    BY DEF EntryOf
  <1>2. f \in Injection(S, T)
    BY <1>1 DEF Injection, IsInjective
  <1>3. f \in Surjection(S, T)
    BY DEF Surjection
  <1>4. ExistsBijection(S, T)
    BY <1>2, <1>3 DEF ExistsBijection, Bijection
  <1> HIDE DEF T
  <1>5. IsFiniteSet(T) /\ Cardinality(T) = Cardinality(S)
    BY <1>4, FS_Bijection
  <1> QED
    BY <1>5 DEF T

\* The lines a query finds that the cursor has not counted.
BehindLines(l, q, c) ==
  {i \in Sought(l, q) : \/ c = NoCursor
                        \/ l[i].ms < c.ms
                        \/ l[i].ms = c.ms /\ Rank(l, q, i) >= c.offset}

\* A cursor of a line of the log, or none.
GoodCursor(c) ==
  c = NoCursor \/ (c.ms \in Nat /\ c.ms < MaxUntil * MillisPerSecond /\ c.offset \in Nat \ {0})

\* What the lemmas about a window need of the constants.
PagingConstants ==
  /\ LogTail \in Nat /\ MaxUntil \in Nat /\ MillisPerSecond \in Nat \ {0}
  /\ MaxPageSize \in Nat /\ PageSize \in 1..MaxPageSize

\* The entries behind the cursor are those of the lines behind it.
LEMMA FoundBehind ==
  ASSUME PagingConstants, log \in LogText, Len(log) <= LogTail, NEW q \in BOOLEAN, NEW c, GoodCursor(c)
  PROVE  BehindCursor({e \in Entries(Window(Until(c))) :
                                q => log[e.line].text = "hit"}, c)
           = {EntryOf(log, i) : i \in BehindLines(log, q, c)}
  <1> DEFINE u == Until(c)
             W == {j \in EntryLines(log) : u = 0 \/ log[j].ms < u * MillisPerSecond}
             found == {e \in Entries(Window(u)) : q => log[e.line].text = "hit"}
             F == {j \in Sought(log, q) : u = 0 \/ log[j].ms < u * MillisPerSecond}
  <1>1. Entries(Window(u)) = {EntryOf(log, i) : i \in W}
    BY WindowEntries DEF PagingConstants
  <1>2. \A i : EntryOf(log, i).line = i /\ EntryOf(log, i).ms = log[i].ms
    BY DEF EntryOf
  <1>3. \A i \in DOMAIN log : i \in Sought(log, q) <=> i \in EntryLines(log) /\ (q => log[i].text = "hit")
    BY LineTypes DEF Sought, EntryLines
  <1>4. Sought(log, q) \subseteq DOMAIN log /\ EntryLines(log) \subseteq DOMAIN log
    BY DEF Sought, EntryLines
  <1>5. found = {EntryOf(log, i) : i \in F}
    <2>1. \A i : i \in F <=> i \in W /\ (q => log[i].text = "hit")
      BY <1>3, <1>4
    <2> HIDE DEF W, F, u
    <2>2. \A e : e \in found <=> \E i \in W : e = EntryOf(log, i) /\ (q => log[i].text = "hit")
      BY <1>1, <1>2
    <2> QED
      BY <2>1, <2>2
  <1>6. CASE c = NoCursor
    <2>1. u = 0
      BY <1>6 DEF Until
    <2>2. F = BehindLines(log, q, c)
      BY <2>1, <1>6 DEF BehindLines
    <2>3. BehindCursor(found, c) = found
      BY <1>6 DEF BehindCursor
    <2> QED
      BY <2>2, <2>3, <1>5
  <1>7. CASE c # NoCursor
    <2>1. c.ms \in Nat /\ c.offset \in Nat /\ u \in Nat \ {0} /\ c.ms < u * MillisPerSecond
      BY <1>7, UntilCovers DEF GoodCursor, PagingConstants
    <2> DEFINE Same(e) == {x \in found : x.ms = e.ms /\ x.line < e.line}
               Taken(e) == e.ms < c.ms \/ (e.ms = c.ms /\ ~(Cardinality(Same(e)) < c.offset))
    <2>2. BehindCursor(found, c) = {e \in found : Taken(e)}
      BY <1>7 DEF BehindCursor
    <2> HIDE DEF u, found
    <2>3. \A i \in F : log[i].ms = c.ms => Cardinality(Same(EntryOf(log, i))) = Rank(log, q, i)
      <3> SUFFICES ASSUME NEW i \in F, log[i].ms = c.ms
                   PROVE  Cardinality(Same(EntryOf(log, i))) = Rank(log, q, i)
        OBVIOUS
      <3>1. SameMs(log, Sought(log, q), i) = {j \in F : j < i /\ log[j].ms = log[i].ms}
        BY <2>1 DEF SameMs
      <3>2. Same(EntryOf(log, i)) = {EntryOf(log, j) : j \in {k \in F : k < i /\ log[k].ms = log[i].ms}}
        <4> HIDE DEF F
        <4> QED
          BY <1>2, <1>5
      <3>3. IsFiniteSet(SameMs(log, Sought(log, q), i))
        BY <1>4, SameMsCounts
      <3>4. Same(EntryOf(log, i)) = {EntryOf(log, j) : j \in SameMs(log, Sought(log, q), i)}
        BY <3>1, <3>2
      <3> HIDE DEF Same
      <3>5. Cardinality(Same(EntryOf(log, i))) = Rank(log, q, i)
        BY <3>3, <3>4, EntriesCount DEF Rank
      <3> QED
        BY <3>5
    <2>4. \A i \in F : Rank(log, q, i) \in Nat
      BY <1>4, SameMsCounts DEF Rank
    <2>5. \A i : i \in BehindLines(log, q, c) <=> i \in F /\ Taken(EntryOf(log, i))
      <3> TAKE i
      <3>1. i \in BehindLines(log, q, c) => i \in F
        <4> SUFFICES ASSUME i \in BehindLines(log, q, c)
                     PROVE  log[i].ms < u * MillisPerSecond /\ i \in Sought(log, q)
          OBVIOUS
        <4>1. i \in Sought(log, q) /\ i \in DOMAIN log
          BY <1>4 DEF BehindLines
        <4>2. log[i].ms \in Nat /\ log[i].ms <= c.ms
          BY <4>1, <1>7, <2>1, LineTypes DEF BehindLines
        <4>3. u * MillisPerSecond \in Nat
          BY <2>1 DEF PagingConstants
        <4> QED
          BY <4>1, <4>2, <4>3, <2>1
      <3>2. i \in F => i \in Sought(log, q)
        OBVIOUS
      <3>3. i \in F => (i \in BehindLines(log, q, c) <=>
                          (log[i].ms < c.ms \/ (log[i].ms = c.ms /\ ~(Rank(log, q, i) < c.offset))))
        BY <1>7, <2>1, <2>4, <3>2 DEF BehindLines
      <3>4. i \in F => (Taken(EntryOf(log, i)) <=>
                          (log[i].ms < c.ms \/ (log[i].ms = c.ms /\ ~(Rank(log, q, i) < c.offset))))
        <4> HIDE DEF F, Same
        <4> QED
          BY <1>2, <2>3
      <3> QED
        BY <3>1, <3>3, <3>4
    <2> HIDE DEF Taken, F
    <2> QED
      BY <1>5, <2>2, <2>5 DEF u, found
  <1> QED
    BY <1>6, <1>7

\* The fields of an entry.
LEMMA EntryFields ==
  ASSUME NEW l, NEW i
  PROVE  EntryOf(l, i).line = i /\ EntryOf(l, i).ms = l[i].ms
  BY DEF EntryOf

\* The lines a cursor has counted, or that are newer.
AheadOf(l, q, c, i) ==
  \/ c = NoCursor
  \/ l[i].ms > c.ms
  \/ l[i].ms = c.ms /\ Rank(l, q, i) < c.offset

\* What the cursor of a cut page counts: the offset it carries on, and the entries of its
\* millisecond above the cut.
Carried(c, ms) == IF c # NoCursor /\ c.ms = ms THEN c.offset ELSE 0

\* Equal ranks in a millisecond are of one line.
LEMMA RanksDiffer ==
  ASSUME NEW l \in LogText, NEW q \in BOOLEAN, NEW i \in Sought(l, q), NEW j \in Sought(l, q),
         l[i].ms = l[j].ms
  PROVE  /\ Rank(l, q, i) \in Nat /\ Rank(l, q, j) \in Nat
         /\ i < j => Rank(l, q, i) < Rank(l, q, j)
         /\ Rank(l, q, i) = Rank(l, q, j) => i = j
  <1>1. Sought(l, q) \in SUBSET DOMAIN l
    BY DEF Sought
  <1>2. Rank(l, q, i) \in Nat /\ Rank(l, q, j) \in Nat
    BY <1>1, SameMsCounts DEF Rank
  <1>3. i < j => Rank(l, q, i) < Rank(l, q, j)
    BY <1>1, CountsDiffer DEF Rank
  <1>4. j < i => Rank(l, q, j) < Rank(l, q, i)
    BY <1>1, CountsDiffer DEF Rank
  <1>5. i \in Nat /\ j \in Nat
    BY <1>1, LineTypes
  <1> QED
    BY <1>2, <1>3, <1>4, <1>5

\* An injection into an interval bounds a cardinality.
LEMMA FitsInterval ==
  ASSUME NEW H, NEW a \in Nat, NEW b \in Nat, a <= b, NEW g \in [H -> a..b - 1],
         \A x, y \in H : g[x] = g[y] => x = y
  PROVE  IsFiniteSet(H) /\ Cardinality(H) \in Nat /\ a + Cardinality(H) <= b
  <1>1. IsFiniteSet(a..b - 1) /\ Cardinality(a..b - 1) = b - a
    BY FS_Interval
  <1>2. g \in Injection(H, a..b - 1)
    BY DEF Injection, IsInjective
  <1>3. IsFiniteSet(H) /\ Cardinality(H) <= Cardinality(a..b - 1)
    BY <1>1, <1>2, FS_Injection
  <1> QED
    BY <1>1, <1>3, FS_CardinalityType

\* A line below the cut is behind the cursor that the cut leaves.
LEMMA CutCounts ==
  ASSUME NEW l \in LogText, NEW q \in BOOLEAN, NEW c, GoodCursor(c), NEW n \in Nat, NEW r,
         SortedAre({EntryOf(l, i) : i \in BehindLines(l, q, c)}, n, r),
         NEW size \in 1..n, NEW p \in 1..n, p > size, NEW i \in BehindLines(l, q, c), r[p] = EntryOf(l, i)
  PROVE  /\ l[i].ms <= r[size].ms
         /\ l[i].ms = r[size].ms =>
              Carried(c, r[size].ms) + Cardinality({k \in 1..size : r[k].ms = r[size].ms}) <= Rank(l, q, i)
  <1> DEFINE ms == r[size].ms
             H == {k \in 1..size : r[k].ms = ms}
             B == BehindLines(l, q, c)
             T == {EntryOf(l, j) : j \in B}
  <1>1. B \subseteq Sought(l, q) /\ Sought(l, q) \subseteq DOMAIN l
    BY DEF BehindLines, Sought
  <1>2. \A k \in 1..n : \E j \in B : r[k] = EntryOf(l, j)
    <2>1. r \in [1..n -> T]
      BY DEF SortedAre
    <2>2. \A k \in 1..n : r[k] \in T
      BY <2>1
    <2> QED
      BY <2>2
  <1>3. \A k \in 1..n : /\ r[k].line \in B /\ r[k].ms = l[r[k].line].ms /\ r[k] = EntryOf(l, r[k].line)
    BY <1>2, EntryFields
  <1>4. \A j \in B : j \in Nat /\ l[j].ms \in Nat /\ Rank(l, q, j) \in Nat
    <2> TAKE j \in B
    <2>1. j \in DOMAIN l /\ j \in Sought(l, q)
      BY <1>1
    <2> QED
      BY <2>1, LineTypes, RanksDiffer
  <1>5. r[p].line = i /\ r[p].ms = l[i].ms
    BY DEF EntryOf
  <1>6. \A k \in 1..size : ~Newer(r[p], r[k])
    BY DEF SortedAre
  <1>7. l[i].ms <= ms
    <2>1. ~Newer(r[p], r[size]) /\ ms \in Nat /\ l[i].ms \in Nat
      BY <1>3, <1>4, <1>6
    <2> QED
      BY <2>1, <1>5 DEF Newer
  <1>8. ASSUME l[i].ms = ms
        PROVE  Carried(c, ms) + Cardinality(H) <= Rank(l, q, i)
    <2>1. \A j \in B : l[j].ms = ms => Carried(c, ms) \in Nat /\ Carried(c, ms) <= Rank(l, q, j)
      <3> SUFFICES ASSUME NEW j \in B, l[j].ms = ms
                   PROVE  Carried(c, ms) \in Nat /\ Carried(c, ms) <= Rank(l, q, j)
        OBVIOUS
      <3>1. CASE c # NoCursor /\ c.ms = ms
        <4>1. Carried(c, ms) = c.offset /\ c.offset \in Nat /\ c.ms \in Nat
          BY <3>1 DEF Carried, GoodCursor
        <4>2. Rank(l, q, j) >= c.offset
          BY <3>1, <4>1, <1>4 DEF BehindLines
        <4> QED
          BY <4>1, <4>2, <1>4
      <3>2. CASE ~(c # NoCursor /\ c.ms = ms)
        BY <3>2, <1>4 DEF Carried
      <3> QED
        BY <3>1, <3>2
    <2>2. \A k \in H : /\ r[k].line \in B /\ l[r[k].line].ms = ms /\ r[k].line < i
      <3> SUFFICES ASSUME NEW k \in H
                   PROVE  r[k].line \in B /\ l[r[k].line].ms = ms /\ r[k].line < i
        OBVIOUS
      <3>1. k \in 1..n /\ k # p /\ k \in 1..size /\ r[k].ms = ms
        OBVIOUS
      <3>2. r[k].line \in B /\ l[r[k].line].ms = ms /\ r[k].line \in Nat /\ i \in Nat
        BY <3>1, <1>3, <1>4
      <3>3. r[k] # r[p]
        BY <3>1 DEF SortedAre
      <3>4. r[k].line # i
        BY <3>1, <3>3, <1>3, <1>5
      <3>5. ~(i < r[k].line)
        BY <3>1, <1>5, <1>6, <1>8 DEF Newer
      <3> QED
        BY <3>2, <3>4, <3>5
    <2> DEFINE g == [k \in H |-> Rank(l, q, r[k].line)]
    <2>3. \A k \in H : Rank(l, q, r[k].line) \in Carried(c, ms)..(Rank(l, q, i) - 1)
      <3> SUFFICES ASSUME NEW k \in H
                   PROVE  Rank(l, q, r[k].line) \in Carried(c, ms)..(Rank(l, q, i) - 1)
        OBVIOUS
      <3>1. r[k].line \in B /\ l[r[k].line].ms = ms /\ r[k].line < i
        BY <2>2
      <3>2. Rank(l, q, r[k].line) < Rank(l, q, i)
        BY <3>1, <1>1, <1>8, RanksDiffer
      <3>3. Carried(c, ms) \in Nat /\ Carried(c, ms) <= Rank(l, q, r[k].line)
        BY <3>1, <2>1
      <3>4. Rank(l, q, r[k].line) \in Nat /\ Rank(l, q, i) \in Nat
        BY <3>1, <1>4
      <3> QED
        BY <3>2, <3>3, <3>4
    <2>4. \A j, k \in H : Rank(l, q, r[j].line) = Rank(l, q, r[k].line) => j = k
      <3> SUFFICES ASSUME NEW j \in H, NEW k \in H, Rank(l, q, r[j].line) = Rank(l, q, r[k].line)
                   PROVE  j = k
        OBVIOUS
      <3>1. /\ r[j].line \in B /\ l[r[j].line].ms = ms
            /\ r[k].line \in B /\ l[r[k].line].ms = ms
        BY <2>2
      <3>2. r[j].line = r[k].line
        BY <3>1, <1>1, RanksDiffer
      <3>3. r[j] = r[k]
        BY <3>2, <1>3
      <3> QED
        BY <3>3 DEF SortedAre
    <2>5. g \in [H -> Carried(c, ms)..(Rank(l, q, i) - 1)] /\ \A j, k \in H : g[j] = g[k] => j = k
      BY <2>3, <2>4
    <2>6. Carried(c, ms) \in Nat /\ Rank(l, q, i) \in Nat /\ Carried(c, ms) <= Rank(l, q, i)
      BY <1>4, <1>8, <2>1
    <2> HIDE DEF g, H, ms
    <2> QED
      BY <2>5, <2>6, FitsInterval
  <1> QED
    BY <1>7, <1>8

\* A page of the lines S, behind a cursor, that leaves the cursor `next`: entries of those
\* lines, each once, and all of those that the cursor it leaves counts.
PageOf(l, q, S, es, next) ==
  /\ es \in Seq(LogEntry)
  /\ \A k \in DOMAIN es : \E i \in S : es[k] = EntryOf(l, i)
  /\ \A j, k \in DOMAIN es : j # k => es[j].line # es[k].line
  /\ GoodCursor(next)
  /\ \A i \in S : AheadOf(l, q, next, i) => \E k \in DOMAIN es : es[k].line = i

\* Entries are entries.
LEMMA EntryTypes ==
  ASSUME NEW l \in LogText, NEW S \in SUBSET DOMAIN l
  PROVE  /\ {EntryOf(l, i) : i \in S} \in SUBSET LogEntry
         /\ IsFiniteSet({EntryOf(l, i) : i \in S}) /\ OneALine({EntryOf(l, i) : i \in S})
  <1>1. \A i \in S : EntryOf(l, i) \in LogEntry
    <2> TAKE i \in S
    <2>1. i \in Nat /\ l[i].ms \in Nat
      BY LineTypes
    <2>2. EntryLines(l) \in SUBSET DOMAIN l
      BY DEF EntryLines
    <2>3. Cardinality(SameMs(l, EntryLines(l), i)) \in Nat
      BY <2>2, SameMsCounts
    <2> QED
      BY <2>1, <2>3 DEF EntryOf, LogEntry
  <1>2. IsFiniteSet(1..Len(l)) /\ DOMAIN l = 1..Len(l)
    BY FS_Interval DEF LogText
  <1>3. IsFiniteSet(S)
    BY <1>2, FS_Subset
  <1>4. IsFiniteSet({EntryOf(l, i) : i \in S})
    BY <1>3, EntriesCount
  <1>5. OneALine({EntryOf(l, i) : i \in S})
    BY EntryFields DEF OneALine
  <1> QED
    BY <1>1, <1>4, <1>5

\* page_log_entries gives a page of the lines behind the cursor.
LEMMA PageParts ==
  ASSUME PagingConstants, log \in LogText, Len(log) <= LogTail,
         \A i \in DOMAIN log : log[i].ms < MaxUntil * MillisPerSecond,
         NEW q \in BOOLEAN, NEW c, GoodCursor(c), NEW P,
         P = PageLogEntries(Entries(Window(Until(c))), q, c, PageSize)
  PROVE  PageOf(log, q, BehindLines(log, q, c), P.entries, P.next)
  <1> DEFINE B == BehindLines(log, q, c)
             T == {EntryOf(log, i) : i \in B}
             r == NewestFirst(T)
             n == Cardinality(T)
             m == IF n > PageSize THEN PageSize ELSE n
             es == SubSeq(r, 1, m)
             ms == r[PageSize].ms
             H == {k \in 1..PageSize : r[k].ms = ms}
             next == IF n > PageSize THEN [ms |-> ms, offset |-> Carried(c, ms) + Cardinality(H)]
                     ELSE NoCursor
  <1>1. B \in SUBSET DOMAIN log
    BY DEF BehindLines, Sought
  <1>2. T \in SUBSET LogEntry /\ IsFiniteSet(T) /\ OneALine(T)
    BY <1>1, EntryTypes
  <1>3. n \in Nat /\ SortedAre(T, n, r)
    BY <1>2, NewestFirstSorts
  <1>4. r \in [1..n -> T] /\ r \in [1..n -> LogEntry]
    BY <1>2, <1>3 DEF SortedAre
  <1>5. r \in Seq(LogEntry) /\ Len(r) = n
    <2> HIDE DEF r, n
    <2> QED
      BY <1>3, <1>4, FunctionIsSeq
  <1>6. PageSize \in Nat /\ PageSize >= 1 /\ m \in 0..n /\ ~(PageSize > MaxPageSize)
    <2> HIDE DEF n
    <2> QED
      BY <1>3 DEF PagingConstants
  <1>7. P.entries = es /\ P.next = next
    <2>1. P = [entries |-> SubSeq(r, 1, IF Len(r) > PageSize THEN PageSize ELSE Len(r)),
               next |-> IF Len(r) > PageSize THEN CursorAfter(r, c, PageSize) ELSE NoCursor]
      BY <1>6, FoundBehind DEF PageLogEntries
    <2>2. CursorAfter(r, c, PageSize) = [ms |-> ms, offset |-> Carried(c, ms) + Cardinality(H)]
      <3> HIDE DEF r
      <3> QED
        BY DEF CursorAfter, Carried
    <2>3. /\ P.entries = SubSeq(r, 1, IF Len(r) > PageSize THEN PageSize ELSE Len(r))
          /\ P.next = IF Len(r) > PageSize THEN CursorAfter(r, c, PageSize) ELSE NoCursor
      <3> DEFINE a == SubSeq(r, 1, IF Len(r) > PageSize THEN PageSize ELSE Len(r))
                 b == IF Len(r) > PageSize THEN CursorAfter(r, c, PageSize) ELSE NoCursor
      <3>1. P = [entries |-> a, next |-> b]
        BY <2>1
      <3> HIDE DEF a, b
      <3>2. P.entries = a /\ P.next = b
        BY <3>1
      <3> QED
        BY <3>2 DEF a, b
    <2> HIDE DEF r, n, H, ms
    <2>4. P.entries = es
      BY <2>3, <1>5
    <2>5. P.next = next
      BY <2>3, <2>2, <1>5
    <2> QED
      BY <2>4, <2>5
  <1> HIDE DEF r, n, T, B
  <1>8. es \in Seq(LogEntry) /\ DOMAIN es = 1..m /\ \A k \in 1..m : es[k] = r[k]
    BY <1>3, <1>5, <1>6
  <1> HIDE DEF es
  <1>9. \A k \in 1..n : /\ r[k].line \in B /\ r[k] = EntryOf(log, r[k].line) /\ r[k].ms = log[r[k].line].ms
    <2> SUFFICES ASSUME NEW k \in 1..n
                 PROVE  r[k].line \in B /\ r[k] = EntryOf(log, r[k].line) /\ r[k].ms = log[r[k].line].ms
      OBVIOUS
    <2>1. r[k] \in T
      BY <1>4
    <2>2. PICK i \in B : r[k] = EntryOf(log, i)
      BY <2>1 DEF T
    <2> QED
      BY <2>2, EntryFields
  <1>10. \A k \in 1..m : k \in 1..n
    BY <1>3, <1>6
  <1>11. \A j, k \in 1..m : j # k => es[j].line # es[k].line
    <2> SUFFICES ASSUME NEW j \in 1..m, NEW k \in 1..m, j # k, es[j].line = es[k].line
                 PROVE  FALSE
      OBVIOUS
    <2>1. r[j] # r[k]
      BY <1>3, <1>10 DEF SortedAre
    <2>2. es[j] = r[j] /\ es[k] = r[k] /\ j \in 1..n /\ k \in 1..n
      BY <1>8, <1>10
    <2> QED
      BY <2>1, <2>2, <1>9
  <1>12. ASSUME n > PageSize
         PROVE  /\ next.ms = ms /\ next.offset = Carried(c, ms) + Cardinality(H)
                /\ GoodCursor(next) /\ next # NoCursor /\ next.offset \in Nat /\ ms \in Nat
    <2>1. PageSize \in 1..n /\ next = [ms |-> ms, offset |-> Carried(c, ms) + Cardinality(H)]
      BY <1>12, <1>3, <1>6
    <2>2. ms \in Nat /\ ms < MaxUntil * MillisPerSecond
      BY <2>1, <1>1, <1>9, LineTypes
    <2>3. Carried(c, ms) \in Nat
      BY DEF Carried, GoodCursor
    <2>4. IsFiniteSet(1..PageSize)
      <3>1. PageSize \in Int /\ 1 \in Int
        BY <1>6
      <3> QED
        BY <3>1, FS_Interval
    <2>5. H \in SUBSET (1..PageSize) /\ PageSize \in H
      BY <1>6
    <2> HIDE DEF H, ms, next
    <2>6. IsFiniteSet(H) /\ Cardinality(H) \in Nat
      BY <2>4, <2>5, FS_Subset, FS_CardinalityType
    <2>7. Cardinality(H) # 0
      BY <2>5, <2>6, FS_EmptySet
    <2>8. next.ms = ms /\ next.offset = Carried(c, ms) + Cardinality(H)
      BY <2>1
    <2>9. next.offset \in Nat \ {0}
      BY <2>3, <2>6, <2>7, <2>8
    <2>10. next # NoCursor
      BY <2>9 DEF NoCursor
    <2> QED
      BY <2>2, <2>8, <2>9, <2>10 DEF GoodCursor
  <1>15. GoodCursor(next)
    <2>1. CASE ~(n > PageSize)
      BY <2>1 DEF GoodCursor
    <2> QED
      BY <2>1, <1>12
  <1>13. \A i \in B : AheadOf(log, q, next, i) => \E k \in 1..m : es[k].line = i
    <2> SUFFICES ASSUME NEW i \in B, AheadOf(log, q, next, i)
                 PROVE  \E k \in 1..m : es[k].line = i
      OBVIOUS
    <2>1. PICK p \in 1..n : r[p] = EntryOf(log, i)
      BY <1>3 DEF SortedAre, T
    <2>2. r[p].line = i
      BY <2>1, EntryFields
    <2>3. CASE p \in 1..m
      BY <2>2, <2>3, <1>8
    <2>4. CASE p \notin 1..m
      <3>1. n > PageSize /\ PageSize \in 1..n /\ p > PageSize
        BY <2>4, <1>3, <1>6
      <3>2. /\ log[i].ms <= ms
            /\ log[i].ms = ms => Carried(c, ms) + Cardinality(H) <= Rank(log, q, i)
        BY <3>1, <2>1, <1>3, CutCounts DEF T, B
      <3>3. /\ next.ms = ms /\ next.offset = Carried(c, ms) + Cardinality(H)
            /\ next # NoCursor /\ next.offset \in Nat /\ ms \in Nat
        BY <3>1, <1>12
      <3>4. i \in Sought(log, q) /\ i \in DOMAIN log
        BY <1>1 DEF B, BehindLines
      <3>5. log[i].ms \in Nat /\ Rank(log, q, i) \in Nat
        BY <3>4, LineTypes, RanksDiffer
      <3> HIDE DEF next, ms, H
      <3>6. ~AheadOf(log, q, next, i)
        BY <3>2, <3>3, <3>5 DEF AheadOf
      <3> QED
        BY <3>6
    <2> QED
      BY <2>3, <2>4
  <1>14. \A k \in 1..m : \E i \in B : es[k] = EntryOf(log, i)
    BY <1>8, <1>9, <1>10
  <1> HIDE DEF next, m
  <1> QED
    BY <1>7, <1>8, <1>11, <1>13, <1>14, <1>15 DEF PageOf, B

\* Entries of the log as it is, no two of one line.
TrueOn(l, es) ==
  /\ \A k \in DOMAIN es : \E i \in EntryLines(l) : es[k] = EntryOf(l, i)
  /\ \A j, k \in DOMAIN es : j # k => es[j].line # es[k].line

\* The line has an entry among them.
HasLine(es, i) == \E k \in DOMAIN es : es[k].line = i

\* All that the cursor counts is there, of the first n lines.
Reached(l, q, n, c, es) == \A i \in 1..n : i \in Sought(l, q) /\ AheadOf(l, q, c, i) => HasLine(es, i)

\* All between two cursors is there.
Continues(l, q, n, c, next, es) ==
  \A i \in 1..n : i \in BehindLines(l, q, c) /\ AheadOf(l, q, next, i) => HasLine(es, i)

\* None of this changes when the log grows.
LEMMA GrowthKeeps ==
  ASSUME NEW l \in LogText, NEW m \in LogText, GrowsTo(l, m), NEW q \in BOOLEAN, NEW n \in Nat, n <= Len(l)
  PROVE  /\ \A es : TrueOn(l, es) => TrueOn(m, es)
         /\ \A c, es : Reached(l, q, n, c, es) => Reached(m, q, n, c, es)
         /\ \A c, next, es : Continues(l, q, n, c, next, es) => Continues(m, q, n, c, next, es)
  <1>1. \A i \in 1..n : i \in DOMAIN l
    BY DEF LogText
  <1>2. EntryLines(l) \subseteq DOMAIN l
    BY DEF EntryLines
  <1>3. \A es : TrueOn(l, es) => TrueOn(m, es)
    BY <1>2 DEF TrueOn, GrowsTo
  <1>4. \A c, i : i \in 1..n => (AheadOf(m, q, c, i) <=> AheadOf(l, q, c, i))
    BY <1>1 DEF AheadOf, GrowsTo
  <1>5. \A i \in 1..n : i \in Sought(m, q) <=> i \in Sought(l, q)
    BY <1>1 DEF GrowsTo
  <1>6. \A c, i : i \in 1..n => (i \in BehindLines(m, q, c) <=> i \in BehindLines(l, q, c))
    BY <1>1, <1>5 DEF BehindLines, GrowsTo
  <1>7. \A c, es : Reached(l, q, n, c, es) => Reached(m, q, n, c, es)
    BY <1>4, <1>5 DEF Reached
  <1>8. \A c, next, es : Continues(l, q, n, c, next, es) => Continues(m, q, n, c, next, es)
    BY <1>4, <1>6 DEF Continues
  <1> QED
    BY <1>3, <1>7, <1>8

\* Lists without a common line can be joined.
LEMMA JoinTrue ==
  ASSUME NEW l, NEW x \in Seq(LogEntry), NEW y \in Seq(LogEntry), TrueOn(l, x), TrueOn(l, y),
         \A j \in DOMAIN x, k \in DOMAIN y : x[j].line # y[k].line
  PROVE  /\ x \o y \in Seq(LogEntry) /\ TrueOn(l, x \o y)
         /\ \A i : HasLine(x, i) \/ HasLine(y, i) => HasLine(x \o y, i)
  <1> DEFINE z == x \o y
  <1>1. /\ z \in Seq(LogEntry)
        /\ \A k \in DOMAIN z : \/ k \in DOMAIN x /\ z[k] = x[k]
                               \/ k - Len(x) \in DOMAIN y /\ z[k] = y[k - Len(x)] /\ k \notin DOMAIN x
        /\ \A k \in DOMAIN x : k \in DOMAIN z /\ z[k] = x[k]
        /\ \A k \in DOMAIN y : k + Len(x) \in DOMAIN z /\ z[k + Len(x)] = y[k]
    <2>1. /\ DOMAIN x = 1..Len(x) /\ DOMAIN y = 1..Len(y) /\ Len(x) \in Nat /\ Len(y) \in Nat
          /\ z \in Seq(LogEntry) /\ DOMAIN z = 1..Len(x) + Len(y)
      OBVIOUS
    <2>2. \A k \in 1..Len(x) + Len(y) : z[k] = IF k <= Len(x) THEN x[k] ELSE y[k - Len(x)]
      OBVIOUS
    <2> HIDE DEF z
    <2> QED
      BY <2>1, <2>2
  <1>2. /\ DOMAIN z \subseteq Int /\ Len(x) \in Nat
    OBVIOUS
  <1> HIDE DEF z
  <1>3. \A k \in DOMAIN z : \E i \in EntryLines(l) : z[k] = EntryOf(l, i)
    BY <1>1 DEF TrueOn
  <1>4. ASSUME NEW j \in DOMAIN z, NEW k \in DOMAIN z, j # k
        PROVE  z[j].line # z[k].line
    <2>1. CASE j \in DOMAIN x /\ z[j] = x[j]
      BY <1>1, <1>4, <2>1 DEF TrueOn
    <2>2. CASE j - Len(x) \in DOMAIN y /\ z[j] = y[j - Len(x)] /\ j \notin DOMAIN x
      <3>1. CASE k \in DOMAIN x /\ z[k] = x[k]
        BY <2>2, <3>1
      <3>2. CASE k - Len(x) \in DOMAIN y /\ z[k] = y[k - Len(x)] /\ k \notin DOMAIN x
        <4>1. j - Len(x) # k - Len(x)
          BY <1>2, <1>4
        <4> QED
          BY <2>2, <3>2, <4>1 DEF TrueOn
      <3> QED
        BY <1>1, <3>1, <3>2
    <2> QED
      BY <1>1, <2>1, <2>2
  <1>5. \A i : HasLine(x, i) \/ HasLine(y, i) => HasLine(z, i)
    BY <1>1 DEF HasLine
  <1>6. TrueOn(l, z)
    BY <1>3, <1>4 DEF TrueOn
  <1> QED
    BY <1>1, <1>5, <1>6 DEF z

\* Entries with unknown ids are of lines that are not shown.
LEMMA UnknownJoins ==
  ASSUME NEW l \in LogText, NEW a \in Seq(LogEntry), NEW b \in Seq(LogEntry), TrueOn(l, a), TrueOn(l, b),
         NEW keep \in SUBSET DOMAIN b, \A k \in keep : b[k].id \notin Known(a),
         NEW r, r = Kept(b, keep)
  PROVE  /\ r \in Seq(LogEntry) /\ TrueOn(l, r)
         /\ \A j \in DOMAIN a, k \in DOMAIN r : a[j].line # r[k].line
         /\ \A k \in keep : HasLine(r, b[k].line)
  <1>1. r \in Seq(LogEntry) /\ KeptAre(b, keep, r)
    BY KeptParts
  <1>2. \A k \in DOMAIN r : \E i \in keep : r[k] = b[i]
    BY <1>1 DEF KeptAre
  <1>3. TrueOn(l, r)
    <2>1. \A k \in DOMAIN r : \E i \in EntryLines(l) : r[k] = EntryOf(l, i)
      BY <1>2 DEF TrueOn
    <2>2. ASSUME NEW j \in DOMAIN r, NEW k \in DOMAIN r, j # k
          PROVE  r[j].line # r[k].line
      <3>1. PICK x, y \in keep : x # y /\ r[j] = b[x] /\ r[k] = b[y]
        BY <1>1, <2>2 DEF KeptAre
      <3> QED
        BY <3>1 DEF TrueOn
    <2> QED
      BY <2>1, <2>2 DEF TrueOn
  <1>4. ASSUME NEW j \in DOMAIN a, NEW k \in DOMAIN r, a[j].line = r[k].line
        PROVE  FALSE
    <2>1. PICK i \in keep : r[k] = b[i]
      BY <1>2
    <2>2. PICK x \in EntryLines(l) : a[j] = EntryOf(l, x)
      BY DEF TrueOn
    <2>3. PICK y \in EntryLines(l) : r[k] = EntryOf(l, y)
      BY <1>3 DEF TrueOn
    <2>4. x = y
      BY <1>4, <2>2, <2>3, EntryFields
    <2>5. a[j].id = b[i].id
      BY <2>1, <2>2, <2>3, <2>4
    <2> QED
      BY <2>5 DEF Known
  <1>5. \A k \in keep : HasLine(r, b[k].line)
    BY <1>1 DEF KeptAre, HasLine
  <1> QED
    BY <1>1, <1>3, <1>4, <1>5

\* What is known is shown.
LEMMA KnownIsShown ==
  ASSUME NEW l \in LogText, NEW a \in Seq(LogEntry), NEW b \in Seq(LogEntry), TrueOn(l, a), TrueOn(l, b),
         NEW k \in DOMAIN b, b[k].id \in Known(a)
  PROVE  HasLine(a, b[k].line)
  <1>1. PICK j \in DOMAIN a : a[j].id = b[k].id
    BY DEF Known
  <1>2. PICK x \in EntryLines(l) : a[j] = EntryOf(l, x)
    BY DEF TrueOn
  <1>3. PICK y \in EntryLines(l) : b[k] = EntryOf(l, y)
    BY DEF TrueOn
  <1>4. x = y
    BY <1>1, <1>2, <1>3, IdsDiffer
  <1> QED
    BY <1>2, <1>3, <1>4 DEF HasLine

\* The fields of the reader; no request of it has failed.
ReaderShape(r) ==
  \E s, c, x, d, q, n : r = [shown |-> s, cursor |-> c, exhausted |-> x, loaded |-> d, query |-> q,
                             since |-> n, failed |-> FALSE]

\* The screen shows lines of the log, each once, and all that its cursor counts.
ReaderGood(l, r) ==
  /\ r.shown \in Seq(LogEntry) /\ TrueOn(l, r.shown)
  /\ GoodCursor(r.cursor) /\ r.query \in BOOLEAN /\ r.since \in 0..Len(l)
  /\ r.loaded => Reached(l, r.query, r.since, r.cursor, r.shown)

\* So does the page on its way: a first one from the newest line, an older one from the
\* screen's cursor.
PageGood(l, r, p) ==
  \/ p = NoPage
  \/ /\ p.entries \in Seq(LogEntry) /\ TrueOn(l, p.entries)
     /\ GoodCursor(p.next) /\ p.query \in BOOLEAN /\ p.since \in 0..Len(l)
     /\ p.kind = "first" => Reached(l, p.query, p.since, p.next, p.entries)
     /\ p.kind = "older" => Continues(l, r.query, r.since, r.cursor, p.next, p.entries)

\* A request that Docker is answering passed the gateway.
ForwardedGood ==
  \/ forwarded = NoRequest
  \/ Handle(label, forwarded, TRUE) = "forwarded" /\ forwarded.name \in {"", "web", "-odd"}

\* The lines that are written have times within the bound.
LogInv == log \in Seq([ms : 1..MaxMillis, text : LineTexts])

\* The inductive invariant: the window that no longer holds the log leaves only the shapes.
PagingInv ==
  /\ LogInv /\ ReaderShape(reader) /\ ForwardedGood
  /\ Len(log) <= LogTail => ReaderGood(log, reader) /\ PageGood(log, reader, page)

\* The gateway serves the collector's own requests.
LEMMA LogsServed ==
  ASSUME NEW text, NEW until
  PROVE  Handle(text, LogsRequest("web", until), TRUE) = "forwarded"
  BY DEF Handle, Allow, AllowLogs, ValidContainerName,
         LogsRequest, Request, InventoryPaths

\* And its lists, in the scope of the same label.
LEMMA ListsServed ==
  ASSUME NEW text, NEW r \in ListRequests(text)
  PROVE  Handle(text, r, TRUE) = "forwarded"
  <1>1. PICK path \in InventoryPaths : r = Request("GET", path, TrimmedLabel[text], "", 0, 0)
    BY DEF ListRequests, CollectorLabel
  <1>2. /\ r.method = "GET" /\ r.originForm = TRUE /\ r.framing = FALSE /\ r.body = FALSE /\ r.plain = TRUE
        /\ r.path \in InventoryPaths /\ r.label = TrimmedLabel[text]
    BY <1>1 DEF Request
  <1>3. Allow(PolicyLabel(text), r) = "allowed"
    BY <1>2 DEF Allow, AllowInventory, PolicyLabel, InventoryPaths
  <1> QED
    BY <1>2, <1>3 DEF Handle

\* The assumptions, in the form the lemmas use.
LEMMA LogTypes ==
  ASSUME LogInv
  PROVE  /\ PagingConstants /\ log \in LogText
         /\ \A i \in DOMAIN log : log[i].ms < MaxUntil * MillisPerSecond
  <1>1. PagingConstants
    BY PagingAssumption DEF PagingConstants
  <1>2. \A i \in DOMAIN log : log[i] \in [ms : 1..MaxMillis, text : {"hit", "miss", "bare"}]
    BY MemberOf DEF LogInv, LineTexts
  <1>3. /\ MaxMillis \in Nat /\ MaxMillis < MaxUntil * MillisPerSecond /\ MaxUntil \in Nat /\ MillisPerSecond \in Nat
    BY PagingAssumption, ClockAssumption
  <1>4. MaxUntil * MillisPerSecond \in Nat
    BY <1>3
  <1>5. \A i \in DOMAIN log : log[i].ms \in 1..MaxMillis
    BY <1>2
  <1>6. \A i \in DOMAIN log : log[i].ms < MaxUntil * MillisPerSecond
    BY <1>3, <1>4, <1>5
  <1>7. [ms : 1..MaxMillis, text : {"hit", "miss", "bare"}] \subseteq [ms : Nat, text : {"hit", "miss", "bare"}]
    BY <1>3
  <1>8. log \in LogText
    <2> DEFINE A == [ms : 1..MaxMillis, text : {"hit", "miss", "bare"}]
               B == [ms : Nat, text : {"hit", "miss", "bare"}]
    <2>1. log \in Seq(A) /\ A \subseteq B
      BY <1>7 DEF LogInv, LineTexts
    <2> HIDE DEF A, B
    <2>2. log \in Seq(B)
      BY <2>1
    <2> QED
      BY <2>2 DEF LogText, B
  <1> QED
    BY <1>1, <1>6, <1>8

\* The reader's fields make a reader.
LEMMA ShapeOf ==
  ASSUME NEW s, NEW c, NEW x, NEW d, NEW q, NEW n
  PROVE  ReaderShape([shown |-> s, cursor |-> c, exhausted |-> x, loaded |-> d, query |-> q, since |-> n,
                      failed |-> FALSE])
  BY Zenon DEF ReaderShape

\* What a page does to the screen: an older one moves on, a live one goes above.
ReadOn(r, s, c, x) == [r EXCEPT !.shown = s, !.cursor = c, !.exhausted = x]
ReadAbove(r, s, c) == [r EXCEPT !.shown = s, !.cursor = c]

\* The fields of a screen that moved on.
LEMMA ReadOnFields ==
  ASSUME NEW r, ReaderShape(r), NEW s, NEW c, NEW x
  PROVE  /\ ReaderShape(ReadOn(r, s, c, x)) /\ ReadOn(r, s, c, x).shown = s /\ ReadOn(r, s, c, x).cursor = c
         /\ ReadOn(r, s, c, x).loaded = r.loaded /\ ReadOn(r, s, c, x).query = r.query
         /\ ReadOn(r, s, c, x).since = r.since
  <1>1. PICK s0, c0, x0, d, q, m : r = [shown |-> s0, cursor |-> c0, exhausted |-> x0, loaded |-> d, query |-> q,
                                        since |-> m, failed |-> FALSE]
    BY DEF ReaderShape
  <1>2. ReadOn(r, s, c, x) = [shown |-> s, cursor |-> c, exhausted |-> x, loaded |-> d, query |-> q, since |-> m,
                              failed |-> FALSE]
    <2>1. ReadOn(r, s, c, x) =
            [[shown |-> s0, cursor |-> c0, exhausted |-> x0, loaded |-> d, query |-> q, since |-> m,
              failed |-> FALSE] EXCEPT !.shown = s, !.cursor = c, !.exhausted = x]
      BY <1>1 DEF ReadOn
    <2> QED
      BY <2>1
  <1> QED
    BY <1>1, <1>2, ShapeOf

\* The fields of a screen with lines added above.
LEMMA ReadAboveFields ==
  ASSUME NEW r, ReaderShape(r), NEW s, NEW c
  PROVE  /\ ReaderShape(ReadAbove(r, s, c)) /\ ReadAbove(r, s, c).shown = s /\ ReadAbove(r, s, c).cursor = c
         /\ ReadAbove(r, s, c).loaded = r.loaded /\ ReadAbove(r, s, c).query = r.query
         /\ ReadAbove(r, s, c).since = r.since
  <1>1. PICK s0, c0, x0, d, q, m : r = [shown |-> s0, cursor |-> c0, exhausted |-> x0, loaded |-> d, query |-> q,
                                        since |-> m, failed |-> FALSE]
    BY DEF ReaderShape
  <1>2. ReadAbove(r, s, c) = [shown |-> s, cursor |-> c, exhausted |-> x0, loaded |-> d, query |-> q, since |-> m,
                              failed |-> FALSE]
    <2>1. ReadAbove(r, s, c) =
            [[shown |-> s0, cursor |-> c0, exhausted |-> x0, loaded |-> d, query |-> q, since |-> m,
              failed |-> FALSE] EXCEPT !.shown = s, !.cursor = c]
      BY <1>1 DEF ReadAbove
    <2> QED
      BY <2>1
  <1> QED
    BY <1>1, <1>2, ShapeOf

\* The growth of the log keeps what is shown and what is on its way.
LEMMA AppendKeeps ==
  ASSUME PagingInv, NEW ms \in 1..MaxMillis, NEW text \in LineTexts, Append1(ms, text)
  PROVE  PagingInv'
  <1> DEFINE x == [ms |-> ms, text |-> text]
  <1>1. log' = Append(log, x) /\ reader' = reader /\ page' = page /\ forwarded' = forwarded /\ label' = label
    BY DEF Append1
  <1>2. LogInv' /\ Len(log) \in Nat /\ Len(log') = Len(log) + 1
    BY <1>1 DEF PagingInv, LogInv
  <1>3. log \in LogText
    BY LogTypes DEF PagingInv
  <1>4. x \in [ms : Nat, text : {"hit", "miss", "bare"}]
    BY PagingAssumption DEF LineTexts
  <1> HIDE DEF x
  <1>5. log' \in LogText /\ GrowsTo(log, log')
    BY <1>1, <1>3, <1>4, AppendGrows
  <1>6. ASSUME Len(log') <= LogTail
        PROVE  ReaderGood(log', reader) /\ PageGood(log', reader, page)
    <2>1. ReaderGood(log, reader) /\ PageGood(log, reader, page)
      BY <1>2, <1>6, PagingAssumption DEF PagingInv
    <2>2. ASSUME NEW q \in BOOLEAN, NEW n \in 0..Len(log)
          PROVE  /\ \A es : TrueOn(log, es) => TrueOn(log', es)
                 /\ \A c, es : Reached(log, q, n, c, es) => Reached(log', q, n, c, es)
                 /\ \A c, next, es : Continues(log, q, n, c, next, es) => Continues(log', q, n, c, next, es)
      <3>1. n \in Nat /\ n <= Len(log)
        BY <1>2
      <3> QED
        BY <3>1, <1>3, <1>5, GrowthKeeps
    <2>3. 0..Len(log) \subseteq 0..Len(log')
      BY <1>2
    <2>4. ReaderGood(log', reader)
      BY <2>1, <2>2, <2>3 DEF ReaderGood
    <2>5. PageGood(log', reader, page)
      <3>1. reader.query \in BOOLEAN /\ reader.since \in 0..Len(log)
        BY <2>1 DEF ReaderGood
      <3> QED
        BY <3>1, <2>1, <2>2, <2>3 DEF PageGood
    <2> QED
      BY <2>4, <2>5
  <1>7. ForwardedGood'
    BY <1>1 DEF PagingInv, ForwardedGood, Handle, Allow, AllowInventory, AllowLogs,
       PolicyLabel, ValidContainerName, InventoryPaths, NoRequest
  <1> QED
    BY <1>1, <1>2, <1>6, <1>7 DEF PagingInv

\* A request's page is one of the lines behind its cursor.
LEMMA AskKeeps ==
  ASSUME PagingInv, NEW kind \in {"first", "older", "live"}, NEW query, NEW cursor,
         Len(log) <= LogTail => GoodCursor(cursor) /\ query \in BOOLEAN,
         kind = "first" => cursor = NoCursor,
         kind = "older" => cursor = reader.cursor /\ query = reader.query,
         Ask(kind, query, cursor)
  PROVE  PagingInv'
  <1> DEFINE P == PageLogEntries(Entries(Window(Until(cursor))), query, cursor, PageSize)
             until == Until(cursor)
  <1>1. /\ forwarded' = LogsRequest("web", until)
        /\ page' = [kind |-> kind, entries |-> P.entries, next |-> P.next, query |-> query, since |-> Len(log)]
        /\ label' = label /\ log' = log /\ reader' = reader
    BY LogsServed DEF Ask
  <1> HIDE DEF P, until
  <1>2. Len(log) \in Nat /\ log \in LogText
    BY LogTypes DEF PagingInv, LogInv
  <1>3. ForwardedGood'
    <2>1. Handle(label, LogsRequest("web", until), TRUE) = "forwarded"
      BY LogsServed
    <2>2. LogsRequest("web", until).name = "web"
      BY DEF LogsRequest, Request
    <2>3. (Handle(label, forwarded, TRUE))' = Handle(label, LogsRequest("web", until), TRUE)
      BY <1>1
    <2> QED
      BY <1>1, <2>1, <2>2, <2>3 DEF ForwardedGood
  <1>4. ASSUME Len(log) <= LogTail
        PROVE  PageGood(log, reader, page')
    <2>1. PageOf(log, query, BehindLines(log, query, cursor), P.entries, P.next)
      BY <1>4, LogTypes, PageParts DEF PagingInv, P
    <2>2. /\ page'.entries = P.entries /\ page'.next = P.next /\ page'.query = query
          /\ page'.since = Len(log) /\ page'.kind = kind
      BY <1>1
    <2>9. query \in BOOLEAN
      BY <1>4
    <2>3. BehindLines(log, query, cursor) \subseteq Sought(log, query)
      BY DEF BehindLines
    <2>4. Sought(log, query) \subseteq EntryLines(log)
      BY DEF Sought, EntryLines
    <2>5. TrueOn(log, P.entries) /\ P.entries \in Seq(LogEntry) /\ GoodCursor(P.next)
      BY <2>1, <2>3, <2>4 DEF PageOf, TrueOn
    <2>6. \A i \in BehindLines(log, query, cursor) : AheadOf(log, query, P.next, i) => HasLine(P.entries, i)
      BY <2>1 DEF PageOf, HasLine
    <2>7. ASSUME kind = "first"
          PROVE  Reached(log, query, Len(log), P.next, P.entries)
      <3>1. BehindLines(log, query, cursor) = Sought(log, query)
        BY <2>7 DEF BehindLines
      <3> QED
        BY <3>1, <2>6 DEF Reached
    <2>8. ASSUME kind = "older"
          PROVE  Continues(log, reader.query, reader.since, reader.cursor, P.next, P.entries)
      BY <2>6, <2>8 DEF Continues
    <2> QED
      BY <1>2, <2>2, <2>5, <2>7, <2>8, <2>9 DEF PageGood
  <1>5. LogInv' /\ ReaderShape(reader')
    BY <1>1 DEF PagingInv, LogInv
  <1>6. ASSUME Len(log') <= LogTail
        PROVE  ReaderGood(log', reader') /\ PageGood(log', reader', page')
    <2>1. Len(log) <= LogTail
      BY <1>1, <1>6
    <2>2. ReaderGood(log, reader) /\ PageGood(log, reader, page')
      BY <2>1, <1>4 DEF PagingInv
    <2> QED
      BY <1>1, <2>2
  <1> QED
    BY <1>3, <1>5, <1>6 DEF PagingInv

\* Lines are ahead of a cursor or behind it.
LEMMA AheadOrBehind ==
  ASSUME NEW l \in LogText, NEW q \in BOOLEAN, NEW c, GoodCursor(c), NEW i \in Sought(l, q)
  PROVE  AheadOf(l, q, c, i) \/ i \in BehindLines(l, q, c)
  <1>1. Sought(l, q) \subseteq DOMAIN l
    BY DEF Sought
  <1>2. l[i].ms \in Nat /\ Rank(l, q, i) \in Nat
    BY <1>1, LineTypes, RanksDiffer
  <1> QED
    BY <1>2 DEF AheadOf, BehindLines, GoodCursor

\* A landing empties the way; what it leaves on the screen is left to show.
LEMMA LandingKeeps ==
  ASSUME PagingInv, log' = log, label' = label, page' = NoPage, forwarded' = NoRequest,
         ReaderShape(reader'), Len(log) <= LogTail => ReaderGood(log, reader')
  PROVE  PagingInv'
  <1>1. LogInv'
    BY DEF PagingInv, LogInv
  <1>2. ForwardedGood'
    BY DEF ForwardedGood, NoRequest
  <1>3. (Len(log) <= LogTail => ReaderGood(log, reader) /\ PageGood(log, reader, page))'
    <2>1. PageGood(log', reader', page')
      BY DEF PageGood, NoPage
    <2> QED
      BY <2>1
  <1> QED
    BY <1>1, <1>2, <1>3 DEF PagingInv

\* A first page replaces the screen.
LEMMA LandFirstKeeps ==
  ASSUME PagingInv, LandFirst
  PROVE  PagingInv'
  <1>1. /\ page.kind = "first" /\ page # NoPage
        /\ log' = log /\ label' = label /\ page' = NoPage /\ forwarded' = NoRequest
    BY DEF LandFirst, NoPage
  <1> DEFINE s == page.entries  c == page.next  q == page.query  n == page.since
  <1>2. reader' = [reader EXCEPT !.shown = s, !.cursor = c, !.exhausted = FALSE, !.loaded = TRUE, !.query = q, !.since = n]
    BY DEF LandFirst
  <1> HIDE DEF s, c, q, n
  <1>3. reader' = [shown |-> s, cursor |-> c, exhausted |-> FALSE, loaded |-> TRUE, query |-> q, since |-> n, failed |-> FALSE]
    <2>1. PICK s0, c0, x0, d0, q0, n0 : reader = [shown |-> s0, cursor |-> c0, exhausted |-> x0, loaded |-> d0, query |-> q0,
                                                  since |-> n0, failed |-> FALSE]
      BY DEF PagingInv, ReaderShape
    <2>2. reader' = [[shown |-> s0, cursor |-> c0, exhausted |-> x0, loaded |-> d0, query |-> q0,
                      since |-> n0, failed |-> FALSE]
                       EXCEPT !.shown = s, !.cursor = c, !.exhausted = FALSE, !.loaded = TRUE, !.query = q, !.since = n]
      BY <1>2, <2>1
    <2> QED
      BY <2>2
  <1>4. ReaderShape(reader')
    BY <1>3, Zenon DEF ReaderShape
  <1>5. /\ reader'.shown = s /\ reader'.cursor = c /\ reader'.query = q /\ reader'.since = n
    BY <1>3
  <1>6. Len(log) <= LogTail => ReaderGood(log, reader')
    <2>1. SUFFICES ASSUME Len(log) <= LogTail
                   PROVE  ReaderGood(log, reader')
      OBVIOUS
    <2>2. PageGood(log, reader, page)
      BY <2>1 DEF PagingInv
    <2> QED
      BY <1>1, <1>5, <2>2 DEF PageGood, ReaderGood, s, c, q, n
  <1> QED
    BY <1>1, <1>4, <1>6, LandingKeeps

\* An older page goes below: what it adds is what the screen's cursor had not reached.
LEMMA LandOlderKeeps ==
  ASSUME PagingInv, LandOlder
  PROVE  PagingInv'
  <1>1. /\ page.kind = "older" /\ page # NoPage
        /\ log' = log /\ label' = label /\ page' = NoPage /\ forwarded' = NoRequest
    BY DEF LandOlder, NoPage
  <1> DEFINE a == reader.shown
             b == page.entries
             keep == Unknown(b)
             r == Kept(b, keep)
             x == page.next = NoCursor
             c == page.next
             s == a \o r
  <1>2. reader' = ReadOn(reader, s, c, x)
    BY DEF LandOlder, ReadOn
  <1>3. keep \in SUBSET DOMAIN b /\ \A k \in DOMAIN b : k \in keep <=> b[k].id \notin Known(a)
    BY DEF Unknown
  <1>4. ReaderShape(reader)
    BY DEF PagingInv
  <1> HIDE DEF x, s, c
  <1>5. /\ ReaderShape(reader') /\ reader'.shown = s /\ reader'.cursor = c
        /\ reader'.loaded = reader.loaded /\ reader'.query = reader.query /\ reader'.since = reader.since
    BY <1>2, <1>4, ReadOnFields
  <1>6. ASSUME Len(log) <= LogTail
        PROVE  ReaderGood(log, reader')
    <2>1. ReaderGood(log, reader) /\ PageGood(log, reader, page) /\ log \in LogText
      BY <1>6, LogTypes DEF PagingInv
    <2>2. /\ a \in Seq(LogEntry) /\ TrueOn(log, a) /\ b \in Seq(LogEntry) /\ TrueOn(log, b)
          /\ reader.query \in BOOLEAN /\ GoodCursor(reader.cursor) /\ GoodCursor(c)
          /\ Continues(log, reader.query, reader.since, reader.cursor, c, b)
          /\ reader.loaded => Reached(log, reader.query, reader.since, reader.cursor, a)
      BY <1>1, <2>1 DEF ReaderGood, PageGood, c
    <2> HIDE DEF a, b, keep
    <2>3. /\ r \in Seq(LogEntry) /\ TrueOn(log, r)
          /\ \A j \in DOMAIN a, k \in DOMAIN r : a[j].line # r[k].line
          /\ \A k \in keep : HasLine(r, b[k].line)
      BY <1>3, <2>1, <2>2, UnknownJoins
    <2> HIDE DEF r
    <2>4. /\ s \in Seq(LogEntry) /\ TrueOn(log, s)
          /\ \A i : HasLine(a, i) \/ HasLine(r, i) => HasLine(s, i)
      BY <2>2, <2>3, JoinTrue DEF s
    <2>5. \A i : HasLine(b, i) => HasLine(s, i)
      <3> SUFFICES ASSUME NEW k \in DOMAIN b
                   PROVE  HasLine(s, b[k].line)
        BY DEF HasLine
      <3>1. CASE k \in keep
        BY <2>3, <2>4, <3>1
      <3>2. CASE k \notin keep
        <4>1. b[k].id \in Known(a)
          BY <1>3, <3>2
        <4>2. HasLine(a, b[k].line)
          BY <2>1, <2>2, <4>1, KnownIsShown
        <4> QED
          BY <2>4, <4>2
      <3> QED
        BY <3>1, <3>2
    <2>6. ASSUME reader.loaded
          PROVE  Reached(log, reader.query, reader.since, c, s)
      <3> SUFFICES ASSUME NEW i \in 1..reader.since, i \in Sought(log, reader.query),
                          AheadOf(log, reader.query, c, i)
                   PROVE  HasLine(s, i)
        BY DEF Reached
      <3>1. CASE AheadOf(log, reader.query, reader.cursor, i)
        BY <2>2, <2>4, <2>6, <3>1 DEF Reached
      <3>2. CASE i \in BehindLines(log, reader.query, reader.cursor)
        BY <2>2, <2>5, <3>2 DEF Continues
      <3> QED
        BY <2>1, <2>2, <3>1, <3>2, AheadOrBehind
    <2> QED
      BY <1>5, <2>1, <2>2, <2>4, <2>6 DEF ReaderGood
  <1> QED
    BY <1>1, <1>5, <1>6, LandingKeeps

\* A live page goes above and takes nothing away; a cursor is adopted only where everything
\* is shown.
LEMMA LandLiveKeeps ==
  ASSUME PagingInv, LandLive
  PROVE  PagingInv'
  <1>1. /\ page # NoPage
        /\ log' = log /\ label' = label /\ page' = NoPage /\ forwarded' = NoRequest
    BY DEF LandLive, NoPage
  <1> DEFINE a == reader.shown
             b == page.entries
             keep == {k \in Unknown(b) : b[k].ms >= a[1].ms}
             r == IF a = <<>> THEN b ELSE Kept(b, keep)
             c == IF reader.cursor = NoCursor /\ ~reader.exhausted THEN page.next ELSE reader.cursor
             s == r \o a
  <1>2. ReaderShape(reader)
    BY DEF PagingInv
  <1>3. reader' = ReadAbove(reader, s, c)
    BY DEF LandLive, ReadAbove
  <1>4. keep \in SUBSET DOMAIN b /\ \A k \in keep : b[k].id \notin Known(a)
    BY DEF Unknown
  <1> HIDE DEF s, c
  <1>5. /\ ReaderShape(reader') /\ reader'.shown = s /\ reader'.cursor = c
        /\ reader'.loaded = reader.loaded /\ reader'.query = reader.query /\ reader'.since = reader.since
    BY <1>2, <1>3, ReadAboveFields
  <1>6. ASSUME Len(log) <= LogTail
        PROVE  ReaderGood(log, reader')
    <2>1. ReaderGood(log, reader) /\ PageGood(log, reader, page) /\ log \in LogText
      BY <1>6, LogTypes DEF PagingInv
    <2>2. /\ a \in Seq(LogEntry) /\ TrueOn(log, a) /\ b \in Seq(LogEntry) /\ TrueOn(log, b)
          /\ GoodCursor(reader.cursor) /\ GoodCursor(page.next)
          /\ reader.loaded => Reached(log, reader.query, reader.since, reader.cursor, a)
      BY <1>1, <2>1 DEF ReaderGood, PageGood
    <2>3. /\ r \in Seq(LogEntry) /\ TrueOn(log, r)
          /\ \A j \in DOMAIN a, k \in DOMAIN r : a[j].line # r[k].line
      <3>1. CASE a = <<>>
        <4>1. r = b /\ DOMAIN a = {}
          BY <3>1
        <4> QED
          BY <2>2, <4>1
      <3>2. CASE a # <<>>
        <4>1. r = Kept(b, keep)
          BY <3>2
        <4> HIDE DEF a, b, keep, r
        <4> QED
          BY <1>4, <2>1, <2>2, <4>1, UnknownJoins
      <3> QED
        BY <3>1, <3>2
    <2> HIDE DEF a, b, keep, r
    <2>4. /\ s \in Seq(LogEntry) /\ TrueOn(log, s)
          /\ \A i : HasLine(a, i) \/ HasLine(r, i) => HasLine(s, i)
      <3>1. \A j \in DOMAIN r, k \in DOMAIN a : r[j].line # a[k].line
        BY <2>3
      <3> QED
        BY <2>2, <2>3, <3>1, JoinTrue DEF s
    <2>5. GoodCursor(c)
      BY <2>2 DEF c
    <2>6. \A i : AheadOf(log, reader.query, c, i) => AheadOf(log, reader.query, reader.cursor, i)
      BY DEF AheadOf, c
    <2>7. reader.loaded => Reached(log, reader.query, reader.since, c, s)
      BY <2>2, <2>4, <2>6 DEF Reached
    <2> QED
      BY <1>5, <2>1, <2>4, <2>5, <2>7 DEF ReaderGood
  <1> QED
    BY <1>1, <1>5, <1>6, LandingKeeps

\* What passes the gateway.
LEMMA ForwardedParts ==
  ASSUME NEW text, NEW r, Handle(text, r, TRUE) = "forwarded"
  PROVE  /\ r.method = "GET" /\ r.originForm /\ r.plain /\ ~r.framing /\ ~r.body
         /\ \/ r.path \in InventoryPaths /\ r.label = TrimmedLabel[text]
            \/ r.path = "logs" /\ r.tail = LogTail /\ ValidContainerName(r.name)
  <1>1. Allow(TrimmedLabel[text], r) = "allowed" /\ ~r.body
    BY DEF Handle, PolicyLabel
  <1>2. /\ r.method = "GET" /\ r.originForm /\ r.plain /\ ~r.framing
        /\ r.path \in InventoryPaths \/ r.path = "logs"
    BY <1>1 DEF Allow
  <1>3. CASE r.path \in InventoryPaths
    <2>1. AllowInventory(TrimmedLabel[text], r) = "allowed"
      BY <1>1, <1>2, <1>3 DEF Allow, InventoryPaths
    <2> QED
      BY <1>1, <1>2, <1>3, <2>1 DEF AllowInventory
  <1>4. CASE r.path = "logs"
    <2>1. AllowLogs(r) = "allowed"
      BY <1>1, <1>2, <1>4 DEF Allow, InventoryPaths
    <2> QED
      BY <1>1, <1>2, <1>4, <2>1 DEF AllowLogs
  <1> QED
    BY <1>2, <1>3, <1>4

\* The names other clients ask for.
LEMMA ProbeNames ==
  ASSUME NEW r \in Probes
  PROVE  r.name \in {"", "web", "-odd"}
  <1> DEFINE usual == ListRequests(label) \cup {LogsRequest("web", 0)}
  <1>1. ASSUME NEW u \in usual
        PROVE  \E p, t, z : \E n \in {"", "web"} :
          u = [method |-> "GET", originForm |-> TRUE, framing |-> FALSE, body |-> FALSE, plain |-> TRUE,
               path |-> p, label |-> t, name |-> n, until |-> 0, tail |-> z]
    <2>1. CASE u \in ListRequests(label)
      BY <2>1, Zenon DEF ListRequests, Request
    <2>2. CASE u = LogsRequest("web", 0)
      BY <2>2, Zenon DEF LogsRequest, Request
    <2> QED
      BY <1>1, <2>1, <2>2
  <1>2. CASE r \in usual
    <2>1. PICK p, t, z : \E n \in {"", "web"} :
            r = [method |-> "GET", originForm |-> TRUE, framing |-> FALSE, body |-> FALSE, plain |-> TRUE,
                 path |-> p, label |-> t, name |-> n, until |-> 0, tail |-> z]
      BY <1>1, <1>2
    <2>2. PICK n \in {"", "web"} :
            r = [method |-> "GET", originForm |-> TRUE, framing |-> FALSE, body |-> FALSE, plain |-> TRUE,
                 path |-> p, label |-> t, name |-> n, until |-> 0, tail |-> z]
      BY <2>1
    <2>3. r.name = n
      BY <2>2
    <2> QED
      BY <2>3
  <1>3. ASSUME NEW u \in usual,
               r \in {[u EXCEPT !.method = "POST"], [u EXCEPT !.originForm = FALSE],
                      [u EXCEPT !.framing = TRUE], [u EXCEPT !.body = TRUE],
                      [u EXCEPT !.plain = FALSE], [u EXCEPT !.path = "exec"],
                      [u EXCEPT !.label = NoLabel], [u EXCEPT !.name = "-odd"],
                      [u EXCEPT !.tail = LogTail + 1]}
        PROVE  r.name \in {"", "web", "-odd"}
    <2>1. PICK p, t, z : \E n \in {"", "web"} :
            u = [method |-> "GET", originForm |-> TRUE, framing |-> FALSE, body |-> FALSE, plain |-> TRUE,
                 path |-> p, label |-> t, name |-> n, until |-> 0, tail |-> z]
      BY <1>1
    <2>2. PICK n \in {"", "web"} :
            u = [method |-> "GET", originForm |-> TRUE, framing |-> FALSE, body |-> FALSE, plain |-> TRUE,
                 path |-> p, label |-> t, name |-> n, until |-> 0, tail |-> z]
      BY <2>1
    <2> QED
      BY <1>3, <2>2
  <1>4. r \in usual \/ \E u \in usual :
               r \in {[u EXCEPT !.method = "POST"], [u EXCEPT !.originForm = FALSE],
                      [u EXCEPT !.framing = TRUE], [u EXCEPT !.body = TRUE],
                      [u EXCEPT !.plain = FALSE], [u EXCEPT !.path = "exec"],
                      [u EXCEPT !.label = NoLabel], [u EXCEPT !.name = "-odd"],
                      [u EXCEPT !.tail = LogTail + 1]}
    BY Zenon DEF Probes
  <1> QED
    BY <1>2, <1>3, <1>4

\* The invariant holds at first.
LEMMA PagingInitial == ReadsInit => PagingInv
  <1> SUFFICES ASSUME ReadsInit
               PROVE  PagingInv
    OBVIOUS
  <1>1. log = <<>> /\ reader = EmptyReader /\ page = NoPage /\ forwarded = NoRequest
    BY DEF ReadsInit
  <1>2. LogInv
    BY <1>1 DEF LogInv
  <1>3. ReaderShape(reader)
    BY <1>1, ShapeOf DEF EmptyReader
  <1>4. ReaderGood(log, reader)
    <2>1. /\ reader.shown = <<>> /\ reader.cursor = NoCursor /\ reader.query = FALSE /\ reader.since = 0
          /\ reader.loaded = FALSE
      BY <1>1 DEF EmptyReader
    <2>2. <<>> \in Seq(LogEntry) /\ DOMAIN <<>> = {} /\ Len(<<>>) = 0
      OBVIOUS
    <2>3. TrueOn(log, <<>>)
      BY <2>2 DEF TrueOn
    <2> QED
      <3>1. reader.shown \in Seq(LogEntry) /\ TrueOn(log, reader.shown)
        BY <2>1, <2>2, <2>3, Zenon
      <3>2. reader.query \in BOOLEAN /\ ~reader.loaded
        BY <2>1, Zenon
      <3>4. reader.since \in 0..Len(log)
        <4>1. Len(log) = 0
          BY <1>1, <2>2, Zenon
        <4> QED
          BY <2>1, <4>1
      <3>3. GoodCursor(reader.cursor)
        BY <2>1 DEF GoodCursor
      <3> QED
        BY <3>1, <3>2, <3>3, <3>4 DEF ReaderGood
  <1>5. PageGood(log, reader, page) /\ ForwardedGood
    BY <1>1 DEF PageGood, ForwardedGood
  <1> QED
    BY <1>2, <1>3, <1>4, <1>5 DEF PagingInv

\* Every step keeps the invariant.
LEMMA PagingStep == PagingInv /\ [ReadsNext]_readsVars => PagingInv'
  <1> SUFFICES ASSUME PagingInv, [ReadsNext]_readsVars
               PROVE  PagingInv'
    OBVIOUS
  <1>0. Len(log) <= LogTail => reader.query \in BOOLEAN /\ GoodCursor(reader.cursor) /\ GoodCursor(NoCursor)
    BY DEF PagingInv, ReaderGood, GoodCursor
  <1>1. ASSUME NEW ms \in 1..MaxMillis, NEW text \in LineTexts, Append1(ms, text)
        PROVE  PagingInv'
    BY <1>1, AppendKeeps
  <1>2. ASSUME NEW query \in BOOLEAN, AskFirst(query)
        PROVE  PagingInv'
    BY <1>0, <1>2, AskKeeps DEF AskFirst
  <1>3. CASE AskOlder
    BY <1>0, <1>3, AskKeeps DEF AskOlder
  <1>4. CASE AskLive
    BY <1>0, <1>4, AskKeeps DEF AskLive
  <1>5. CASE LandFirst
    BY <1>5, LandFirstKeeps
  <1>6. CASE LandOlder
    BY <1>6, LandOlderKeeps
  <1>7. CASE LandLive
    BY <1>7, LandLiveKeeps
  <1>8. ASSUME log' = log, reader' = reader, page' = page, ForwardedGood'
        PROVE  PagingInv'
    BY <1>8 DEF PagingInv, LogInv
  <1>9. ASSUME NEW r \in Probes, SendRequest(r)
        PROVE  PagingInv'
    <2>1. forwarded' = r /\ label' = label /\ Handle(label, r, TRUE) = "forwarded"
      BY <1>9 DEF SendRequest
    <2>2. ForwardedGood'
      <3>1. (Handle(label, forwarded, TRUE))' = Handle(label, r, TRUE)
        BY <2>1
      <3> QED
        BY <2>1, <3>1, ProbeNames DEF ForwardedGood
    <2> QED
      BY <1>8, <1>9, <2>2 DEF SendRequest
  <1>10. CASE Answered
    BY <1>8, <1>10 DEF Answered, ForwardedGood
  <1>11. CASE UNCHANGED readsVars
    <2>1. log' = log /\ reader' = reader /\ page' = page /\ forwarded' = forwarded /\ label' = label
      BY <1>11 DEF readsVars
    <2>2. (Handle(label, forwarded, TRUE))' = Handle(label, forwarded, TRUE)
      BY <2>1
    <2>3. ForwardedGood'
      BY <2>1, <2>2 DEF PagingInv, ForwardedGood
    <2> QED
      BY <1>8, <2>1, <2>3
  <1> QED
    BY <1>1, <1>2, <1>3, <1>4, <1>5, <1>6, <1>7, <1>9, <1>10, <1>11 DEF ReadsNext, Landing

\* A reader who has come to the end has seen every sought line that was there when it started,
\* however the log grew in between (page_log_entries, log_until_seconds).
THEOREM NothingIsLost == ReadsSpec => []NothingLost
  <1>1. PagingInv => NothingLost
    <2> SUFFICES ASSUME PagingInv, reader.loaded, reader.cursor = NoCursor, Len(log) <= LogTail,
                        NEW i \in 1..reader.since, Wanted(i)
                 PROVE  i \in ShownLines
      BY DEF NothingLost
    <2>1. ReaderGood(log, reader) /\ log \in LogText
      BY LogTypes DEF PagingInv
    <2>2. Reached(log, reader.query, reader.since, reader.cursor, reader.shown) /\ reader.since \in 0..Len(log)
      BY <2>1 DEF ReaderGood
    <2>3. i \in DOMAIN log
      BY <2>1, <2>2 DEF LogText
    <2>4. i \in Sought(log, reader.query) /\ AheadOf(log, reader.query, reader.cursor, i)
      BY <2>3 DEF Wanted, Sought, AheadOf
    <2>5. HasLine(reader.shown, i)
      BY <2>2, <2>4 DEF Reached
    <2> QED
      BY <2>5 DEF HasLine, ShownLines
  <1> QED
    BY <1>1, PagingInitial, PagingStep, PTL DEF ReadsSpec

\* No line is on the screen twice and no two of its entries share an id, over first, older and
\* live pages (log_entry_id, the merges of Logs.tsx).
THEOREM LinesShownOnce == ReadsSpec => []ShownOnce
  <1>1. PagingInv => ShownOnce
    <2> SUFFICES ASSUME PagingInv, Len(log) <= LogTail,
                        NEW j \in DOMAIN reader.shown, NEW k \in DOMAIN reader.shown, j # k
                 PROVE  /\ reader.shown[j].line # reader.shown[k].line
                        /\ reader.shown[j].id # reader.shown[k].id
      BY DEF ShownOnce
    <2>1. TrueOn(log, reader.shown) /\ log \in LogText
      BY LogTypes DEF PagingInv, ReaderGood
    <2>2. reader.shown[j].line # reader.shown[k].line
      BY <2>1 DEF TrueOn
    <2>3. PICK x \in EntryLines(log) : reader.shown[j] = EntryOf(log, x)
      BY <2>1 DEF TrueOn
    <2>4. PICK y \in EntryLines(log) : reader.shown[k] = EntryOf(log, y)
      BY <2>1 DEF TrueOn
    <2>5. x # y
      BY <2>2, <2>3, <2>4
    <2> QED
      BY <2>1, <2>2, <2>3, <2>4, <2>5, IdsDiffer
  <1> QED
    BY <1>1, PagingInitial, PagingStep, PTL DEF ReadsSpec

\* The gateway serves the requests of a collector with the same label, and lets nothing else
\* through than plain bodiless GETs like them (Policy::allow, handle).
THEOREM GatewayAgreement == ReadsSpec => []GatewayAgrees
  <1>1. PagingInv => GatewayAgrees
    <2> SUFFICES ASSUME PagingInv
                 PROVE  GatewayAgrees
      OBVIOUS
    <2>1. ~reader.failed
      BY DEF PagingInv, ReaderShape
    <2>2. \A r \in ListRequests(label) : Handle(label, r, TRUE) = "forwarded"
      BY ListsServed
    <2>3. forwarded = NoRequest \/
           /\ forwarded.method = "GET" /\ forwarded.originForm /\ forwarded.plain /\ ~forwarded.framing /\ ~forwarded.body
           /\ \/ forwarded.path \in InventoryPaths /\ forwarded.label = TrimmedLabel[label]
              \/ forwarded.path = "logs" /\ forwarded.tail = LogTail /\ forwarded.name = "web"
      <3> SUFFICES ASSUME forwarded # NoRequest
                   PROVE  /\ forwarded.method = "GET" /\ forwarded.originForm /\ forwarded.plain /\ ~forwarded.framing /\ ~forwarded.body
                          /\ \/ forwarded.path \in InventoryPaths /\ forwarded.label = TrimmedLabel[label]
                             \/ forwarded.path = "logs" /\ forwarded.tail = LogTail /\ forwarded.name = "web"
        OBVIOUS
      <3>1. Handle(label, forwarded, TRUE) = "forwarded" /\ forwarded.name \in {"", "web", "-odd"}
        BY DEF PagingInv, ForwardedGood
      <3> QED
        BY <3>1, ForwardedParts DEF ValidContainerName
    <2> QED
      BY <2>1, <2>2, <2>3, Zenon DEF GatewayAgrees
  <1> QED
    BY <1>1, PagingInitial, PagingStep, PTL DEF ReadsSpec
=============================================================================
