---------------------------- MODULE ModelDelivery ----------------------------
(***************************************************************************)
(* How a publication of the daemon reaches the screen: the daemon's read   *)
(* routes, the Node API's fetchDaemon and events-stream handler, and the   *)
(* browser's useDaemonHeartbeat, useApiResource and useSystemModel.        *)
(*                                                                         *)
(* A revision is announced over server-sent events; the browser then       *)
(* fetches the snapshot, the runtime map and the findings in three         *)
(* independent requests and shows a model only when the first two agree.   *)
(* Publications, answers, settlements, stream errors and Demo Mode flips   *)
(* interleave freely.                                                      *)
(*                                                                         *)
(* Daemon revisions are numbered in publication order; only the daemon     *)
(* knows that order, the code compares revisions for equality.  One        *)
(* browser tab with its one stream is modelled, for a session that stays   *)
(* valid.  Requests of a render that another render replaces before any    *)
(* response can land are coalesced into the later one.                     *)
(***************************************************************************)
EXTENDS Integers, Sequences

CONSTANTS
  Openings,     \* bound: settings and configurations a page is opened under
  MaxRev,       \* bound: daemon publications explored
  MaxDisturbances, \* bound: lost calls, interrupted streams, Demo Mode flips
  MaxAttempts,  \* bound: fetch attempts after which the demo timer stops
  MaxWire       \* bound: frames under way

ASSUME DeliveryAssumption ==
  /\ Openings \subseteq [allowMock : BOOLEAN, demo : BOOLEAN, source : {"docker", "mock"}]
  /\ MaxRev \in Nat \ {0}
  /\ MaxDisturbances \in Nat
  /\ MaxAttempts \in Nat /\ MaxWire \in Nat \ {0}

VARIABLES
  allowMock,      \* DOCKERMAP_ALLOW_MOCK, read by the daemon and by the Node API
  daemon,         \* revision and mode of the daemon's cache
  conn,           \* the EventSource: "connecting", "open", "failed", "closed"
  lastEmitted,    \* lastEmittedRevision of the stream's handler
  wire,           \* frames the browser has not handled yet
  demo,           \* settings.demoMode
  health,         \* useDaemonHeartbeat: mode, and whether the stream is live
  lastStreamRev,  \* lastStreamRevision
  ticked,         \* refreshTick moved since the resource effects last ran
  ran,            \* the other dependencies the effects last ran with
  attempt,        \* attemptRef: the same for the three resources
  requests,       \* requests that are not aborted and not settled
  resource,       \* useApiResource state of each route
  shown,          \* lastModel, lastAtlas with its findings, lastProvenance
  disturbances    \* counter of the bound

daemonVars  == <<daemon, allowMock>>
streamVars  == <<conn, lastEmitted, wire>>
heartVars   == <<health, lastStreamRev>>
effectVars  == <<ticked, ran, attempt>>
pageVars    == <<requests, resource, shown>>
vars == <<allowMock, daemon, conn, lastEmitted, wire, demo, health, lastStreamRev, ticked,
          ran, attempt, requests, resource, shown, disturbances>>

Routes == {"snapshot", "runtime", "findings"}

NoRev == -3
DemoRev == -2
NodeMockRev == -1

\* The revision and the source stamp of a body; the rest of it is abstracted.
Bodies == [rev : Int, source : {"docker", "mock", "none", "sent", "failed"}]

Nothing  == [rev |-> NoRev, source |-> "none"]
Sent     == [rev |-> NoRev, source |-> "sent"]         \* no answer yet
Failed   == [rev |-> NoRev, source |-> "failed"]       \* an error instead
DemoBody == [rev |-> DemoRev, source |-> "none"]       \* getDemoResponse
NodeMock == [rev |-> NodeMockRev, source |-> "mock"]   \* getMockResponse

Provenances == {"live", "mock", "demo", "none"}

NoHealth   == [mode |-> "none", stream |-> "none"]
DemoHealth == [mode |-> "mock", stream |-> "live"]

HealthStates ==
  {NoHealth} \cup [mode : {"docker", "mock"}, stream : {"live", "interrupted"}]

Requests ==
  [route : Routes, attempt : Nat, demo : BOOLEAN, answer : Bodies]

ResourceStates ==
  [data : Bodies, generation : Nat, provenance : Provenances, error : BOOLEAN]

ShownModels ==
  [snap : Bodies, run : Bodies, overlay : Bodies, provenance : Provenances]

-----------------------------------------------------------------------------
(* The daemon and fetchDaemon *)

\* publication_cache answers 503 for a mock cache when mock is not allowed,
\* and fetchDaemon then has no fallback either.
DaemonRead == IF daemon.source = "mock" /\ ~allowMock THEN Failed ELSE daemon

\* What a caller gets when the daemon, or the API, does not answer in time:
\* transport loss falls back to the Node mock where that is allowed, a refused
\* or malformed response never does.
FaultyReads == IF allowMock THEN {Failed, NodeMock} ELSE {Failed}

Disturb ==
  disturbances < MaxDisturbances /\ disturbances' = disturbances + 1

\* publish_docker_snapshot_cache or a provider outcome: a new public model.
Publish(s) ==
  /\ daemon.rev < MaxRev
  /\ daemon' = [rev |-> daemon.rev + 1, source |-> s]
  /\ UNCHANGED <<allowMock, streamVars, demo, heartVars, effectVars, pageVars, disturbances>>

-----------------------------------------------------------------------------
(* The events-stream handler *)

\* One run of emit with the answer a of /daemon/health.  An equal revision
\* writes nothing; a failure writes an error frame and keeps lastEmitted.
Emitted(a) ==
  /\ conn = "open" /\ Len(wire) < MaxWire
  /\ \/ a = Failed /\ UNCHANGED lastEmitted
     \/ a # Failed /\ a.rev # lastEmitted /\ lastEmitted' = a.rev
  /\ wire' = Append(wire, a)
  /\ UNCHANGED <<daemonVars, conn, demo, heartVars, effectVars, pageVars>>

Emit == Emitted(DaemonRead) /\ UNCHANGED disturbances

EmitFault == Disturb /\ \E a \in FaultyReads : Emitted(a)

\* Mutant: the new stream's handler starts from the old one's revision.
ReconnectRemembering ==
  /\ conn = "connecting"
  /\ conn' = "open"
  /\ UNCHANGED <<lastEmitted, daemonVars, wire, demo, heartVars, effectVars,
                 pageVars, disturbances>>

\* The EventSource is admitted: a new handler runs.
Reconnect ==
  /\ conn = "connecting"
  /\ conn' = "open"
  /\ lastEmitted' = NoRev
  /\ UNCHANGED <<daemonVars, wire, demo, heartVars, effectVars, pageVars, disturbances>>

-----------------------------------------------------------------------------
(* useDaemonHeartbeat *)

\* The error listener.
Interrupted(h) == IF h = NoHealth THEN h ELSE [h EXCEPT !.stream = "interrupted"]

DeliverSnapshot ==
  /\ wire # <<>> /\ Head(wire) # Failed
  /\ health' = [mode |-> Head(wire).source, stream |-> "live"]
  /\ lastStreamRev' = Head(wire).rev
  /\ ticked' = (ticked \/ Head(wire).rev # lastStreamRev)
  /\ wire' = Tail(wire)
  /\ UNCHANGED <<daemonVars, conn, lastEmitted, demo, ran, attempt, pageVars,
                 disturbances>>

DeliverError ==
  /\ wire # <<>> /\ Head(wire) = Failed
  /\ health' = Interrupted(health)
  /\ wire' = Tail(wire)
  /\ UNCHANGED <<daemonVars, conn, lastEmitted, demo, lastStreamRev, effectVars,
                 pageVars, disturbances>>

\* The connection breaks: the EventSource retries by itself.
Drop ==
  /\ conn = "open"
  /\ Disturb
  /\ conn' = "connecting"
  /\ wire' = <<>>
  /\ health' = Interrupted(health)
  /\ UNCHANGED <<daemonVars, lastEmitted, demo, lastStreamRev, effectVars, pageVars>>

\* The stream is refused (stream_limit_reached): an EventSource does not retry
\* after a response that is not 200.
Refuse ==
  /\ conn = "connecting"
  /\ Disturb
  /\ conn' = "failed"
  /\ health' = Interrupted(health)
  /\ UNCHANGED <<daemonVars, lastEmitted, wire, demo, lastStreamRev, effectVars,
                 pageVars>>

EnterDemo ==
  /\ ~demo /\ Disturb
  /\ demo' = TRUE
  /\ conn' = "closed"
  /\ wire' = <<>>
  /\ health' = DemoHealth
  /\ ticked' = TRUE
  /\ UNCHANGED <<daemonVars, lastEmitted, lastStreamRev, ran, attempt, pageVars>>

LeaveDemo ==
  /\ demo /\ Disturb
  /\ demo' = FALSE
  /\ conn' = "connecting"
  /\ health' = NoHealth
  /\ lastStreamRev' = NoRev
  /\ UNCHANGED <<daemonVars, lastEmitted, wire, effectVars, pageVars>>

\* The interval of Demo Mode.
DemoTick ==
  /\ demo /\ ~ticked /\ attempt < MaxAttempts
  /\ ticked' = TRUE
  /\ UNCHANGED <<daemonVars, streamVars, demo, heartVars, ran, attempt, pageVars,
                 disturbances>>

-----------------------------------------------------------------------------
(* useApiResource *)

\* resolveEvidenceMode and modelProvenanceForMode
RequestedProvenance ==
  IF demo THEN "demo"
  ELSE IF health.mode = "docker" THEN "live"
  ELSE health.mode

\* Mutant: the cleanup aborts fetches only, and responses that have all arrived
\* still land.
SurvivingArrived(rs) == IF \A q \in rs : q.answer # Sent THEN rs ELSE {}

\* The requests that outlive the effect's cleanup: it aborts them all, and an
\* aborted request changes nothing.
Surviving(rs) == {}

\* The demo payload needs no call: fetchJson has it at once.
NewRequests(n) ==
  {[route |-> r, attempt |-> n, demo |-> demo,
    answer |-> IF demo THEN DemoBody ELSE Sent] : r \in Routes}

\* A render whose dependencies changed runs the effects of the three resources.
RunEffects ==
  /\ ticked \/ ran # [demo |-> demo, requested |-> RequestedProvenance]
  /\ ticked' = FALSE
  /\ ran' = [demo |-> demo, requested |-> RequestedProvenance]
  /\ attempt' = attempt + 1
  /\ requests' = Surviving(requests) \cup NewRequests(attempt + 1)
  /\ resource' = [r \in Routes |-> [resource[r] EXCEPT !.error = FALSE]]
  /\ UNCHANGED <<daemonVars, streamVars, demo, heartVars, shown, disturbances>>

Answered(q, a) ==
  /\ q.answer = Sent
  /\ requests' = (requests \ {q}) \cup {[q EXCEPT !.answer = a]}
  /\ UNCHANGED <<daemonVars, streamVars, demo, heartVars, effectVars, resource,
                 shown>>

Answer(q) == Answered(q, DaemonRead) /\ UNCHANGED disturbances

AnswerFault(q) == Disturb /\ \E a \in FaultyReads : Answered(q, a)

\* Mutant: Demo Mode is read when the response lands.
ActualProvenanceAtLanding(q) ==
  IF demo THEN "demo" ELSE IF q.answer.source = "docker" THEN "live" ELSE "mock"

\* The source of the bytes: Demo Mode as captured by the request, or the stamp.
ActualProvenance(q) ==
  IF q.demo THEN "demo" ELSE IF q.answer.source = "docker" THEN "live" ELSE "mock"

SettledState(s, q) ==
  IF q.answer = Failed
  THEN [s EXCEPT !.error = TRUE]
  ELSE [data |-> q.answer, generation |-> q.attempt,
        provenance |-> ActualProvenance(q), error |-> FALSE]

-----------------------------------------------------------------------------
(* useSystemModel *)

SameModelRevision(a, b) == a # Nothing /\ b # Nothing /\ a.rev = b.rev

\* The snapshot and the runtime map make up a model.
Aligned(res) ==
  /\ SameModelRevision(res["snapshot"].data, res["runtime"].data)
  /\ res["snapshot"].generation = res["runtime"].generation
  /\ res["snapshot"].provenance = res["runtime"].provenance

\* Mutant: findings are joined to the model by provenance alone.
AttestedByProvenance(res, body) ==
  /\ res["snapshot"].provenance = "live"
  /\ res["findings"].data # Nothing
  /\ res["findings"].provenance = "live"

\* Findings are shown with a model of revision body.rev.
Attested(res, body) ==
  /\ res["snapshot"].provenance = "live"
  /\ res["findings"].generation = res["snapshot"].generation
  /\ res["findings"].provenance = res["snapshot"].provenance
  /\ SameModelRevision(res["findings"].data, body)

Accepted(res) ==
  IF Aligned(res)
  THEN [snap |-> res["snapshot"].data,
        run |-> res["runtime"].data,
        overlay |-> IF Attested(res, res["runtime"].data)
                    THEN res["findings"].data ELSE Nothing,
        provenance |-> res["snapshot"].provenance]
  ELSE shown

\* The findings the hook returns beside the held model.
Findings ==
  IF shown.run # Nothing /\ Attested(resource, shown.run)
  THEN resource["findings"].data ELSE Nothing

\* A response, or an error, lands and the page renders.
Settle(q) ==
  /\ q.answer # Sent
  /\ requests' = requests \ {q}
  /\ resource' = [resource EXCEPT ![q.route] = SettledState(@, q)]
  /\ shown' = Accepted(resource')
  /\ UNCHANGED <<daemonVars, streamVars, demo, heartVars, effectVars, disturbances>>

-----------------------------------------------------------------------------
\* The page is opened while the daemon runs, in the mode the settings remember.
Init ==
  /\ \E o \in Openings : /\ allowMock = o.allowMock
                        /\ demo = o.demo
                        /\ daemon = [rev |-> 1, source |-> o.source]
  /\ conn = IF demo THEN "closed" ELSE "connecting"
  /\ health = IF demo THEN DemoHealth ELSE NoHealth
  /\ lastEmitted = NoRev /\ wire = <<>> /\ lastStreamRev = NoRev
  /\ ticked = FALSE /\ ran = [demo |-> demo, requested |-> RequestedProvenance]
  /\ attempt = 1 /\ requests = NewRequests(1)
  /\ resource = [r \in Routes |-> [data |-> Nothing, generation |-> 0,
                                   provenance |-> "none", error |-> FALSE]]
  /\ shown = [snap |-> Nothing, run |-> Nothing, overlay |-> Nothing,
              provenance |-> "none"]
  /\ disturbances = 0

Next ==
  \/ \E s \in {"docker", "mock"} : Publish(s)
  \/ Emit \/ EmitFault \/ Reconnect
  \/ DeliverSnapshot \/ DeliverError \/ Drop \/ Refuse
  \/ EnterDemo \/ LeaveDemo \/ DemoTick
  \/ RunEffects
  \/ \E q \in requests : Answer(q) \/ AnswerFault(q) \/ Settle(q)

Spec == Init /\ [][Next]_vars

\* Timers, the event loops and the time limits of both fetches: the handler
\* keeps polling, frames and responses are handled, every request ends, an
\* interrupted EventSource retries.  Nothing forces a publication or a fault.
Fairness ==
  /\ WF_vars(Emit \/ Reconnect)
  /\ WF_vars(DeliverSnapshot \/ DeliverError)
  /\ WF_vars(RunEffects)
  /\ WF_vars(\E q \in requests : Answer(q))
  /\ WF_vars(\E q \in requests : Settle(q))

FairSpec == Spec /\ Fairness

-----------------------------------------------------------------------------
(* Properties *)

TypeOK ==
  /\ allowMock \in BOOLEAN
  /\ daemon \in [rev : 1..MaxRev, source : {"docker", "mock"}]
  /\ conn \in {"connecting", "open", "failed", "closed"}
  /\ lastEmitted \in Int
  /\ wire \in Seq(Bodies)
  /\ demo \in BOOLEAN
  /\ health \in HealthStates
  /\ lastStreamRev \in Int
  /\ ticked \in BOOLEAN
  /\ ran \in [demo : BOOLEAN, requested : Provenances]
  /\ attempt \in Nat
  /\ requests \subseteq Requests
  /\ resource \in [Routes -> ResourceStates]
  /\ shown \in ShownModels
  /\ disturbances \in 0..MaxDisturbances

\* The provenance that the bytes of a body deserve.
BodyProvenance(b) ==
  CASE b.rev = DemoRev -> "demo" [] b = Nothing -> "none"
    [] b.source = "docker" -> "live" [] b.source = "mock" -> "mock"

\* The model on the screen is one publication under its own label: whatever
\* failed, fell back, or arrived late, snapshot and runtime map have the same
\* revision and source and the provenance names it.
PairIsOnePublication ==
  /\ shown.snap = shown.run
  /\ shown.provenance = BodyProvenance(shown.snap)

\* Findings, in the Atlas overlay or returned beside the model, are live
\* findings of exactly the publication on the screen, also when that model is
\* retained while newer resources have landed.
FindingsBelongToModel ==
  \A f \in {shown.overlay, Findings} :
    f # Nothing => f = shown.run /\ shown.provenance = "live" /\ f.source = "docker"

\* The page never goes back to an older publication of the daemon.
NoRollback ==
  [][shown'.snap.rev < shown.snap.rev => shown'.snap.rev < 1]_vars

ShownIsCurrent == shown.snap = IF demo THEN DemoBody ELSE daemon

ErrorIsShown == resource["snapshot"].error \/ resource["runtime"].error

\* The page has a source that answers: the demo payload or the daemon.
Served == demo \/ DaemonRead # Failed

\* Without mock fallback, once the daemon stops publishing, the page shows the
\* last publication or an error of one of the two requests, unless its stream
\* was refused; and a daemon that refuses its mock cache, or a refused stream,
\* is never shown as a live connection.
ModelConverges ==
  <>[](\/ allowMock
       \/ /\ Served => ShownIsCurrent \/ ErrorIsShown \/ conn = "failed"
          /\ ~Served \/ conn = "failed" => health.stream # "live")

=============================================================================
