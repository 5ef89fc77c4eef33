------------------------ MODULE ModelDeliveryProofs ------------------------
(***************************************************************************)
(* Proofs about ModelDelivery: what the page shows is one publication      *)
(* under its own label, the findings beside it are that publication's, and *)
(* the page never goes back to an older publication of the daemon.         *)
(*                                                                         *)
(* The page compares revisions, never bodies.  That this is enough rests   *)
(* on three facts about everything the page holds: each body is one the    *)
(* daemon really published (or the demo or the mock payload), so that a    *)
(* revision determines its body; each resource is labelled by the bytes it *)
(* holds; and whatever the current attempt has received is no older than   *)
(* the model on the screen.                                                *)
(***************************************************************************)
EXTENDS ModelDelivery, TLAPS

Sources == {"docker", "mock"}

-----------------------------------------------------------------------------
(* The inductive invariant *)

\* b is a payload that is not the daemon's, or the publication numbered b.rev
\* in a log of the sources the daemon has published under.
Genuine(b, log) ==
  /\ b \in Bodies
  /\ \/ b \in {Nothing, DemoBody, NodeMock}
     \/ b.rev \in 1..daemon.rev /\ b.source = log[b.rev]

Logs == {log \in [1..daemon.rev -> Sources] : log[daemon.rev] = daemon.source}

\* Everything the page holds was published.
HoldsGenuine(log) ==
  /\ \A q \in requests : q.answer \in {Sent, Failed} \/ Genuine(q.answer, log)
  /\ \A r \in Routes : Genuine(resource[r].data, log)
  /\ Genuine(shown.snap, log)

OnePublicationLog == \E log \in Logs : HoldsGenuine(log)

\* A request in Demo Mode has the demo payload; no other request does, and no
\* answer is empty.
AnswersFitRequests ==
  \A q \in requests :
    /\ q.answer # Nothing
    /\ q.demo => q.answer = DemoBody
    /\ ~q.demo => q.answer # DemoBody

\* A resource is labelled by what it holds.
ResourcesLabelled ==
  \A r \in Routes : resource[r].provenance = BodyProvenance(resource[r].data)

\* Requests are of the current attempt, one for a route that has not settled.
OneRequestEach ==
  /\ \A q \in requests : q.attempt = attempt /\ resource[q.route].generation < attempt
  /\ \A p, q \in requests : p.route = q.route => p = q
  /\ \A r \in Routes : resource[r].generation <= attempt

\* Whenever the resources make up a model, it is the model shown.
ShownIsAligned ==
  Aligned(resource) => shown.snap = resource["snapshot"].data

\* b is not a publication older than the model shown.
NoOlder(b) == b.rev >= 1 => b.rev >= shown.snap.rev

Pair == {"snapshot", "runtime"}

\* What the current attempt has received is no older than the model shown.
AttemptIsNewer ==
  /\ \A q \in requests : q.route \in Pair => NoOlder(q.answer)
  /\ \A r \in Pair : resource[r].generation = attempt => NoOlder(resource[r].data)

\* The findings on the Atlas are live findings of the publication shown.
OverlayBelongs ==
  shown.overlay # Nothing =>
    shown.overlay = shown.run /\ shown.provenance = "live" /\ shown.overlay.source = "docker"

PageInv ==
  /\ OnePublicationLog /\ AnswersFitRequests /\ ResourcesLabelled
  /\ OneRequestEach /\ ShownIsAligned /\ AttemptIsNewer
  /\ PairIsOnePublication /\ OverlayBelongs

-----------------------------------------------------------------------------
(* Type correctness *)

\* What a frame or an answer of the daemon's routes carries.
Answers == {Failed, NodeMock} \cup [rev : 1..MaxRev, source : Sources]

TypedInv == TypeOK /\ wire \in Seq(Answers)

\* The distinguished payloads are bodies, told apart by their fields.
LEMMA Payloads ==
  /\ NoRev \in Int /\ {Nothing, Sent, Failed, DemoBody, NodeMock} \subseteq Bodies
  /\ Nothing.rev = -3 /\ Sent.rev = -3 /\ Failed.rev = -3
  /\ DemoBody.rev = -2 /\ NodeMock.rev = -1
  /\ Nothing.source = "none" /\ Sent.source = "sent" /\ Failed.source = "failed"
  /\ DemoBody.source = "none" /\ NodeMock.source = "mock"
  BY DEF Nothing, Sent, Failed, DemoBody, NodeMock, Bodies, NoRev, DemoRev, NodeMockRev

\* Every answer is a body, and one that is not an error says where it is from.
LEMMA AnswerBodies ==
  /\ Answers \subseteq Bodies
  /\ \A a \in Answers : a # Failed => a.source \in Sources
  /\ \A a \in Answers : a # Failed => a.rev >= -1
  <1>1. [rev : 1..MaxRev, source : Sources] \subseteq Bodies
    BY DeliveryAssumption DEF Bodies, Sources
  <1> QED
    BY <1>1, Payloads, DeliveryAssumption DEF Answers, Sources

\* The routes answer with the daemon's cache or an error (publication_cache).
LEMMA ReadsAreAnswers ==
  ASSUME TypeOK
  PROVE  DaemonRead \in Answers /\ FaultyReads \subseteq Answers
  BY DEF TypeOK, DaemonRead, FaultyReads, Answers, Sources

\* A changed field of a record of the page leaves it one.
LEMMA RecordUpdates ==
  /\ \A q \in Requests : \A a \in Bodies :
       [q EXCEPT !.answer = a] =
         [route |-> q.route, attempt |-> q.attempt, demo |-> q.demo, answer |-> a]
  /\ \A s \in ResourceStates : \A e \in BOOLEAN :
       [s EXCEPT !.error = e] =
         [data |-> s.data, generation |-> s.generation, provenance |-> s.provenance,
          error |-> e]
  BY DEF Requests, ResourceStates

\* The requests of an effect are typed (useApiResource).
LEMMA NewRequestsTyped ==
  ASSUME TypeOK, NEW n \in Nat
  PROVE  NewRequests(n) \subseteq Requests
  <1>1. (IF demo THEN DemoBody ELSE Sent) \in Bodies /\ demo \in BOOLEAN
    BY Payloads DEF TypeOK
  <1> QED
    BY <1>1 DEF NewRequests, Requests

\* The dependencies an effect is keyed by are typed (resolveEvidenceMode).
LEMMA RequestedTyped ==
  ASSUME TypeOK
  PROVE  [demo |-> demo, requested |-> RequestedProvenance] \in
           [demo : BOOLEAN, requested : Provenances]
  <1>1. health.mode \in {"none", "docker", "mock"}
    BY DEF TypeOK, HealthStates, NoHealth
  <1> QED
    BY <1>1 DEF TypeOK, RequestedProvenance, Provenances

\* The error listener keeps the type of the heartbeat's health.
LEMMA InterruptedTyped ==
  ASSUME TypeOK
  PROVE  Interrupted(health) \in HealthStates
  <1>1. CASE health = NoHealth
    BY <1>1 DEF TypeOK, Interrupted
  <1>2. CASE health # NoHealth
    <2>1. PICK h \in [mode : {"docker", "mock"}, stream : {"live", "interrupted"}] : h = health
      BY <1>2 DEF TypeOK, HealthStates
    <2>2. [h EXCEPT !.stream = "interrupted"] = [mode |-> h.mode, stream |-> "interrupted"]
      BY <2>1
    <2> QED
      BY <1>2, <2>1, <2>2 DEF Interrupted, HealthStates
  <1> QED
    BY <1>1, <1>2

\* A settled resource is typed, whatever the answer (useApiResource).
LEMMA SettledTyped ==
  ASSUME NEW s \in ResourceStates, NEW q \in Requests
  PROVE  SettledState(s, q) \in ResourceStates
  <1>1. [s EXCEPT !.error = TRUE] \in ResourceStates
    BY RecordUpdates DEF ResourceStates
  <1>2. ActualProvenance(q) \in Provenances
    BY DEF ActualProvenance, Provenances
  <1>3. [data |-> q.answer, generation |-> q.attempt, provenance |-> ActualProvenance(q),
         error |-> FALSE] \in ResourceStates
    BY <1>2 DEF ResourceStates, Requests
  <1> QED
    BY <1>1, <1>3 DEF SettledState

\* The model accepted from typed resources is typed (useSystemModel).
LEMMA AcceptedTyped ==
  ASSUME TypeOK, NEW res \in [Routes -> ResourceStates]
  PROVE  Accepted(res) \in ShownModels
  <1>1. \A r \in Routes : res[r].data \in Bodies /\ res[r].provenance \in Provenances
    BY DEF ResourceStates
  <1>2. (IF Attested(res, res["runtime"].data) THEN res["findings"].data ELSE Nothing) \in Bodies
    BY <1>1, Payloads DEF Routes
  <1>3. shown \in ShownModels
    BY DEF TypeOK
  <1> QED
    BY <1>1, <1>2, <1>3 DEF Accepted, ShownModels, Routes

\* Init satisfies the typed invariant.
LEMMA TypedInit == Init => TypedInv
  <1> SUFFICES ASSUME Init PROVE TypedInv
    OBVIOUS
  <1>1. PICK o \in Openings : allowMock = o.allowMock /\ demo = o.demo
                              /\ daemon = [rev |-> 1, source |-> o.source]
    BY DEF Init
  <1>2. allowMock \in BOOLEAN /\ demo \in BOOLEAN
    BY <1>1, DeliveryAssumption
  <1>3. daemon \in [rev : 1..MaxRev, source : {"docker", "mock"}]
    BY <1>1, DeliveryAssumption
  <1>4. health \in HealthStates
    BY DEF Init, HealthStates, NoHealth, DemoHealth
  <1>5. ran \in [demo : BOOLEAN, requested : Provenances]
    <2>1. health.mode \in {"none", "docker", "mock"}
      BY <1>4 DEF HealthStates, NoHealth
    <2> QED
      BY <1>2, <2>1 DEF Init, RequestedProvenance, Provenances
  <1>6. requests \subseteq Requests
    <2>1. (IF demo THEN DemoBody ELSE Sent) \in Bodies
      BY Payloads
    <2> QED
      BY <1>2, <2>1 DEF Init, NewRequests, Requests
  <1>7. resource \in [Routes -> ResourceStates]
    BY Payloads DEF Init, ResourceStates, Provenances
  <1>8. shown \in ShownModels
    BY Payloads DEF Init, ShownModels, Provenances
  <1>9. wire \in Seq(Answers) /\ wire \in Seq(Bodies)
    BY DEF Init
  <1>10. /\ conn \in {"connecting", "open", "failed", "closed"}
         /\ lastEmitted \in Int /\ lastStreamRev \in Int /\ ticked \in BOOLEAN
         /\ attempt \in Nat /\ disturbances \in 0..MaxDisturbances
    <2>1. MaxDisturbances >= 0 /\ MaxDisturbances \in Int
      BY DeliveryAssumption
    <2>2. ticked \in BOOLEAN /\ conn \in {"connecting", "open", "failed", "closed"}
      BY DEF Init
    <2> QED
      BY <2>1, <2>2, Payloads DEF Init
  <1> QED
    BY <1>2, <1>3, <1>4, <1>5, <1>6, <1>7, <1>8, <1>9, <1>10 DEF TypedInv, TypeOK

\* Every step keeps the types; a frame or an answer is always one of Answers.
LEMMA TypedStep == TypedInv /\ [Next]_vars => TypedInv'
  <1> SUFFICES ASSUME TypedInv, [Next]_vars PROVE TypedInv'
    OBVIOUS
  <1>1. TypeOK /\ wire \in Seq(Answers)
    BY DEF TypedInv
  <1>2. Answers \subseteq Bodies
    BY AnswerBodies
  <1> USE DEF daemonVars, streamVars, heartVars, effectVars, pageVars
  <1>3. ASSUME Disturb PROVE disturbances' \in 0..MaxDisturbances
    BY <1>1, <1>3, DeliveryAssumption DEF Disturb, TypeOK
  <1>4. ASSUME NEW s \in {"docker", "mock"}, Publish(s) PROVE TypedInv'
    <2>1. daemon.rev \in 1..MaxRev /\ daemon.rev < MaxRev /\ MaxRev \in Nat
      BY <1>1, <1>4, DeliveryAssumption DEF Publish, TypeOK
    <2>2. daemon' \in [rev : 1..MaxRev, source : {"docker", "mock"}]
      BY <1>4, <2>1 DEF Publish
    <2> QED
      BY <1>1, <1>4, <2>2 DEF Publish, TypedInv, TypeOK
  <1>5. ASSUME NEW a \in Answers, Emitted(a), disturbances' \in 0..MaxDisturbances PROVE TypedInv'
    <2>1. lastEmitted' \in Int
      BY <1>1, <1>2, <1>5 DEF Emitted, TypeOK, Bodies
    <2>2. wire' \in Seq(Answers) /\ wire' \in Seq(Bodies)
      BY <1>1, <1>2, <1>5 DEF Emitted, TypeOK
    <2> QED
      BY <1>1, <1>5, <2>1, <2>2 DEF Emitted, TypedInv, TypeOK
  <1>6. CASE Emit
    BY <1>1, <1>5, <1>6, ReadsAreAnswers DEF Emit, TypeOK
  <1>7. CASE EmitFault
    BY <1>1, <1>3, <1>5, <1>7, ReadsAreAnswers DEF EmitFault
  <1>8. CASE Reconnect
    BY <1>1, <1>8, Payloads DEF Reconnect, TypedInv, TypeOK
  <1>9. ASSUME wire # <<>>
        PROVE  /\ Head(wire) \in Answers /\ Tail(wire) \in Seq(Answers)
               /\ Tail(wire) \in Seq(Bodies)
    BY <1>1, <1>9 DEF TypeOK
  <1>10. CASE DeliverSnapshot
    <2> DEFINE a == Head(wire)
    <2>1. a \in Answers /\ a # Failed /\ a.source \in Sources /\ a.rev \in Int
      BY <1>2, <1>9, <1>10, AnswerBodies DEF DeliverSnapshot, Bodies
    <2>2. health' \in HealthStates /\ lastStreamRev' \in Int
      BY <1>10, <2>1 DEF DeliverSnapshot, HealthStates, Sources
    <2>3. ticked' \in BOOLEAN
      BY <1>1, <1>10 DEF DeliverSnapshot, TypeOK
    <2> QED
      BY <1>1, <1>9, <1>10, <2>2, <2>3 DEF DeliverSnapshot, TypedInv, TypeOK
  <1>11. CASE DeliverError
    BY <1>1, <1>9, <1>11, InterruptedTyped DEF DeliverError, TypedInv, TypeOK
  <1>12. CASE Drop
    BY <1>1, <1>3, <1>12, InterruptedTyped DEF Drop, TypedInv, TypeOK
  <1>13. CASE Refuse
    BY <1>1, <1>3, <1>13, InterruptedTyped DEF Refuse, TypedInv, TypeOK
  <1>14. CASE EnterDemo
    BY <1>1, <1>3, <1>14 DEF EnterDemo, TypedInv, TypeOK, HealthStates, DemoHealth
  <1>15. CASE LeaveDemo
    BY <1>1, <1>3, <1>15, Payloads DEF LeaveDemo, TypedInv, TypeOK, HealthStates
  <1>16. CASE DemoTick
    BY <1>1, <1>16 DEF DemoTick, TypedInv, TypeOK
  <1>17. CASE RunEffects
    <2>1. attempt' \in Nat /\ NewRequests(attempt + 1) \subseteq Requests
      BY <1>1, <1>17, NewRequestsTyped DEF RunEffects, TypeOK
    <2>2. requests' \subseteq Requests
      BY <1>17, <2>1 DEF RunEffects, Surviving
    <2>3. \A r \in Routes : [resource[r] EXCEPT !.error = FALSE] \in ResourceStates
      <3> SUFFICES ASSUME NEW r \in Routes
                   PROVE  [resource[r] EXCEPT !.error = FALSE] \in ResourceStates
        OBVIOUS
      <3>1. PICK s \in ResourceStates : s = resource[r]
        BY <1>1 DEF TypeOK
      <3>2. [s EXCEPT !.error = FALSE] \in ResourceStates
        BY RecordUpdates DEF ResourceStates
      <3> QED
        BY <3>1, <3>2
    <2>4. resource' \in [Routes -> ResourceStates]
      BY <1>17, <2>3 DEF RunEffects
    <2>5. ran' \in [demo : BOOLEAN, requested : Provenances]
      BY <1>1, <1>17, RequestedTyped DEF RunEffects
    <2> QED
      BY <1>1, <1>17, <2>1, <2>2, <2>4, <2>5 DEF RunEffects, TypedInv, TypeOK
  <1>18. ASSUME NEW q \in requests, NEW a \in Answers, Answered(q, a),
                disturbances' \in 0..MaxDisturbances
         PROVE  TypedInv'
    <2>1. q \in Requests /\ a \in Bodies
      BY <1>1, <1>2 DEF TypeOK
    <2>2. [q EXCEPT !.answer = a] \in Requests
      BY <2>1, RecordUpdates DEF Requests
    <2>3. requests' \subseteq Requests
      BY <1>1, <1>18, <2>2 DEF Answered, TypeOK
    <2> QED
      BY <1>1, <1>18, <2>3 DEF Answered, TypedInv, TypeOK
  <1>19. ASSUME NEW q \in requests, Answer(q) PROVE TypedInv'
    BY <1>1, <1>18, <1>19, ReadsAreAnswers DEF Answer, TypeOK
  <1>20. ASSUME NEW q \in requests, AnswerFault(q) PROVE TypedInv'
    BY <1>1, <1>3, <1>18, <1>20, ReadsAreAnswers DEF AnswerFault
  <1>21. ASSUME NEW q \in requests, Settle(q) PROVE TypedInv'
    <2>1. q \in Requests /\ q.route \in Routes /\ resource \in [Routes -> ResourceStates]
      BY <1>1 DEF TypeOK, Requests
    <2>2. SettledState(resource[q.route], q) \in ResourceStates
      BY <2>1, SettledTyped
    <2>3. resource' \in [Routes -> ResourceStates]
      BY <1>21, <2>1, <2>2 DEF Settle
    <2>4. shown' \in ShownModels
      BY <1>1, <1>21, <2>3, AcceptedTyped DEF Settle
    <2>5. requests' \subseteq Requests
      BY <1>1, <1>21 DEF Settle, TypeOK
    <2> QED
      BY <1>1, <1>21, <2>3, <2>4, <2>5 DEF Settle, TypedInv, TypeOK
  <1>22. CASE UNCHANGED vars
    BY <1>1, <1>22 DEF vars, TypedInv, TypeOK
  <1> QED
    BY <1>4, <1>6, <1>7, <1>8, <1>10, <1>11, <1>12, <1>13, <1>14, <1>15, <1>16, <1>17,
       <1>19, <1>20, <1>21, <1>22 DEF Next

\* The daemon's cache, the stream, the heartbeat and the page keep their types, whatever is
\* lost, interrupted or answered by the mock fallback.
THEOREM TypeCorrect == Spec => []TypeOK
  <1>1. TypedInv => TypeOK
    BY DEF TypedInv
  <1> QED
    BY <1>1, TypedInit, TypedStep, PTL DEF Spec

-----------------------------------------------------------------------------
(* What the page shows *)

\* Of two bodies the page holds, equal revisions make equal bodies: comparing revisions is
\* enough (sameModelRevision).
LEMMA RevisionIsBody ==
  ASSUME TypeOK, NEW log \in Logs, NEW a, NEW b, Genuine(a, log), Genuine(b, log),
         a.rev = b.rev
  PROVE  a = b
  <1>1. a \in Bodies /\ b \in Bodies
    BY DEF Genuine
  <1>2. a.source = b.source
    BY Payloads DEF Genuine, TypeOK
  <1> QED
    BY <1>1, <1>2 DEF Bodies

\* The label a body deserves, and what a label says about its body.
LEMMA Labels ==
  /\ BodyProvenance(Nothing) = "none"
  /\ BodyProvenance(DemoBody) = "demo"
  /\ \A b \in Bodies : b.rev # -2 /\ b.source = "docker" => BodyProvenance(b) = "live"
  /\ \A b \in Bodies : b.rev # -2 /\ b.source = "mock" => BodyProvenance(b) = "mock"
  BY Payloads DEF BodyProvenance, DemoRev

\* A body labelled live is a Docker publication of the daemon.
LEMMA LiveIsDocker ==
  ASSUME TypeOK, NEW log \in Logs, NEW b, Genuine(b, log), BodyProvenance(b) = "live"
  PROVE  b.rev >= 1 /\ b.source = "docker"
  <1>1. b \notin {Nothing, DemoBody, NodeMock}
    BY Labels, Payloads
  <1>2. b \in Bodies /\ b.rev \in 1..daemon.rev /\ b.source \in Sources
    BY <1>1 DEF Genuine, Logs
  <1> QED
    BY <1>2, Labels DEF Sources, TypeOK

\* Init satisfies the page's invariant.
LEMMA PageInit == Init /\ TypeOK => PageInv
  <1> SUFFICES ASSUME Init, TypeOK PROVE PageInv
    OBVIOUS
  <1>1. daemon.rev = 1 /\ daemon.source \in Sources
    BY DEF Init, TypeOK, Sources
  <1>2. \A q \in requests : /\ q.attempt = 1 /\ q.answer = (IF demo THEN DemoBody ELSE Sent)
                            /\ q.demo = demo /\ q.route \in Routes
    BY DEF Init, NewRequests
  <1>3. /\ \A r \in Routes : /\ resource[r].data = Nothing /\ resource[r].generation = 0
                            /\ resource[r].provenance = "none"
        /\ shown.snap = Nothing /\ shown.run = Nothing /\ shown.overlay = Nothing
        /\ shown.provenance = "none" /\ attempt = 1
    BY DEF Init
  <1>4. OnePublicationLog
    <2> DEFINE log == [n \in 1..1 |-> daemon.source]
    <2>1. log \in Logs
      BY <1>1 DEF Logs
    <2>2. Genuine(Nothing, log) /\ Genuine(DemoBody, log)
      BY Payloads DEF Genuine
    <2> HIDE DEF log
    <2>3. HoldsGenuine(log)
      BY <1>2, <1>3, <2>2 DEF HoldsGenuine
    <2> QED
      BY <2>1, <2>3 DEF OnePublicationLog
  <1>5. AnswersFitRequests
    BY <1>2, Payloads DEF AnswersFitRequests
  <1>6. ResourcesLabelled /\ PairIsOnePublication /\ OverlayBelongs
    BY <1>3, Labels DEF ResourcesLabelled, PairIsOnePublication, OverlayBelongs
  <1>7. OneRequestEach
    <2>1. \A p, q \in requests : p.route = q.route => p = q
      BY DEF Init, NewRequests
    <2> QED
      BY <1>2, <1>3, <2>1 DEF OneRequestEach
  <1>8. ShownIsAligned
    BY <1>3 DEF ShownIsAligned, Aligned, SameModelRevision, Routes
  <1>9. AttemptIsNewer
    BY <1>2, <1>3, Payloads DEF AttemptIsNewer, NoOlder, Pair, Routes
  <1> QED
    BY <1>4, <1>5, <1>6, <1>7, <1>8, <1>9 DEF PageInv

\* A publication extends the log and touches nothing the page holds.
LEMMA PublishKeeps ==
  ASSUME TypeOK, PageInv, NEW s \in {"docker", "mock"}, Publish(s)
  PROVE  PageInv'
  <1>1. /\ daemon' = [rev |-> daemon.rev + 1, source |-> s] /\ daemon.rev \in 1..MaxRev
        /\ attempt' = attempt /\ requests' = requests /\ resource' = resource /\ shown' = shown
    BY DEF Publish, TypeOK, effectVars, pageVars
  <1>2. OnePublicationLog'
    <2>1. PICK log \in Logs : HoldsGenuine(log)
      BY DEF PageInv, OnePublicationLog
    <2>2. daemon'.rev = daemon.rev + 1 /\ daemon'.source = s
      BY <1>1
    <2>3. log \in [1..daemon.rev -> Sources] /\ s \in Sources /\ daemon.rev \in Nat
      BY <1>1 DEF Logs, Sources
    <2>4. PICK more \in [1..(daemon.rev + 1) -> Sources] :
            more = [n \in 1..(daemon.rev + 1) |-> IF n = daemon.rev + 1 THEN s ELSE log[n]]
      <3>1. [n \in 1..(daemon.rev + 1) |-> IF n = daemon.rev + 1 THEN s ELSE log[n]]
              \in [1..(daemon.rev + 1) -> Sources]
        BY <2>3
      <3> QED
        BY <3>1
    <2>5. /\ more[daemon.rev + 1] = s
          /\ \A n \in 1..daemon.rev : n \in 1..(daemon.rev + 1) /\ more[n] = log[n]
      BY <2>3, <2>4
    <2>6. more \in Logs'
      BY <2>2, <2>4, <2>5 DEF Logs
    <2>7. \A b : Genuine(b, log) => Genuine(b, more)'
      BY <2>2, <2>5 DEF Genuine
    <2>8. HoldsGenuine(more)'
      BY <1>1, <2>1, <2>7 DEF HoldsGenuine
    <2> QED
      BY <2>6, <2>8 DEF OnePublicationLog
  <1> QED
    BY <1>1, <1>2 DEF PageInv, AnswersFitRequests, ResourcesLabelled, OneRequestEach,
       ShownIsAligned, AttemptIsNewer, NoOlder, PairIsOnePublication, OverlayBelongs

\* A step that touches neither the daemon nor the page keeps the invariant.
LEMMA ElsewhereKeeps ==
  ASSUME PageInv, UNCHANGED <<daemon, attempt, requests, resource, shown>>
  PROVE  PageInv'
  <1>1. OnePublicationLog'
    BY DEF PageInv, OnePublicationLog, Logs, HoldsGenuine, Genuine
  <1> QED
    BY <1>1 DEF PageInv, AnswersFitRequests, ResourcesLabelled, OneRequestEach,
       ShownIsAligned, AttemptIsNewer, NoOlder, PairIsOnePublication, OverlayBelongs

\* A new attempt aborts what was under way and starts with nothing received.
LEMMA EffectsKeep ==
  ASSUME TypeOK, PageInv, RunEffects
  PROVE  PageInv'
  <1>1. /\ attempt' = attempt + 1 /\ attempt \in Nat /\ requests' = NewRequests(attempt + 1)
        /\ daemon' = daemon /\ shown' = shown
    BY DEF RunEffects, Surviving, TypeOK, daemonVars
  <1>2. \A r \in Routes : /\ resource'[r].data = resource[r].data
                          /\ resource'[r].generation = resource[r].generation
                          /\ resource'[r].provenance = resource[r].provenance
    <2> SUFFICES ASSUME NEW r \in Routes
                 PROVE  /\ resource'[r].data = resource[r].data
                        /\ resource'[r].generation = resource[r].generation
                        /\ resource'[r].provenance = resource[r].provenance
      OBVIOUS
    <2>1. PICK s \in ResourceStates : s = resource[r]
      BY DEF TypeOK
    <2>2. resource'[r] = [s EXCEPT !.error = FALSE]
      BY <2>1 DEF RunEffects
    <2>3. resource'[r] = [data |-> s.data, generation |-> s.generation,
                          provenance |-> s.provenance, error |-> FALSE]
      BY <2>2, RecordUpdates
    <2> QED
      BY <2>1, <2>3
  <1>3. \A q \in requests' : /\ q.attempt = attempt + 1 /\ q.demo = demo /\ q.route \in Routes
                             /\ q.answer = (IF demo THEN DemoBody ELSE Sent)
    BY <1>1 DEF NewRequests
  <1>4. \A r \in Routes : resource[r].generation \in Nat /\ resource[r].generation <= attempt
    BY DEF TypeOK, ResourceStates, PageInv, OneRequestEach
  <1>5. OnePublicationLog'
    <2>1. PICK log \in Logs : HoldsGenuine(log)
      BY DEF PageInv, OnePublicationLog
    <2>2. Genuine(DemoBody, log)
      BY Payloads DEF Genuine
    <2>3. log \in Logs' /\ \A b : Genuine(b, log)' <=> Genuine(b, log)
      BY <1>1 DEF Logs, Genuine
    <2>4. HoldsGenuine(log)'
      BY <1>1, <1>2, <1>3, <2>1, <2>2, <2>3 DEF HoldsGenuine
    <2> QED
      BY <2>3, <2>4 DEF OnePublicationLog
  <1>6. AnswersFitRequests'
    BY <1>3, Payloads DEF AnswersFitRequests
  <1>7. ResourcesLabelled'
    BY <1>2 DEF PageInv, ResourcesLabelled
  <1>8. OneRequestEach'
    <2>1. \A p, q \in requests' : p.route = q.route => p = q
      BY <1>1 DEF NewRequests
    <2> QED
      BY <1>1, <1>2, <1>3, <1>4, <2>1 DEF OneRequestEach
  <1>9. ShownIsAligned'
    BY <1>1, <1>2 DEF PageInv, ShownIsAligned, Aligned, Routes
  <1>10. AttemptIsNewer'
    BY <1>1, <1>2, <1>3, <1>4, Payloads DEF AttemptIsNewer, NoOlder, Pair, Routes
  <1>11. PairIsOnePublication' /\ OverlayBelongs'
    BY <1>1 DEF PageInv, PairIsOnePublication, OverlayBelongs
  <1> QED
    BY <1>5, <1>6, <1>7, <1>8, <1>9, <1>10, <1>11 DEF PageInv

\* An answer is the daemon's cache of the moment, hence no older than the model shown.
LEMMA AnswerKeeps ==
  ASSUME TypeOK, PageInv, NEW q \in requests, NEW a \in {Failed, NodeMock, daemon}, Answered(q, a)
  PROVE  PageInv'
  <1>1. /\ daemon' = daemon /\ shown' = shown /\ attempt' = attempt /\ resource' = resource
        /\ q.answer = Sent /\ q \in Requests /\ a \in Bodies
    <2>1. daemon \in Bodies
      BY DEF TypeOK, Bodies
    <2> QED
      BY <2>1, Payloads DEF Answered, TypeOK, daemonVars, effectVars
  <1>2. PICK y \in Requests : y = [q EXCEPT !.answer = a]
    BY <1>1, RecordUpdates DEF Requests
  <1>3. y.route = q.route /\ y.attempt = q.attempt /\ y.demo = q.demo /\ y.answer = a
    BY <1>1, <1>2, RecordUpdates
  <1>4. requests' = (requests \ {q}) \cup {y}
    BY <1>2 DEF Answered
  <1>5. ~q.demo
    BY <1>1, Payloads DEF PageInv, AnswersFitRequests
  <1>6. daemon.rev >= 1 /\ daemon.rev \in Int /\ daemon.source \in Sources
    BY DEF TypeOK, Sources
  <1>7. PICK log \in Logs : HoldsGenuine(log)
    BY DEF PageInv, OnePublicationLog
  <1>8. a = Failed \/ Genuine(a, log)
    BY <1>1, <1>6 DEF Genuine, Logs
  <1>9. OnePublicationLog'
    <2>1. log \in Logs' /\ \A b : Genuine(b, log)' <=> Genuine(b, log)
      BY <1>1 DEF Logs, Genuine
    <2>2. HoldsGenuine(log)'
      BY <1>1, <1>3, <1>4, <1>7, <1>8, <2>1 DEF HoldsGenuine
    <2> QED
      BY <2>1, <2>2 DEF OnePublicationLog
  <1>10. AnswersFitRequests'
    <2>1. a # Nothing /\ a # DemoBody
      BY <1>6, Payloads
    <2> QED
      BY <1>3, <1>4, <1>5, <2>1 DEF PageInv, AnswersFitRequests
  <1>11. OneRequestEach'
    BY <1>1, <1>3, <1>4 DEF PageInv, OneRequestEach
  <1>12. AttemptIsNewer'
    <2>1. NoOlder(a)
      <3>1. shown.snap.rev <= daemon.rev
        BY <1>6, <1>7, Payloads DEF HoldsGenuine, Genuine
      <3> QED
        BY <1>6, <3>1, Payloads DEF NoOlder
    <2> QED
      BY <1>1, <1>3, <1>4, <2>1 DEF PageInv, AttemptIsNewer, NoOlder
  <1>13. ResourcesLabelled' /\ ShownIsAligned' /\ PairIsOnePublication' /\ OverlayBelongs'
    BY <1>1 DEF PageInv, ResourcesLabelled, ShownIsAligned, PairIsOnePublication, OverlayBelongs
  <1> QED
    BY <1>9, <1>10, <1>11, <1>12, <1>13 DEF PageInv

\* What a settlement does to the resources: an error keeps what its resource held, any other
\* answer replaces it under the attempt's number; the other resources stay (useApiResource).
LEMMA SettledFields ==
  ASSUME TypeOK, PageInv, NEW q \in requests, Settle(q)
  PROVE  /\ q.route \in Routes
         /\ \A r \in Routes \ {q.route} : resource'[r] = resource[r]
         /\ q.answer = Failed =>
              /\ resource'[q.route].data = resource[q.route].data
              /\ resource'[q.route].generation = resource[q.route].generation
              /\ resource'[q.route].provenance = resource[q.route].provenance
         /\ q.answer # Failed =>
              /\ resource'[q.route].data = q.answer
              /\ resource'[q.route].generation = attempt
              /\ resource'[q.route].provenance = BodyProvenance(q.answer)
  <1>1. q \in Requests /\ q.route \in Routes /\ resource \in [Routes -> ResourceStates]
    BY DEF TypeOK, Requests
  <1>2. PICK s \in ResourceStates : s = resource[q.route]
    BY <1>1
  <1>3. resource' = [resource EXCEPT ![q.route] = SettledState(s, q)]
    BY <1>2 DEF Settle
  <1>4. resource'[q.route] = SettledState(s, q)
    BY <1>1, <1>3
  <1>5. \A r \in Routes \ {q.route} : resource'[r] = resource[r]
    BY <1>1, <1>3
  <1>6. ASSUME q.answer = Failed
        PROVE  /\ resource'[q.route].data = s.data
               /\ resource'[q.route].generation = s.generation
               /\ resource'[q.route].provenance = s.provenance
    <2>1. resource'[q.route] = [s EXCEPT !.error = TRUE]
      BY <1>4, <1>6 DEF SettledState
    <2>2. resource'[q.route] = [data |-> s.data, generation |-> s.generation,
                                provenance |-> s.provenance, error |-> TRUE]
      BY <2>1, RecordUpdates
    <2> QED
      BY <2>2
  <1>7. ASSUME q.answer # Failed
        PROVE  /\ resource'[q.route].data = q.answer
               /\ resource'[q.route].generation = attempt
               /\ resource'[q.route].provenance = BodyProvenance(q.answer)
    <2>1. resource'[q.route] = [data |-> q.answer, generation |-> q.attempt,
                                provenance |-> ActualProvenance(q), error |-> FALSE]
      BY <1>4, <1>7 DEF SettledState
    <2>2. q.attempt = attempt
      BY DEF PageInv, OneRequestEach
    <2>3. PICK log \in Logs : HoldsGenuine(log)
      BY DEF PageInv, OnePublicationLog
    <2>4. q.answer # Sent /\ Genuine(q.answer, log)
      BY <1>7, <2>3 DEF Settle, HoldsGenuine
    <2>5. CASE q.demo
      BY <2>1, <2>2, <2>5, Labels DEF PageInv, AnswersFitRequests, ActualProvenance
    <2>6. CASE ~q.demo
      <3>1. q.answer # DemoBody /\ q.answer # Nothing
        BY <2>6 DEF PageInv, AnswersFitRequests
      <3>2. q.answer \in Bodies /\ q.answer.source \in Sources /\ q.answer.rev # -2
        BY <2>4, <3>1, Payloads DEF Genuine, Logs, Sources, TypeOK
      <3>3. ActualProvenance(q) = BodyProvenance(q.answer)
        BY <2>6, <3>2, Labels DEF ActualProvenance, Sources
      <3> QED
        BY <2>1, <2>2, <3>3
    <2> QED
      BY <2>5, <2>6
  <1> QED
    BY <1>1, <1>2, <1>5, <1>6, <1>7

\* The model accepted from resources that are genuine and labelled is one publication under
\* its label, and the findings accepted with it are that publication's (useSystemModel).
LEMMA AcceptedIsOne ==
  ASSUME TypeOK, NEW log \in Logs, NEW res \in [Routes -> ResourceStates], Aligned(res),
         \A r \in Routes : /\ Genuine(res[r].data, log)
                           /\ res[r].provenance = BodyProvenance(res[r].data)
  PROVE  LET m == Accepted(res)
         IN  /\ m.snap = res["snapshot"].data /\ m.run = m.snap
             /\ m.provenance = BodyProvenance(m.snap)
             /\ m.overlay # Nothing =>
                  m.overlay = m.run /\ m.provenance = "live" /\ m.overlay.source = "docker"
  <1> DEFINE S == res["snapshot"]
             R == res["runtime"]
             F == res["findings"]
  <1>1. /\ Genuine(S.data, log) /\ Genuine(R.data, log) /\ Genuine(F.data, log)
        /\ S.provenance = BodyProvenance(S.data) /\ F.provenance = BodyProvenance(F.data)
    BY DEF Routes
  <1>2. S.data = R.data
    BY <1>1, RevisionIsBody DEF Aligned, SameModelRevision
  <1>3. ASSUME Attested(res, R.data)
        PROVE  F.data = R.data /\ S.provenance = "live" /\ F.data.source = "docker"
    <2>1. F.data = R.data
      BY <1>1, <1>3, RevisionIsBody DEF Attested, SameModelRevision
    <2>2. S.provenance = "live" /\ F.provenance = "live"
      BY <1>3 DEF Attested
    <2> QED
      BY <1>1, <2>1, <2>2, LiveIsDocker
  <1>4. Accepted(res) = [snap |-> S.data, run |-> R.data,
                         overlay |-> IF Attested(res, R.data) THEN F.data ELSE Nothing,
                         provenance |-> S.provenance]
    BY DEF Accepted
  <1> QED
    BY <1>1, <1>2, <1>3, <1>4

\* A settlement keeps the invariant, and a model it replaces is replaced by the answer of the
\* current attempt.
LEMMA SettleKeeps ==
  ASSUME TypeOK, TypeOK', PageInv, NEW q \in requests, Settle(q)
  PROVE  /\ PageInv'
         /\ shown'.snap # shown.snap => shown'.snap = q.answer /\ NoOlder(q.answer)
  <1>1. /\ daemon' = daemon /\ attempt' = attempt /\ requests' = requests \ {q}
        /\ shown' = Accepted(resource') /\ q.answer # Sent
        /\ resource' \in [Routes -> ResourceStates] /\ attempt \in Nat
    BY DEF Settle, daemonVars, effectVars, TypeOK
  <1>2. PICK log \in Logs : HoldsGenuine(log)
    BY DEF PageInv, OnePublicationLog
  <1>3. \A r \in Routes : /\ Genuine(resource'[r].data, log)
                          /\ resource'[r].provenance = BodyProvenance(resource'[r].data)
    <2> SUFFICES ASSUME NEW r \in Routes
                 PROVE  /\ Genuine(resource'[r].data, log)
                        /\ resource'[r].provenance = BodyProvenance(resource'[r].data)
      OBVIOUS
    <2>1. /\ Genuine(resource[r].data, log)
          /\ resource[r].provenance = BodyProvenance(resource[r].data)
      BY <1>2 DEF HoldsGenuine, PageInv, ResourcesLabelled
    <2>2. CASE r # q.route \/ q.answer = Failed
      BY <2>1, <2>2, SettledFields
    <2>3. CASE r = q.route /\ q.answer # Failed
      <3>1. Genuine(q.answer, log)
        BY <1>1, <1>2, <2>3 DEF HoldsGenuine
      <3> QED
        BY <2>3, <3>1, SettledFields
    <2> QED
      BY <2>2, <2>3
  <1>4. ASSUME Aligned(resource')
        PROVE  /\ shown'.snap = resource'["snapshot"].data
               /\ PairIsOnePublication' /\ OverlayBelongs'
    <2> DEFINE m == Accepted(resource')
    <2>1. /\ m.snap = resource'["snapshot"].data /\ m.run = m.snap
          /\ m.provenance = BodyProvenance(m.snap)
          /\ m.overlay # Nothing =>
               m.overlay = m.run /\ m.provenance = "live" /\ m.overlay.source = "docker"
      BY <1>1, <1>3, <1>4, AcceptedIsOne
    <2>2. shown' = m
      BY <1>1
    <2> HIDE DEF m
    <2> QED
      BY <2>1, <2>2 DEF PairIsOnePublication, OverlayBelongs, BodyProvenance
  <1>5. ASSUME ~Aligned(resource') PROVE shown' = shown
    BY <1>1, <1>5 DEF Accepted
  <1>6. ASSUME shown'.snap # shown.snap
        PROVE  /\ Aligned(resource') /\ q.route \in Pair /\ q.answer # Failed
               /\ shown'.snap = q.answer /\ NoOlder(q.answer)
               /\ \A r \in Pair : /\ resource'[r].generation = attempt
                                 /\ resource'[r].data = shown'.snap
    <2>1. Aligned(resource') /\ shown'.snap = resource'["snapshot"].data
      BY <1>4, <1>5, <1>6
    <2>2. resource'["runtime"].data = shown'.snap
      <3>1. Genuine(resource'["snapshot"].data, log) /\ Genuine(resource'["runtime"].data, log)
        BY <1>3 DEF Routes
      <3> QED
        BY <2>1, <3>1, RevisionIsBody DEF Aligned, SameModelRevision
    <2>3. q.route \in Pair /\ q.answer # Failed
      <3>1. SUFFICES ASSUME q.route \notin Pair \/ q.answer = Failed PROVE FALSE
        OBVIOUS
      <3>2. \A r \in Pair : /\ resource'[r].data = resource[r].data
                            /\ resource'[r].generation = resource[r].generation
                            /\ resource'[r].provenance = resource[r].provenance
        BY <3>1, SettledFields DEF Pair, Routes
      <3>3. Aligned(resource)
        BY <2>1, <3>2 DEF Aligned, Pair
      <3> QED
        BY <1>6, <2>1, <3>2, <3>3 DEF PageInv, ShownIsAligned, Pair
    <2>4. resource'[q.route].data = q.answer /\ resource'[q.route].generation = attempt
      BY <2>3, SettledFields
    <2>5. NoOlder(q.answer)
      BY <2>3 DEF PageInv, AttemptIsNewer
    <2> QED
      BY <2>1, <2>2, <2>3, <2>4, <2>5 DEF Pair, Aligned
  <1>7. OnePublicationLog'
    <2>1. log \in Logs' /\ \A b : Genuine(b, log)' <=> Genuine(b, log)
      BY <1>1 DEF Logs, Genuine
    <2>2. Genuine(shown'.snap, log)
      BY <1>2, <1>3, <1>4, <1>5 DEF HoldsGenuine, Routes
    <2>3. HoldsGenuine(log)'
      BY <1>1, <1>2, <1>3, <2>1, <2>2 DEF HoldsGenuine
    <2> QED
      BY <2>1, <2>3 DEF OnePublicationLog
  <1>8. AnswersFitRequests'
    BY <1>1 DEF PageInv, AnswersFitRequests
  <1>9. ResourcesLabelled'
    BY <1>3 DEF ResourcesLabelled, BodyProvenance
  <1>10. OneRequestEach'
    <2>1. \A p \in requests' : p \in requests /\ p.route \in Routes \ {q.route}
      BY <1>1 DEF PageInv, OneRequestEach, TypeOK, Requests
    <2>2. \A p \in requests' : resource'[p.route] = resource[p.route]
      BY <2>1, SettledFields
    <2>3. \A r \in Routes : resource'[r].generation <= attempt
      <3>1. \A r \in Routes : resource[r].generation <= attempt
        BY DEF PageInv, OneRequestEach
      <3> QED
        BY <1>1, <3>1, SettledFields
    <2> QED
      BY <1>1, <2>1, <2>2, <2>3 DEF PageInv, OneRequestEach
  <1>11. ShownIsAligned'
    BY <1>4 DEF ShownIsAligned
  <1>12. AttemptIsNewer'
    <2>1. CASE shown'.snap = shown.snap
      <3>1. \A b : NoOlder(b)' <=> NoOlder(b)
        BY <2>1 DEF NoOlder
      <3>2. \A r \in Pair : resource'[r].generation = attempt => NoOlder(resource'[r].data)
        <4> SUFFICES ASSUME NEW r \in Pair, resource'[r].generation = attempt
                     PROVE  NoOlder(resource'[r].data)
          OBVIOUS
        <4>1. r \in Routes
          BY DEF Pair, Routes
        <4>2. CASE r # q.route \/ q.answer = Failed
          BY <4>1, <4>2, SettledFields DEF PageInv, AttemptIsNewer
        <4>3. CASE r = q.route /\ q.answer # Failed
          BY <4>3, SettledFields DEF PageInv, AttemptIsNewer
        <4> QED
          BY <4>2, <4>3
      <3> QED
        BY <1>1, <3>1, <3>2 DEF PageInv, AttemptIsNewer
    <2>2. CASE shown'.snap # shown.snap
      <3>1. \A r \in Pair : NoOlder(resource[r].data)'
        <4>1. shown'.snap \in Bodies
          BY DEF TypeOK, ShownModels
        <4> QED
          BY <1>6, <2>2, <4>1 DEF NoOlder, Bodies
      <3>2. \A p \in requests' : p.route \notin Pair
        BY <1>1, <1>6, <1>10, <2>2 DEF OneRequestEach
      <3> QED
        BY <3>1, <3>2 DEF AttemptIsNewer
    <2> QED
      BY <2>1, <2>2
  <1>13. PairIsOnePublication' /\ OverlayBelongs'
    <2>1. CASE Aligned(resource')
      BY <1>4, <2>1
    <2>2. CASE ~Aligned(resource')
      BY <1>5, <2>2 DEF PageInv, PairIsOnePublication, OverlayBelongs, BodyProvenance
    <2> QED
      BY <2>1, <2>2
  <1> QED
    BY <1>6, <1>7, <1>8, <1>9, <1>10, <1>11, <1>12, <1>13 DEF PageInv

\* Every step keeps the page's invariant, and none shows an older publication.
LEMMA PageStep ==
  TypeOK /\ TypeOK' /\ PageInv /\ [Next]_vars =>
    /\ PageInv'
    /\ [shown'.snap.rev < shown.snap.rev => shown'.snap.rev < 1]_vars
  <1> SUFFICES ASSUME TypeOK, TypeOK', PageInv, [Next]_vars
               PROVE  /\ PageInv'
                      /\ shown'.snap.rev < shown.snap.rev => shown'.snap.rev < 1
    OBVIOUS
  <1> USE DEF daemonVars, streamVars, heartVars, effectVars, pageVars
  <1>1. shown.snap.rev \in Int /\ shown'.snap.rev \in Int
    BY DEF TypeOK, ShownModels, Bodies
  <1>2. ASSUME shown' = shown
        PROVE  shown'.snap.rev < shown.snap.rev => shown'.snap.rev < 1
    BY <1>1, <1>2
  <1>3. ASSUME NEW s \in {"docker", "mock"}, Publish(s) PROVE PageInv' /\ shown' = shown
    BY <1>3, PublishKeeps DEF Publish
  <1>4. CASE RunEffects
    BY <1>2, <1>4, EffectsKeep DEF RunEffects
  <1>5. ASSUME NEW q \in requests, Answer(q) \/ AnswerFault(q) PROVE PageInv' /\ shown' = shown
    <2>1. DaemonRead \in {Failed, NodeMock, daemon}
      BY DEF DaemonRead
    <2>2. \A a \in FaultyReads : a \in {Failed, NodeMock, daemon}
      BY DEF FaultyReads
    <2>3. PICK a \in {Failed, NodeMock, daemon} : Answered(q, a)
      BY <1>5, <2>1, <2>2 DEF Answer, AnswerFault
    <2> QED
      BY <2>3, AnswerKeeps DEF Answered
  <1>6. ASSUME NEW q \in requests, Settle(q)
        PROVE  /\ PageInv'
               /\ shown'.snap.rev < shown.snap.rev => shown'.snap.rev < 1
    <2>1. PageInv' /\ (shown'.snap # shown.snap => shown'.snap = q.answer /\ NoOlder(q.answer))
      BY <1>6, SettleKeeps
    <2> QED
      BY <1>1, <2>1 DEF NoOlder
  <1>7. ASSUME UNCHANGED <<daemon, attempt, requests, resource, shown>>
        PROVE  PageInv' /\ shown' = shown
    BY <1>7, ElsewhereKeeps
  <1>8. CASE Emit \/ EmitFault \/ Reconnect
    BY <1>2, <1>7, <1>8 DEF Emit, EmitFault, Emitted, Reconnect
  <1>9. CASE DeliverSnapshot \/ DeliverError \/ Drop \/ Refuse
    BY <1>2, <1>7, <1>9 DEF DeliverSnapshot, DeliverError, Drop, Refuse
  <1>10. CASE EnterDemo \/ LeaveDemo \/ DemoTick
    BY <1>2, <1>7, <1>10 DEF EnterDemo, LeaveDemo, DemoTick
  <1>11. CASE UNCHANGED vars
    BY <1>2, <1>7, <1>11 DEF vars
  <1> QED
    BY <1>2, <1>3, <1>4, <1>5, <1>6, <1>8, <1>9, <1>10, <1>11 DEF Next

\* The page's invariant holds throughout.
THEOREM PageInvariant == Spec => []PageInv
  <1>1. TypeOK /\ TypeOK' /\ PageInv /\ [Next]_vars => PageInv'
    BY PageStep
  <1> QED
    BY <1>1, PageInit, TypeCorrect, PTL DEF Spec

\* The model on the screen is one publication of the daemon, or one mock or demo payload, and
\* the provenance beside it names its source, whatever failed, fell back or arrived late.
THEOREM ShownIsOnePublication == Spec => []PairIsOnePublication
  <1>1. PageInv => PairIsOnePublication
    BY DEF PageInv
  <1> QED
    BY <1>1, PageInvariant, PTL

\* Findings on the Atlas, or returned beside the model, are live findings of exactly the
\* publication on the screen, also of a retained one (useSystemModel).
THEOREM FindingsAreOfTheModel == Spec => []FindingsBelongToModel
  <1>1. TypeOK /\ PageInv => FindingsBelongToModel
    <2> SUFFICES ASSUME TypeOK, PageInv PROVE FindingsBelongToModel
      OBVIOUS
    <2>1. PICK log \in Logs : HoldsGenuine(log)
      BY DEF PageInv, OnePublicationLog
    <2>2. ASSUME Findings # Nothing
          PROVE  Findings = shown.run /\ shown.provenance = "live" /\ Findings.source = "docker"
      <3> DEFINE F == resource["findings"]
      <3>1. Findings = F.data /\ Attested(resource, shown.run)
        BY <2>2 DEF Findings
      <3>2. Genuine(F.data, log) /\ F.provenance = BodyProvenance(F.data)
        BY <2>1 DEF HoldsGenuine, PageInv, ResourcesLabelled, Routes
      <3>3. shown.run = shown.snap /\ Genuine(shown.run, log)
            /\ shown.provenance = BodyProvenance(shown.run)
        BY <2>1 DEF HoldsGenuine, PageInv, PairIsOnePublication
      <3>4. F.provenance = "live" /\ F.data.rev = shown.run.rev
        BY <3>1 DEF Attested, SameModelRevision
      <3>5. F.data = shown.run
        BY <3>2, <3>3, <3>4, RevisionIsBody
      <3> QED
        BY <3>1, <3>2, <3>3, <3>4, <3>5, LiveIsDocker
    <2> QED
      BY <2>2 DEF FindingsBelongToModel, PageInv, OverlayBelongs
  <1> QED
    BY <1>1, PageInvariant, TypeCorrect, PTL

\* The page never goes back to an older publication of the daemon: late answers of an earlier
\* attempt are dropped, and those of the current one were read after the model was shown.
THEOREM NoOlderPublication == Spec => NoRollback
  <1>1. TypeOK /\ TypeOK' /\ PageInv /\ [Next]_vars =>
          [shown'.snap.rev < shown.snap.rev => shown'.snap.rev < 1]_vars
    BY PageStep
  <1> QED
    BY <1>1, PageInvariant, TypeCorrect, PTL DEF Spec, NoRollback

=============================================================================
