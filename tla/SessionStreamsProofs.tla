------------------------ MODULE SessionStreamsProofs ------------------------
(***************************************************************************)
(* The stream limits and the end of a session, for every number of         *)
(* streams, sessions and limits.                                           *)
(***************************************************************************)
EXTENDS SessionStreams, TLAPS, FiniteSetTheorems

\* The responses that unregisterSessionStream has not seen yet.
Registered == {r \in Streams : stream[r].registered}

StreamsTyped == stream \in [Streams -> StreamStates]

\* Two functions of responses that agree on who is registered for which session, the new one
\* without any more absent responses.
SameOwners(str, old) ==
  \A r \in Streams : /\ str[r].registered = old[r].registered
                     /\ str[r].session = old[r].session
                     /\ str[r].st = "absent" => old[r].st = "absent"

SameFrames(str, old) == \A r \in Streams : str[r].frames = old[r].frames

\* What an update of one field of one response leaves alone.
LEMMA StateUpdate ==
  ASSUME NEW str \in [Streams -> StreamStates], NEW r \in Streams,
         NEW v \in {"open", "ended", "gone"}
  PROVE  /\ [str EXCEPT ![r].st = v] \in [Streams -> StreamStates]
         /\ SameOwners([str EXCEPT ![r].st = v], str)
         /\ SameFrames([str EXCEPT ![r].st = v], str)
  <1> DEFINE x == [str[r] EXCEPT !.st = v]
             new == [str EXCEPT ![r] = x]
  <1>1. PICK y \in StreamStates : y = str[r]
    OBVIOUS
  <1>2. /\ [y EXCEPT !.st = v] \in StreamStates
        /\ [y EXCEPT !.st = v].registered = y.registered
        /\ [y EXCEPT !.st = v].session = y.session
        /\ [y EXCEPT !.st = v].st = "absent" => y.st = "absent"
        /\ [y EXCEPT !.st = v].frames = y.frames
    BY DEF StreamStates
  <1>3. /\ x \in StreamStates
        /\ x.registered = str[r].registered /\ x.session = str[r].session
        /\ x.st = "absent" => str[r].st = "absent"
        /\ x.frames = str[r].frames
    BY <1>1, <1>2, Zenon
  <1> HIDE DEF x
  <1>4. /\ new \in [Streams -> StreamStates] /\ new[r] = x
        /\ \A q \in Streams \ {r} : new[q] = str[q]
    BY <1>3
  <1>5. [str EXCEPT ![r].st = v] = new
    BY Zenon DEF x
  <1> HIDE DEF new
  <1> QED
    BY <1>3, <1>4, <1>5 DEF SameOwners, SameFrames

\* Changing where emit stands leaves owners and frames alone.
LEMMA EmitUpdate ==
  ASSUME NEW str \in [Streams -> StreamStates], NEW r \in Streams,
         NEW v \in {"idle", "await"}
  PROVE  /\ [str EXCEPT ![r].emit = v] \in [Streams -> StreamStates]
         /\ SameOwners([str EXCEPT ![r].emit = v], str)
         /\ SameFrames([str EXCEPT ![r].emit = v], str)
  <1> DEFINE x == [str[r] EXCEPT !.emit = v]
             new == [str EXCEPT ![r] = x]
  <1>1. PICK y \in StreamStates : y = str[r]
    OBVIOUS
  <1>2. /\ [y EXCEPT !.emit = v] \in StreamStates
        /\ [y EXCEPT !.emit = v].registered = y.registered
        /\ [y EXCEPT !.emit = v].session = y.session
        /\ [y EXCEPT !.emit = v].st = "absent" => y.st = "absent"
        /\ [y EXCEPT !.emit = v].frames = y.frames
    BY DEF StreamStates
  <1>3. /\ x \in StreamStates
        /\ x.registered = str[r].registered /\ x.session = str[r].session
        /\ x.st = "absent" => str[r].st = "absent"
        /\ x.frames = str[r].frames
    BY <1>1, <1>2, Zenon
  <1> HIDE DEF x
  <1>4. /\ new \in [Streams -> StreamStates] /\ new[r] = x
        /\ \A q \in Streams \ {r} : new[q] = str[q]
    BY <1>3
  <1>5. [str EXCEPT ![r].emit = v] = new
    BY Zenon DEF x
  <1> HIDE DEF new
  <1> QED
    BY <1>3, <1>4, <1>5 DEF SameOwners, SameFrames

\* Writing a frame to one stream leaves owners and the other streams alone.
LEMMA FramesUpdate ==
  ASSUME NEW str \in [Streams -> StreamStates], NEW r \in Streams,
         NEW v \in 0..1
  PROVE  /\ [str EXCEPT ![r].frames = v] \in [Streams -> StreamStates]
         /\ SameOwners([str EXCEPT ![r].frames = v], str)
         /\ \A q \in Streams \ {r} : [str EXCEPT ![r].frames = v][q] = str[q]
  <1> DEFINE x == [str[r] EXCEPT !.frames = v]
             new == [str EXCEPT ![r] = x]
  <1>1. PICK y \in StreamStates : y = str[r]
    OBVIOUS
  <1>2. /\ [y EXCEPT !.frames = v] \in StreamStates
        /\ [y EXCEPT !.frames = v].registered = y.registered
        /\ [y EXCEPT !.frames = v].session = y.session
        /\ [y EXCEPT !.frames = v].st = "absent" => y.st = "absent"
        /\ [y EXCEPT !.frames = v].frames = v
    BY DEF StreamStates
  <1>3. /\ x \in StreamStates
        /\ x.registered = str[r].registered /\ x.session = str[r].session
        /\ x.st = "absent" => str[r].st = "absent"
        /\ x.frames = v
    BY <1>1, <1>2, Zenon
  <1> HIDE DEF x
  <1>4. /\ new \in [Streams -> StreamStates] /\ new[r] = x
        /\ \A q \in Streams \ {r} : new[q] = str[q]
    BY <1>3
  <1>5. [str EXCEPT ![r].frames = v] = new
    BY Zenon DEF x
  <1> HIDE DEF new
  <1> QED
    BY <1>3, <1>4, <1>5 DEF SameOwners, SameFrames

\* closeSessionStreams ends responses; their registration goes with the close event.
LEMMA EndedKeepsRegistration ==
  ASSUME NEW str \in [Streams -> StreamStates], NEW gone
  PROVE  /\ EndedStreams(str, gone) \in [Streams -> StreamStates]
         /\ SameOwners(EndedStreams(str, gone), str)
         /\ SameFrames(EndedStreams(str, gone), str)
  <1>1. ASSUME NEW y \in StreamStates
        PROVE  /\ [y EXCEPT !.st = "ended"] \in StreamStates
               /\ [y EXCEPT !.st = "ended"].registered = y.registered
               /\ [y EXCEPT !.st = "ended"].session = y.session
               /\ [y EXCEPT !.st = "ended"].st = "ended"
               /\ [y EXCEPT !.st = "ended"].frames = y.frames
    BY <1>1 DEF StreamStates
  <1> QED
    BY <1>1 DEF EndedStreams, SameOwners, SameFrames

\* The first half of emit, by its two ways out.
LEMMA EmitStartKeeps ==
  ASSUME StreamsTyped, NEW r \in Streams, EmitStart(r)
  PROVE  /\ stream' \in [Streams -> StreamStates]
         /\ SameOwners(stream', stream) /\ SameFrames(stream', stream)
  <1> DEFINE ended == EndedStreams(stream, ExpiredNow(stream[r].session))
  <1>1. stream \in [Streams -> StreamStates]
    BY DEF StreamsTyped
  <1>2. \/ stream' = [stream EXCEPT ![r].emit = "await"]
        \/ stream' = [ended EXCEPT ![r].st = "ended"]
    BY Zenon DEF EmitStart
  <1>3. /\ ended \in [Streams -> StreamStates]
        /\ SameOwners(ended, stream) /\ SameFrames(ended, stream)
    BY <1>1, EndedKeepsRegistration
  <1> HIDE DEF ended
  <1>4. CASE stream' = [stream EXCEPT ![r].emit = "await"]
    BY <1>1, <1>4, EmitUpdate
  <1>5. CASE stream' = [ended EXCEPT ![r].st = "ended"]
    <2>1. /\ stream' \in [Streams -> StreamStates]
          /\ SameOwners(stream', ended) /\ SameFrames(stream', ended)
      BY <1>3, <1>5, StateUpdate
    <2> QED
      BY <1>3, <2>1 DEF SameOwners, SameFrames
  <1> QED
    BY <1>2, <1>4, <1>5

\* A frame that is written belongs to a session that is valid.
FramesOfValid ==
  \A r \in Streams : stream'[r].frames # stream[r].frames =>
    stream[r].session = None \/ stream[r].session \in Valid

\* The second half of emit, by its three ways out.
LEMMA EmitLandsKeeps ==
  ASSUME StreamsTyped, NEW r \in Streams, NEW writes \in BOOLEAN, EmitLands(r, writes)
  PROVE  /\ stream' \in [Streams -> StreamStates]
         /\ SameOwners(stream', stream) /\ FramesOfValid
  <1> DEFINE s == stream[r].session
             idle == [stream EXCEPT ![r].emit = "idle"]
             ended == EndedStreams(idle, ExpiredNow(s))
             invalid == s # None /\ s \notin Live(sessions)
             v == IF writes THEN 1 - idle[r].frames ELSE idle[r].frames
  <1>1. stream \in [Streams -> StreamStates]
    BY DEF StreamsTyped
  <1>2. \/ stream' = idle
        \/ stream' = [ended EXCEPT ![r].st = "ended"]
        \/ ~invalid /\ stream' = [idle EXCEPT ![r].frames = v]
    BY Zenon DEF EmitLands
  <1>3. /\ idle \in [Streams -> StreamStates]
        /\ SameOwners(idle, stream) /\ SameFrames(idle, stream)
    BY <1>1, EmitUpdate
  <1>4. /\ ended \in [Streams -> StreamStates]
        /\ SameOwners(ended, idle) /\ SameFrames(ended, idle)
    BY <1>3, EndedKeepsRegistration
  <1>5. ~invalid => s = None \/ s \in Valid
    BY Zenon DEF Live, Valid
  <1> HIDE DEF idle, ended, invalid
  <1>6. CASE stream' = idle
    BY <1>3, <1>6 DEF SameFrames, FramesOfValid
  <1>7. CASE stream' = [ended EXCEPT ![r].st = "ended"]
    <2>1. /\ stream' \in [Streams -> StreamStates]
          /\ SameOwners(stream', ended) /\ SameFrames(stream', ended)
      BY <1>4, <1>7, StateUpdate
    <2> QED
      BY <1>3, <1>4, <2>1 DEF SameOwners, SameFrames, FramesOfValid
  <1>8. CASE ~invalid /\ stream' = [idle EXCEPT ![r].frames = v]
    <2>1. v \in 0..1
      <3>1. idle[r].frames \in 0..1
        BY <1>3 DEF StreamStates
      <3> QED
        BY <3>1
    <2> HIDE DEF v
    <2>2. /\ stream' \in [Streams -> StreamStates]
          /\ SameOwners(stream', idle)
          /\ \A q \in Streams \ {r} : stream'[q] = idle[q]
      BY <1>3, <1>8, <2>1, FramesUpdate
    <2>3. SameOwners(stream', stream)
      BY <1>3, <2>2 DEF SameOwners
    <2>4. FramesOfValid
      BY <1>3, <1>5, <1>8, <2>2 DEF SameFrames, FramesOfValid
    <2> QED
      BY <2>2, <2>3, <2>4
  <1> QED
    BY <1>2, <1>6, <1>7, <1>8

\* Every step but the opening, the close and the forgetting of a response keeps who is registered
\* and writes frames only for sessions that are valid.
LEMMA OtherSteps ==
  ASSUME StreamsTyped, [Next]_vars
  PROVE  \/ \E r \in Streams : Closed(r) \/ Forgotten(r) \/ \E s \in Ids \cup {None} : Open(r, s)
         \/ /\ stream' \in [Streams -> StreamStates]
            /\ SameOwners(stream', stream) /\ FramesOfValid /\ count' = count
  <1>1. stream \in [Streams -> StreamStates]
    BY DEF StreamsTyped
  <1> DEFINE Quiet == /\ stream' \in [Streams -> StreamStates]
                      /\ SameOwners(stream', stream) /\ FramesOfValid /\ count' = count
  <1>2. ASSUME NEW gone, stream' = EndedStreams(stream, gone), count' = count
        PROVE  Quiet
    <2>1. /\ stream' \in [Streams -> StreamStates]
          /\ SameOwners(stream', stream) /\ SameFrames(stream', stream)
      BY <1>1, <1>2, EndedKeepsRegistration
    <2> QED
      BY <1>2, <2>1 DEF SameFrames, FramesOfValid
  <1>3. ASSUME stream' = stream, count' = count
        PROVE  Quiet
    BY <1>1, <1>3 DEF SameOwners, FramesOfValid
  <1>4. ASSUME Login
        PROVE  Quiet
    BY <1>2, <1>4 DEF Login
  <1>5. ASSUME NEW s \in Ids \cup {None}, Logout(s)
        PROVE  Quiet
    BY <1>2, <1>5 DEF Logout, Revoked
  <1>6. ASSUME Tick \/ UNCHANGED vars
        PROVE  Quiet
    BY <1>3, <1>6 DEF Tick, vars
  <1>7. ASSUME NEW r \in Streams, EmitStart(r)
        PROVE  Quiet
    <2>1. /\ stream' \in [Streams -> StreamStates]
          /\ SameOwners(stream', stream) /\ SameFrames(stream', stream)
      BY <1>7, EmitStartKeeps
    <2> QED
      BY <1>7, <2>1 DEF EmitStart, SameFrames, FramesOfValid
  <1>8. ASSUME NEW r \in Streams, NEW writes \in BOOLEAN, EmitLands(r, writes)
        PROVE  Quiet
    <2>1. count' = count
      BY <1>8 DEF EmitLands
    <2> QED
      BY <1>8, <2>1, EmitLandsKeeps
  <1>9. ASSUME NEW r \in Streams, ClientLeaves(r)
        PROVE  Quiet
    <2>1. stream' = [stream EXCEPT ![r].st = "gone"] /\ count' = count
      BY <1>9 DEF ClientLeaves
    <2>2. /\ stream' \in [Streams -> StreamStates]
          /\ SameOwners(stream', stream) /\ SameFrames(stream', stream)
      BY <1>1, <2>1, StateUpdate
    <2> QED
      BY <2>1, <2>2 DEF SameFrames, FramesOfValid
  <1> HIDE DEF Quiet
  <1>10. \/ \E r \in Streams : Closed(r) \/ Forgotten(r) \/ \E s \in Ids \cup {None} : Open(r, s)
         \/ Quiet
    BY <1>4, <1>5, <1>6, <1>7, <1>8, <1>9 DEF Next
  <1> QED
    BY <1>10 DEF Quiet

\* registerSessionStream, by what it does to the set of registered responses.
LEMMA OpenRegisters ==
  ASSUME StreamsTyped, NEW r \in Streams, NEW s \in Ids \cup {None}, Open(r, s)
  PROVE  /\ stream' \in [Streams -> StreamStates]
         /\ Registered' = Registered \cup {r} /\ stream'[r].st = "open"
         /\ \A t \in Ids : OfSession(t)' \subseteq OfSession(t) \cup {r}
         /\ \A t \in Ids \ {s} : OfSession(t)' \subseteq OfSession(t)
         /\ \A q \in Streams \ {r} : stream'[q] = stream[q]
  <1> DEFINE new == [st |-> "open", session |-> s, registered |-> TRUE, emit |-> "await",
                     frames |-> 0]
  <1>1. stream \in [Streams -> StreamStates] /\ stream' = [stream EXCEPT ![r] = new]
    BY DEF StreamsTyped, Open
  <1>2. new \in StreamStates /\ new.registered /\ new.session = s /\ new.st = "open"
    BY DEF StreamStates
  <1> HIDE DEF new
  <1>3. /\ stream' \in [Streams -> StreamStates] /\ stream'[r] = new
        /\ \A q \in Streams \ {r} : stream'[q] = stream[q]
    BY <1>1, <1>2
  <1> QED
    BY <1>2, <1>3 DEF Registered, OfSession

\* unregisterSessionStream, and the end of a response that is no longer registered.
LEMMA CloseUnregisters ==
  ASSUME StreamsTyped, NEW r \in Streams, Closed(r)
  PROVE  /\ stream' \in [Streams -> StreamStates]
         /\ r \in Registered /\ Registered' = Registered \ {r}
         /\ \A t \in Ids : OfSession(t)' \subseteq OfSession(t)
         /\ SameFrames(stream', stream)
         /\ stream'[r].st = "ended" /\ \A q \in Streams \ {r} : stream'[q] = stream[q]
  <1>1. stream \in [Streams -> StreamStates]
    BY DEF StreamsTyped
  <1>2. PICK y \in StreamStates : y = stream[r] /\ y.registered
    BY <1>1 DEF Closed
  <1> DEFINE new == [[y EXCEPT !.registered = FALSE] EXCEPT !.st = "ended"]
  <1>3. stream' = [stream EXCEPT ![r] = new]
    BY <1>1, <1>2 DEF Closed
  <1>4. new \in StreamStates /\ ~new.registered /\ new.frames = y.frames /\ new.st = "ended"
    BY <1>2 DEF StreamStates
  <1> HIDE DEF new
  <1>5. /\ stream' \in [Streams -> StreamStates] /\ stream'[r] = new
        /\ \A q \in Streams \ {r} : stream'[q] = stream[q]
    BY <1>1, <1>3, <1>4
  <1> QED
    BY <1>2, <1>4, <1>5 DEF Registered, OfSession, SameFrames

\* A response that is forgotten was no longer registered.
LEMMA ForgetKeeps ==
  ASSUME StreamsTyped, NEW r \in Streams, Forgotten(r)
  PROVE  /\ stream' \in [Streams -> StreamStates]
         /\ Registered' = Registered
         /\ \A t \in Ids : OfSession(t)' = OfSession(t)
         /\ ~stream'[r].registered
         /\ stream'[r].st = "absent" /\ \A q \in Streams \ {r} : stream'[q] = stream[q]
  <1>1. stream \in [Streams -> StreamStates] /\ stream' = [stream EXCEPT ![r] = Absent]
    BY DEF StreamsTyped, Forgotten
  <1>2. Absent \in StreamStates /\ ~Absent.registered /\ Absent.st = "absent"
    BY DEF Absent, StreamStates
  <1>3. /\ stream' \in [Streams -> StreamStates] /\ stream'[r] = Absent
        /\ \A q \in Streams \ {r} : stream'[q] = stream[q]
    BY <1>1, <1>2
  <1>4. ~stream[r].registered
    BY DEF Forgotten
  <1> QED
    BY <1>2, <1>3, <1>4 DEF Registered, OfSession

-----------------------------------------------------------------------------
(* The limits *)

\* Only a response that exists is registered.
AbsentUnregistered == \A r \in Streams : stream[r].st = "absent" => ~stream[r].registered

\* The count is that of a finite set of registered responses.
LimitsInv ==
  /\ StreamsTyped
  /\ AbsentUnregistered
  /\ IsFiniteSet(Registered)
  /\ CountAgrees

\* Every step keeps the count.
LEMMA LimitsStep ==
  ASSUME LimitsInv, [Next]_vars
  PROVE  LimitsInv'
  <1>1. /\ StreamsTyped /\ AbsentUnregistered /\ IsFiniteSet(Registered)
        /\ count = Cardinality(Registered) /\ count \in Nat /\ count <= MaxStreams
        /\ \A t \in Ids : Cardinality(OfSession(t)) <= MaxPerSession
    BY FS_CardinalityType DEF LimitsInv, CountAgrees, Registered
  <1>2. MaxStreams \in Nat /\ MaxPerSession \in Nat
    BY BoundAssumption
  <1>3. \A t \in Ids : OfSession(t) \subseteq Registered /\ IsFiniteSet(OfSession(t))
                      /\ Cardinality(OfSession(t)) \in Nat
    <2>1. \A t \in Ids : OfSession(t) \subseteq Registered
      BY DEF OfSession, Registered
    <2> QED
      BY <1>1, <2>1, FS_Subset, FS_CardinalityType
  <1>4. ASSUME stream' \in [Streams -> StreamStates], AbsentUnregistered', IsFiniteSet(Registered'),
               count' = Cardinality(Registered'), count' <= MaxStreams,
               \A t \in Ids : Cardinality(OfSession(t)') <= MaxPerSession
        PROVE  LimitsInv'
    BY <1>4 DEF LimitsInv, StreamsTyped, CountAgrees, Registered
  <1>5. ASSUME NEW t \in Ids, OfSession(t)' \subseteq OfSession(t)
        PROVE  Cardinality(OfSession(t)') <= MaxPerSession
    <2>1. Cardinality(OfSession(t)') <= Cardinality(OfSession(t)) /\ IsFiniteSet(OfSession(t)')
      BY <1>3, <1>5, FS_Subset
    <2> QED
      BY <1>1, <1>2, <1>3, <2>1, FS_CardinalityType
  <1>6. ASSUME NEW r \in Streams, NEW s \in Ids \cup {None}, Open(r, s)
        PROVE  LimitsInv'
    <2>1. /\ count < MaxStreams /\ count' = count + 1 /\ r \notin Registered
          /\ s # None => Cardinality(OfSession(s)) < MaxPerSession
      <3>1. r \notin Registered
        BY <1>1, <1>6 DEF AbsentUnregistered, Open, Registered
      <3>2. ~(count >= MaxStreams) /\ (s # None => ~(Cardinality(OfSession(s)) >= MaxPerSession))
        BY <1>6 DEF Open, Refused
      <3>3. s # None => s \in Ids
        OBVIOUS
      <3> QED
        BY <1>1, <1>2, <1>3, <1>6, <3>1, <3>2, <3>3 DEF Open
    <2>2. IsFiniteSet(Registered') /\ Cardinality(Registered') = count + 1
      BY <1>1, <1>6, <2>1, OpenRegisters, FS_AddElement
    <2>3. ASSUME NEW t \in Ids
          PROVE  Cardinality(OfSession(t)') <= MaxPerSession
      <3>1. CASE t # s
        BY <1>1, <1>5, <1>6, <3>1, OpenRegisters
      <3>2. CASE t = s
        <4>1. /\ IsFiniteSet(OfSession(t) \cup {r})
              /\ Cardinality(OfSession(t) \cup {r}) <= Cardinality(OfSession(t)) + 1
          BY <1>3, FS_AddElement
        <4>2. Cardinality(OfSession(t)') <= Cardinality(OfSession(t) \cup {r})
          BY <1>1, <1>6, <4>1, OpenRegisters, FS_Subset
        <4>3. IsFiniteSet(OfSession(t)')
          BY <1>1, <1>6, <4>1, OpenRegisters, FS_Subset
        <4>4. t # None
          BY BoundAssumption DEF Ids, None
        <4> QED
          BY <1>2, <1>3, <2>1, <3>2, <4>1, <4>2, <4>3, <4>4, FS_CardinalityType
      <3> QED
        BY <3>1, <3>2
    <2>4. AbsentUnregistered'
      BY <1>1, <1>6, OpenRegisters DEF AbsentUnregistered
    <2> QED
      BY <1>1, <1>2, <1>4, <1>6, <2>1, <2>2, <2>3, <2>4, OpenRegisters
  <1>7. ASSUME NEW r \in Streams, Closed(r)
        PROVE  LimitsInv'
    <2>1. count' = count - 1
      BY <1>7 DEF Closed
    <2>2. IsFiniteSet(Registered') /\ Cardinality(Registered') = count - 1
      BY <1>1, <1>7, CloseUnregisters, FS_RemoveElement
    <2>3. \A t \in Ids : Cardinality(OfSession(t)') <= MaxPerSession
      BY <1>1, <1>5, <1>7, CloseUnregisters
    <2>4. AbsentUnregistered'
      BY <1>1, <1>7, CloseUnregisters DEF AbsentUnregistered
    <2> QED
      BY <1>1, <1>2, <1>4, <1>7, <2>1, <2>2, <2>3, <2>4, CloseUnregisters
  <1>8. ASSUME NEW r \in Streams, Forgotten(r)
        PROVE  LimitsInv'
    <2>1. count' = count
      BY <1>8 DEF Forgotten
    <2>2. AbsentUnregistered'
      BY <1>1, <1>8, ForgetKeeps DEF AbsentUnregistered
    <2> QED
      BY <1>1, <1>4, <1>8, <2>1, <2>2, ForgetKeeps
  <1>9. ASSUME stream' \in [Streams -> StreamStates], SameOwners(stream', stream), count' = count
        PROVE  LimitsInv'
    <2>1. Registered' = Registered /\ \A t \in Ids : OfSession(t)' = OfSession(t)
      BY <1>9 DEF Registered, OfSession, SameOwners
    <2>2. AbsentUnregistered'
      BY <1>1, <1>9 DEF AbsentUnregistered, SameOwners
    <2> QED
      BY <1>1, <1>4, <1>9, <2>1, <2>2
  <1> QED
    BY <1>1, <1>6, <1>7, <1>8, <1>9, OtherSteps

\* The count the limits are tested against is that of the registered streams, and neither limit
\* is exceeded (registerSessionStream, unregisterSessionStream).
THEOREM LimitsHold == Spec => []CountAgrees
  <1>1. Init => LimitsInv
    <2> SUFFICES ASSUME Init PROVE LimitsInv
      OBVIOUS
    <2>1. Absent \in StreamStates /\ ~Absent.registered
      BY DEF Absent, StreamStates
    <2>2. StreamsTyped /\ AbsentUnregistered
      BY <2>1 DEF Init, StreamsTyped, AbsentUnregistered
    <2>3. Registered = {} /\ \A t \in Ids : OfSession(t) = {}
      BY <2>1 DEF Init, Registered, OfSession
    <2>4. Cardinality({}) = 0 /\ IsFiniteSet({})
      BY FS_EmptySet
    <2>5. MaxStreams >= 0 /\ MaxPerSession >= 0
      BY BoundAssumption
    <2>6. count = 0 /\ count = Cardinality(Registered)
      BY <2>3, <2>4 DEF Init
    <2>7. \A t \in Ids : Cardinality(OfSession(t)) = 0
      BY <2>3, <2>4
    <2>8. CountAgrees
      BY <2>5, <2>6, <2>7 DEF CountAgrees, Registered
    <2> QED
      BY <2>2, <2>3, <2>4, <2>8 DEF LimitsInv
  <1>2. LimitsInv /\ [Next]_vars => LimitsInv'
    BY LimitsStep
  <1>3. LimitsInv => CountAgrees
    BY DEF LimitsInv
  <1> QED
    BY <1>1, <1>2, <1>3, PTL DEF Spec

\* No frame is written to a stream whose session was revoked, evicted or has expired while emit
\* waited for the daemon (the second validSession of emit).
THEOREM RevocationStopsFrames == Spec => NoFrameAfterRevocation
  <1>1. StreamsTyped /\ [Next]_vars =>
          /\ StreamsTyped'
          /\ [\A r \in Streams :
                 (stream[r].st # "absent" /\ stream'[r].st # "absent"
                    /\ stream'[r].frames # stream[r].frames) =>
                   stream[r].session = None \/ stream[r].session \in Valid]_vars
    <2> DEFINE Step ==
          \A r \in Streams :
           (stream[r].st # "absent" /\ stream'[r].st # "absent"
              /\ stream'[r].frames # stream[r].frames) =>
             stream[r].session = None \/ stream[r].session \in Valid
    <2> SUFFICES ASSUME StreamsTyped, [Next]_vars
                 PROVE  StreamsTyped' /\ [Step]_vars
      OBVIOUS
    <2>1. ASSUME NEW r \in Streams, NEW s \in Ids \cup {None}, Open(r, s)
          PROVE  StreamsTyped' /\ Step
      <3>1. stream[r].st = "absent"
        BY <2>1 DEF Open
      <3> QED
        BY <2>1, <3>1, OpenRegisters DEF StreamsTyped
    <2>2. ASSUME NEW r \in Streams, Closed(r)
          PROVE  StreamsTyped' /\ Step
      BY <2>2, CloseUnregisters DEF StreamsTyped, SameFrames
    <2>3. ASSUME NEW r \in Streams, Forgotten(r)
          PROVE  StreamsTyped' /\ Step
      BY <2>3, ForgetKeeps DEF StreamsTyped
    <2>4. ASSUME stream' \in [Streams -> StreamStates], FramesOfValid
          PROVE  StreamsTyped' /\ Step
      BY <2>4 DEF StreamsTyped, FramesOfValid
    <2> QED
      BY <2>1, <2>2, <2>3, <2>4, OtherSteps
  <1>2. Init => StreamsTyped
    BY DEF Init, StreamsTyped, Absent, StreamStates
  <1> QED
    BY <1>1, <1>2, PTL DEF Spec, NoFrameAfterRevocation
=============================================================================
