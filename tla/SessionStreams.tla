--------------------------- MODULE SessionStreams ---------------------------
(***************************************************************************)
(* The Node API's cookie sessions and the event streams bound to them      *)
(* (apps/api/src/index.ts, bearer mode).                                   *)
(*                                                                         *)
(* The process is single-threaded: what runs without an await is one       *)
(* action, and the clock is read once in it.  A stream's emit awaits the   *)
(* daemon between its two halves; sessions may be issued, evicted, revoked *)
(* and expire, and clients may leave, in between.  Ending a response and   *)
(* the close event that unregisters it are separate turns.                 *)
(***************************************************************************)
EXTENDS Integers, FiniteSets, Sequences

CONSTANTS
  Streams,        \* responses a client may open
  MaxSessions,    \* maxSessions
  MaxStreams,     \* maxStreams
  MaxPerSession,  \* maxStreamsPerSession
  Ttl,            \* sessionTtlMs, in ticks
  MaxIssued       \* bound: sessions ever issued

ASSUME BoundAssumption ==
  {MaxSessions, MaxStreams, MaxPerSession, Ttl, MaxIssued} \subseteq Nat \ {0}

VARIABLES
  sessions,  \* the Map of sessions in insertion order: id and ticks left
  issued,    \* ids handed out so far: randomBytes never repeats
  stream,    \* the responses
  count      \* activeStreamCount

vars == <<sessions, issued, stream, count>>

Ids == 1..MaxIssued
None == 0  \* the empty cookieSession of a stream that came with a bearer header
StreamStates ==
  [st : {"absent", "open", "ended", "gone"},   \* gone: destroyed by its client
   session : Ids \cup {None}, registered : BOOLEAN,
   emit : {"idle", "await"}, frames : 0..1]    \* frames: data frames, modulo 2
Absent == [st |-> "absent", session |-> None, registered |-> FALSE,
           emit |-> "idle", frames |-> 0]

TypeOK ==
  /\ issued \in 0..MaxIssued
  /\ Len(sessions) <= MaxSessions
  /\ \A i \in DOMAIN sessions :
       sessions[i].id \in 1..issued /\ sessions[i].left \in 0..Ttl
  /\ stream \in [Streams -> StreamStates]
  /\ count \in Nat

Init ==
  /\ sessions = <<>> /\ issued = 0 /\ count = 0
  /\ stream = [r \in Streams |-> Absent]

-----------------------------------------------------------------------------
Known(ss) == {ss[i].id : i \in DOMAIN ss}

\* The sessions validSession accepts.
Live(ss) == {ss[i].id : i \in {j \in DOMAIN ss : ss[j].left > 0}}

Without(ss, gone) == SelectSeq(ss, LAMBDA e : e.id \notin gone)

\* closeSessionStreams
EndedStreams(str, gone) ==
  [r \in Streams |->
     IF str[r].registered /\ str[r].session \in gone /\ str[r].st = "open"
     THEN [str[r] EXCEPT !.st = "ended"] ELSE str[r]]

\* revokeSession for each session of a set
Revoked(gone) ==
  /\ sessions' = Without(sessions, gone)
  /\ stream' = EndedStreams(stream, gone)

\* The oldest sessions that issueSession revokes to make room.
Evicted(ss) ==
  IF Len(ss) < MaxSessions THEN {}
  ELSE {ss[i].id : i \in 1..(Len(ss) - MaxSessions + 1)}

\* issueSession: expired sessions are revoked, then the oldest, then one added.
Login ==
  /\ issued < MaxIssued
  /\ LET alive == Without(sessions, Known(sessions) \ Live(sessions))
         gone == (Known(sessions) \ Live(sessions)) \cup Evicted(alive)
     IN /\ sessions' = Append(Without(sessions, gone),
                              [id |-> issued + 1, left |-> Ttl])
        /\ stream' = EndedStreams(stream, gone)
  /\ issued' = issued + 1
  /\ UNCHANGED count

\* Logout revokes whatever its cookie names, the empty session included.
Logout(s) ==
  /\ Revoked({s})
  /\ UNCHANGED <<issued, count>>

Tick ==
  /\ \E i \in DOMAIN sessions : sessions[i].left > 0
  /\ sessions' = [i \in DOMAIN sessions |->
       [sessions[i] EXCEPT !.left = IF @ = 0 THEN 0 ELSE @ - 1]]
  /\ UNCHANGED <<issued, stream, count>>

\* validSession revokes a session it finds expired.
ExpiredNow(s) == {s} \cap (Known(sessions) \ Live(sessions))

OfSession(s) == {r \in Streams : stream[r].registered /\ stream[r].session = s}

\* A refused registration: the stream limit of the process or of the session.
Refused(s) ==
  \/ count >= MaxStreams
  \/ s # None /\ Cardinality(OfSession(s)) >= MaxPerSession

\* events-stream of an authenticated request, up to the first emit's await.
\* Its cookie names a live session, or it carries the bearer token.
Open(r, s) ==
  /\ stream[r].st = "absent"
  /\ s = None \/ s \in Live(sessions)
  /\ ~Refused(s)
  /\ stream' = [stream EXCEPT ![r] =
       [st |-> "open", session |-> s, registered |-> TRUE, emit |-> "await",
        frames |-> 0]]
  /\ count' = count + 1
  /\ UNCHANGED <<sessions, issued>>

\* Mutant: emit returns without ending the response.
EmitStartSilently(r) ==
  /\ stream[r].st = "open" /\ stream[r].emit = "idle"
  /\ stream[r].session \in Live(sessions) \cup {None}
  /\ stream' = [stream EXCEPT ![r].emit = "await"]
  /\ UNCHANGED <<sessions, issued, count>>

\* The timer's emit: nothing while one is under way or the response is over.
EmitStart(r) ==
  /\ stream[r].st = "open" /\ stream[r].emit = "idle"
  /\ LET s == stream[r].session IN
       IF s = None \/ s \in Live(sessions)
       THEN stream' = [stream EXCEPT ![r].emit = "await"] /\ UNCHANGED sessions
       ELSE /\ sessions' = Without(sessions, ExpiredNow(s))
            /\ stream' = [EndedStreams(stream, ExpiredNow(s)) EXCEPT ![r].st = "ended"]
  /\ UNCHANGED <<issued, count>>

\* Mutant: the session is not looked at again after the await.
EmitLandsUnchecked(r, writes) ==
  /\ stream[r].emit = "await"
  /\ stream' = [stream EXCEPT ![r].emit = "idle",
       ![r].frames = IF stream[r].st = "open" /\ writes THEN 1 - @ ELSE @]
  /\ UNCHANGED <<sessions, issued, count>>

\* The daemon's answer, or its failure, arrives: a frame is written unless the
\* response or its session is over, or (writes = FALSE) the revision is known.
EmitLands(r, writes) ==
  /\ stream[r].emit = "await"
  /\ LET s == stream[r].session
         over == stream[r].st # "open"
         invalid == s # None /\ s \notin Live(sessions)
         idle == [stream EXCEPT ![r].emit = "idle"]
     IN IF over THEN stream' = idle /\ UNCHANGED sessions
        ELSE IF invalid
        THEN /\ sessions' = Without(sessions, ExpiredNow(s))
             /\ stream' = [EndedStreams(idle, ExpiredNow(s)) EXCEPT ![r].st = "ended"]
        ELSE /\ stream' = [idle EXCEPT ![r].frames = IF writes THEN 1 - @ ELSE @]
             /\ UNCHANGED sessions
  /\ UNCHANGED <<issued, count>>

\* The client goes away.
ClientLeaves(r) ==
  /\ stream[r].st = "open"
  /\ stream' = [stream EXCEPT ![r].st = "gone"]
  /\ UNCHANGED <<sessions, issued, count>>

\* Mutant: a close event lowers the count whatever it finds registered.
ClosedEachTime(r) ==
  /\ stream[r].st \in {"ended", "gone"}
  /\ stream' = [stream EXCEPT ![r].registered = FALSE]
  /\ count' = IF count = 0 THEN 0 ELSE count - 1
  /\ UNCHANGED <<sessions, issued>>

\* The request's close event: unregisterSessionStream, timers cleared.
Closed(r) ==
  /\ stream[r].st \in {"ended", "gone"} /\ stream[r].registered
  /\ stream' = [stream EXCEPT ![r].registered = FALSE, ![r].st = "ended"]
  /\ count' = count - 1
  /\ UNCHANGED <<sessions, issued>>

\* A closed response whose emit has landed is forgotten; its client may return.
Forgotten(r) ==
  /\ stream[r].st \in {"ended", "gone"} /\ ~stream[r].registered
  /\ stream[r].emit = "idle"
  /\ stream' = [stream EXCEPT ![r] = Absent]
  /\ UNCHANGED <<sessions, issued, count>>

Next ==
  \/ Login \/ Tick
  \/ \E s \in Ids \cup {None} : Logout(s)
  \/ \E r \in Streams :
       \/ \E s \in Ids \cup {None} : Open(r, s)
       \/ EmitStart(r)
       \/ \E writes \in BOOLEAN : EmitLands(r, writes)
       \/ ClientLeaves(r) \/ Closed(r) \/ Forgotten(r)

\* Timers fire, fetchDaemon has a time limit, close events are delivered.
Fairness ==
  \A r \in Streams :
    /\ WF_vars(EmitStart(r))
    /\ WF_vars(\E writes \in BOOLEAN : EmitLands(r, writes))
    /\ WF_vars(Closed(r))

Spec == Init /\ [][Next]_vars
FairSpec == Spec /\ Fairness

-----------------------------------------------------------------------------
(* Properties *)

\* The sessions that are neither revoked nor past their time.
Valid == {sessions[i].id : i \in {j \in DOMAIN sessions : sessions[j].left > 0}}

\* No data frame is written to a stream whose session has been revoked, evicted
\* or has expired, though that may happen while emit awaits the daemon (the
\* second validSession in emit).
NoFrameAfterRevocation ==
  [][\A r \in Streams :
       (stream[r].st # "absent" /\ stream'[r].st # "absent"
          /\ stream'[r].frames # stream[r].frames) =>
         stream[r].session = None \/ stream[r].session \in Valid]_vars

\* The count the limits are tested against is that of the registered streams,
\* and neither limit is exceeded, whatever order responses end, clients leave
\* and close events arrive in (registerSessionStream, unregisterSessionStream).
CountAgrees ==
  /\ count = Cardinality({r \in Streams : stream[r].registered})
  /\ count <= MaxStreams
  /\ \A s \in Ids : Cardinality(OfSession(s)) <= MaxPerSession

\* A stream ends once its session is no longer valid, whether it was revoked,
\* evicted or merely expired (closeSessionStreams, emit).
SessionlessStreamsEnd ==
  \A r \in Streams :
    (stream[r].st = "open" /\ stream[r].session \notin Valid \cup {None})
      ~> stream[r].st # "open"
=============================================================================
