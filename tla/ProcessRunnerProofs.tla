------------------------- MODULE ProcessRunnerProofs -------------------------
(***************************************************************************)
(* What a call of run_command_with_timeout returns, and what it leaves     *)
(* behind, for every number of descendants, streams and every cap and pipe *)
(* size; and, in the second part, what the collectors that call it publish *)
(* of a host that changes between their reads, for every host.             *)
(***************************************************************************)
EXTENDS ProcessRunner, Providers, TLAPS, Sequences, FiniteSetTheorems, WellFoundedInduction

\* What is left to write and what was written are within the bound.
OutputBound == \A s \in Streams : left[s] + written[s] <= MaxOutput

TypeInv == TypeOK /\ OutputBound

\* The readers before and after the start of their threads.
LEMMA ReaderTypes == NoReader \in ReaderStates /\ NewReader \in ReaderStates
  <1>1. 0 \in 0..Cap
    BY SizeAssumption
  <1> QED
    BY <1>1, Zenon DEF NoReader, NewReader, ReaderStates

\* What one read of read_bounded does to its buffer.
LEMMA ReadChunkReader ==
  ASSUME TypeInv, NEW s \in Streams, ReadChunk(s)
  PROVE  /\ reader' \in [Streams -> ReaderStates]
         /\ \A t \in Streams \ {s} : reader'[t] = reader[t]
         /\ reader'[s].st = "reading"
         /\ reader'[s].kept = IF reader[s].kept < Cap THEN reader[s].kept + 1 ELSE Cap
         /\ reader'[s].truncated <=> reader[s].truncated \/ reader[s].kept = Cap
  <1> DEFINE cut == reader[s].truncated \/ reader[s].kept = Cap
             more == IF reader[s].kept < Cap THEN reader[s].kept + 1 ELSE Cap
             new == [st |-> "reading", kept |-> more, truncated |-> cut]
  <1>1. reader \in [Streams -> ReaderStates]
    BY DEF TypeInv, TypeOK
  <1>2. reader' = [reader EXCEPT ![s] = new]
    BY Zenon DEF ReadChunk
  <1>3. more \in 0..Cap
    BY <1>1, SizeAssumption DEF ReaderStates
  <1>4. cut \in BOOLEAN
    BY Zenon
  <1> HIDE DEF cut, more
  <1>5. new \in ReaderStates
    BY <1>3, <1>4, Zenon DEF ReaderStates
  <1>6. new.st = "reading" /\ new.kept = more /\ new.truncated = cut
    BY Zenon
  <1> HIDE DEF new
  <1>7. /\ reader' \in [Streams -> ReaderStates] /\ reader'[s] = new
        /\ \A t \in Streams \ {s} : reader'[t] = reader[t]
    BY <1>1, <1>2, <1>5
  <1>8. reader'[s].truncated = cut
    BY <1>6, <1>7, Zenon
  <1>9. reader'[s].truncated <=> reader[s].truncated \/ reader[s].kept = Cap
    BY <1>8, Zenon DEF cut
  <1> QED
    BY <1>6, <1>7, <1>9 DEF more

\* Every step of the operating system, the readers and the caller keeps the types.
LEMMA TypeStep ==
  ASSUME TypeInv, [Next]_vars
  PROVE  TypeInv'
  <1> USE SizeAssumption DEF TypeInv, TypeOK, OutputBound
  <1>1. CASE Expire
    BY <1>1 DEF Expire
  <1>2. ASSUME NEW p \in Processes, NEW q \in Processes, Fork(p, q)
        PROVE  TypeInv'
    BY <1>2 DEF Fork
  <1>3. ASSUME NEW p \in Processes, NEW s \in Streams, Write(p, s)
        PROVE  TypeInv'
    BY <1>3 DEF Write
  <1>4. ASSUME NEW p \in Processes, Exit(p)
        PROVE  TypeInv'
    BY <1>4 DEF Exit
  <1>5. ASSUME NEW s \in Streams, ReadChunk(s)
        PROVE  TypeInv'
    <2>1. reader' \in [Streams -> ReaderStates]
      BY <1>5, ReadChunkReader
    <2> QED
      BY <1>5, <2>1 DEF ReadChunk
  <1>6. ASSUME NEW s \in Streams, ReadEnd(s)
        PROVE  TypeInv'
    BY <1>6 DEF ReadEnd, ReaderStates
  <1>7. CASE SpawnFails
    BY <1>7 DEF SpawnFails, osVars, Results
  <1>8. CASE Spawn
    BY <1>8 DEF Spawn, Processes, Group
  <1>9. CASE StartedTooLate
    BY <1>9 DEF StartedTooLate, Terminate, Results
  <1>10. CASE StartReaders
    BY <1>10, ReaderTypes DEF StartReaders
  <1>11. CASE PollExited
    BY <1>11 DEF PollExited
  <1>12. CASE PollTimesOut
    BY <1>12 DEF PollTimesOut, Terminate
  <1>13. CASE PollFails
    BY <1>13 DEF PollFails, Terminate, Results
  <1>14. ASSUME NEW s \in Streams, Receive(s) \/ ReceiveTimesOut(s)
         PROVE  TypeInv'
    BY <1>14 DEF Receive, ReceiveTimesOut, Turn, Received, osVars
  <1>15. CASE Finish
    BY <1>15 DEF Finish, Terminate, Verdict, Results
  <1>16. CASE UNCHANGED vars
    BY <1>16 DEF vars
  <1> QED
    BY <1>1, <1>2, <1>3, <1>4, <1>5, <1>6, <1>7, <1>8, <1>9, <1>10, <1>11, <1>12,
       <1>13, <1>14, <1>15, <1>16 DEF Next, Caller, Rest

\* Nothing has been spawned at first.
LEMMA TypeInit == Init => TypeInv
  <1> SUFFICES ASSUME Init PROVE TypeInv
    OBVIOUS
  <1>1. TypeOK
    <2>1. reader \in [Streams -> ReaderStates]
      BY ReaderTypes DEF Init
    <2>2. written \in [Streams -> 0..MaxOutput] /\ pipe \in [Streams -> 0..PipeSize]
      BY SizeAssumption DEF Init
    <2> QED
      BY <2>1, <2>2 DEF Init, TypeOK, Results
  <1>2. OutputBound
    BY SizeAssumption DEF Init, OutputBound
  <1> QED
    BY <1>1, <1>2 DEF TypeInv

\* Buffers, counts and states stay within their types for every bound.
THEOREM TypeCorrect == Spec => []TypeOK
  <1>1. Init => TypeInv
    BY TypeInit
  <1>2. TypeInv /\ [Next]_vars => TypeInv'
    BY TypeStep
  <1>3. TypeInv => TypeOK
    BY DEF TypeInv
  <1> QED
    BY <1>1, <1>2, <1>3, PTL DEF Spec

-----------------------------------------------------------------------------
(* The output *)

\* A reader has taken from its pipe what is no longer in it: the first Cap chunks are kept,
\* and one more marks the read as cut.
Accounted(s) ==
  LET taken == written[s] - pipe[s]
  IN  /\ taken >= 0
      /\ reader[s].kept = (IF taken < Cap THEN taken ELSE Cap)
      /\ reader[s].truncated <=> taken > Cap

\* A reader that reported has seen the end of its stream for good.
Drained(s) == reader[s].st = "sent" => Holders(s) = {} /\ pipe[s] = 0

\* A received read was reported, and no reader runs before the readers are started.
Delivered(s) ==
  /\ rx[s] = "got" => reader[s].st = "sent"
  /\ pc \in {"spawn", "started"} => reader[s] = NoReader
  /\ pc # "done" => result = "none"
  /\ result = "ok" => rx[s] = "got"

OutputInv == \A s \in Streams : Accounted(s) /\ Drained(s) /\ Delivered(s)

\* The count of a pipe, its reader and what was written: every step keeps it.
LEMMA AccountedStep ==
  ASSUME TypeInv, OutputInv, [Next]_vars, NEW s \in Streams
  PROVE  Accounted(s)'
  <1>1. Accounted(s) /\ Delivered(s)
    BY DEF OutputInv
  <1>2. /\ written[s] \in Nat /\ pipe[s] \in Nat
        /\ reader[s].kept \in 0..Cap
        /\ reader \in [Streams -> ReaderStates]
        /\ pipe \in [Streams -> 0..PipeSize] /\ written \in [Streams -> 0..MaxOutput]
    BY SizeAssumption DEF TypeInv, TypeOK, ReaderStates
  <1>3. ASSUME UNCHANGED <<written, pipe, reader>>
        PROVE  Accounted(s)'
    BY <1>1, <1>3 DEF Accounted
  <1>4. ASSUME NEW p \in Processes, NEW t \in Streams, Write(p, t)
        PROVE  Accounted(s)'
    <2>1. /\ reader'[s] = reader[s]
          /\ written'[s] - pipe'[s] = written[s] - pipe[s]
      BY <1>2, <1>4 DEF Write
    <2> QED
      BY <1>1, <2>1 DEF Accounted
  <1>5. ASSUME NEW t \in Streams, ReadChunk(t)
        PROVE  Accounted(s)'
    <2>1. CASE s # t
      <3>1. reader'[s] = reader[s] /\ pipe'[s] = pipe[s] /\ written'[s] = written[s]
        BY <1>2, <1>5, <2>1, ReadChunkReader DEF ReadChunk
      <3> QED
        BY <1>1, <3>1 DEF Accounted
    <2>2. CASE s = t
      <3> DEFINE taken == written[s] - pipe[s]
      <3>1. pipe[s] > 0 /\ pipe'[s] = pipe[s] - 1 /\ written'[s] = written[s]
        BY <1>2, <1>5, <2>2 DEF ReadChunk
      <3>2. /\ reader'[s].kept = IF reader[s].kept < Cap THEN reader[s].kept + 1 ELSE Cap
            /\ reader'[s].truncated <=> reader[s].truncated \/ reader[s].kept = Cap
        BY <1>5, <2>2, ReadChunkReader
      <3>3. /\ taken \in Nat
            /\ reader[s].kept = (IF taken < Cap THEN taken ELSE Cap)
            /\ reader[s].truncated <=> taken > Cap
        BY <1>1, <1>2 DEF Accounted
      <3>4. written'[s] - pipe'[s] = taken + 1
        BY <1>2, <3>1
      <3> HIDE DEF taken
      <3>5. reader'[s].kept = (IF taken + 1 < Cap THEN taken + 1 ELSE Cap)
        BY <3>2, <3>3, SizeAssumption
      <3>6. taken > Cap \/ reader[s].kept = Cap <=> taken + 1 > Cap
        BY <3>3, SizeAssumption
      <3>7. reader'[s].truncated <=> taken + 1 > Cap
        BY <3>2, <3>3, <3>6, Zenon
      <3> QED
        BY <3>3, <3>4, <3>5, <3>7 DEF Accounted
    <2> QED
      BY <2>1, <2>2
  <1>6. ASSUME NEW t \in Streams, ReadEnd(t)
        PROVE  Accounted(s)'
    <2>1. /\ reader'[s].kept = reader[s].kept /\ reader'[s].truncated = reader[s].truncated
          /\ pipe'[s] = pipe[s] /\ written'[s] = written[s]
      BY <1>2, <1>6 DEF ReadEnd, ReaderStates
    <2> QED
      BY <1>1, <2>1 DEF Accounted
  <1>7. CASE StartReaders
    <2>1. reader[s] = NoReader /\ reader'[s] = NewReader
      BY <1>1, <1>7 DEF StartReaders, Delivered
    <2>2. NewReader.kept = NoReader.kept /\ NewReader.truncated = NoReader.truncated
      BY Zenon DEF NoReader, NewReader
    <2>3. reader'[s].kept = reader[s].kept /\ reader'[s].truncated = reader[s].truncated
      BY <2>1, <2>2, Zenon
    <2>4. pipe'[s] = pipe[s] /\ written'[s] = written[s]
      BY <1>7 DEF StartReaders
    <2> QED
      BY <1>1, <2>3, <2>4 DEF Accounted
  <1> QED
    BY <1>3, <1>4, <1>5, <1>6, <1>7
    DEF Next, Caller, Rest, vars, osVars, Expire, Fork, Exit, SpawnFails, Spawn, StartedTooLate,
        PollExited, PollTimesOut, PollFails, Receive, ReceiveTimesOut, Received, Finish

\* Once a reader has reported, nobody can come to hold its pipe.
LEMMA DrainedStep ==
  ASSUME TypeInv, OutputInv, [Next]_vars, NEW s \in Streams
  PROVE  Drained(s)'
  <1>1. Drained(s) /\ Delivered(s)
    BY DEF OutputInv
  <1>2. /\ reader \in [Streams -> ReaderStates]
        /\ holds \in [Processes -> SUBSET Streams] /\ alive \subseteq Processes
        /\ pipe \in [Streams -> 0..PipeSize]
    BY DEF TypeInv, TypeOK
  <1>3. ASSUME UNCHANGED <<reader, pipe, holds>>, alive' \subseteq alive
        PROVE  Drained(s)'
    BY <1>1, <1>3 DEF Drained, Holders
  <1>4. ASSUME NEW p \in Processes, NEW q \in Processes, Fork(p, q)
        PROVE  Drained(s)'
    <2>1. PICK kept \in SUBSET holds[p] : holds' = [holds EXCEPT ![q] = kept]
      BY <1>4 DEF Fork
    <2>2. Holders(s) = {} => s \notin kept
      BY <1>4, <2>1 DEF Fork, Holders
    <2>3. Holders(s) = {} => Holders(s)' = {}
      BY <1>2, <1>4, <2>1, <2>2 DEF Fork, Holders
    <2> QED
      BY <1>1, <1>4, <2>3 DEF Fork, Drained
  <1>5. ASSUME NEW p \in Processes, NEW t \in Streams, Write(p, t)
        PROVE  Drained(s)'
    BY <1>1, <1>2, <1>5 DEF Write, Drained, Holders
  <1>6. ASSUME NEW t \in Streams, ReadChunk(t)
        PROVE  Drained(s)'
    <2>1. CASE s = t
      BY <1>6, <2>1, ReadChunkReader DEF Drained
    <2>2. CASE s # t
      <3>1. reader'[s] = reader[s]
        BY <1>6, <2>2, ReadChunkReader
      <3> QED
        BY <1>1, <1>2, <1>6, <2>2, <3>1 DEF ReadChunk, Drained, Holders
    <2> QED
      BY <2>1, <2>2
  <1>7. ASSUME NEW t \in Streams, ReadEnd(t)
        PROVE  Drained(s)'
    BY <1>1, <1>2, <1>7 DEF ReadEnd, Drained, Holders, ReaderStates
  <1>8. CASE StartReaders
    BY <1>8 DEF StartReaders, NewReader, Drained
  <1>9. CASE Spawn
    BY <1>1, <1>9 DEF Spawn, Delivered, Drained, NoReader
  <1> QED
    BY <1>3, <1>4, <1>5, <1>6, <1>7, <1>8, <1>9
    DEF Next, Caller, Rest, vars, osVars, Expire, Exit, SpawnFails, StartedTooLate, Terminate,
        PollExited, PollTimesOut, PollFails, Receive, ReceiveTimesOut, Received, Finish

\* Results and received reads belong to readers that reported.
LEMMA DeliveredStep ==
  ASSUME TypeInv, OutputInv, [Next]_vars, NEW s \in Streams
  PROVE  Delivered(s)'
  <1>1. \A t \in Streams : Delivered(t)
    BY DEF OutputInv
  <1>2. /\ reader \in [Streams -> ReaderStates]
        /\ rx \in [Streams -> {"none", "got", "missed"}]
    BY DEF TypeInv, TypeOK
  <1>3. ASSUME UNCHANGED <<pc, reader, rx, result>>
        PROVE  Delivered(s)'
    BY <1>1, <1>3 DEF Delivered
  <1>4. ASSUME NEW t \in Streams, ReadChunk(t)
        PROVE  Delivered(s)'
    <2>1. reader[t].st = "reading" /\ reader'[t].st = "reading"
      BY <1>4, ReadChunkReader DEF ReadChunk
    <2>2. s # t => reader'[s] = reader[s]
      BY <1>4, ReadChunkReader
    <2>3. pc \notin {"spawn", "started"}
      BY <1>1, <2>1 DEF Delivered, NoReader
    <2> QED
      BY <1>1, <1>4, <2>1, <2>2, <2>3 DEF Delivered, ReadChunk
  <1>5. ASSUME NEW t \in Streams, ReadEnd(t)
        PROVE  Delivered(s)'
    <2>1. pc \notin {"spawn", "started"}
      BY <1>1, <1>5 DEF Delivered, NoReader, ReadEnd
    <2> QED
      BY <1>1, <1>2, <1>5, <2>1 DEF Delivered, ReadEnd, ReaderStates
  <1>6. CASE SpawnFails \/ Spawn \/ StartedTooLate \/ PollExited \/ PollTimesOut \/ PollFails
    BY <1>1, <1>6 DEF Delivered, SpawnFails, Spawn, StartedTooLate, PollExited, PollTimesOut,
                      PollFails, osVars
  <1>7. CASE StartReaders
    BY <1>1, <1>7 DEF Delivered, StartReaders, NoReader
  <1>8. ASSUME NEW t \in Streams, Receive(t) \/ ReceiveTimesOut(t)
        PROVE  Delivered(s)'
    BY <1>1, <1>2, <1>8 DEF Delivered, Receive, ReceiveTimesOut, Received, Turn, osVars
  <1>9. CASE Finish
    BY <1>1, <1>9 DEF Delivered, Finish, Verdict, BothRead
  <1> QED
    BY <1>3, <1>4, <1>5, <1>6, <1>7, <1>8, <1>9
    DEF Next, Caller, Rest, vars, Expire, Fork, Write, Exit

\* What the readers have kept and what they have reported agree throughout.
LEMMA OutputInvariant == Spec => [](TypeInv /\ OutputInv)
  <1>1. Init => TypeInv /\ OutputInv
    <2> SUFFICES ASSUME Init, NEW s \in Streams
                 PROVE  Accounted(s) /\ Drained(s) /\ Delivered(s)
      BY TypeInit DEF OutputInv
    <2>1. written[s] = 0 /\ pipe[s] = 0 /\ reader[s] = NoReader /\ rx[s] = "none"
      BY DEF Init
    <2> QED
      BY <2>1, SizeAssumption DEF Init, Accounted, Drained, Delivered, NoReader
  <1>2. TypeInv /\ OutputInv /\ [Next]_vars => (TypeInv /\ OutputInv)'
    <2> SUFFICES ASSUME TypeInv, OutputInv, [Next]_vars
                 PROVE  TypeInv' /\ OutputInv'
      OBVIOUS
    <2>1. \A s \in Streams : Accounted(s)' /\ Drained(s)' /\ Delivered(s)'
      BY AccountedStep, DrainedStep, DeliveredStep
    <2> QED
      BY <2>1, TypeStep DEF OutputInv
  <1> QED
    BY <1>1, <1>2, PTL DEF Spec

\* A successful call returns everything that was written into both pipes, cut at the cap, and
\* says so exactly when it was cut (run_command_with_timeout, read_bounded).
THEOREM SuccessIsComplete == Spec => []OkIsComplete
  <1>1. TypeInv /\ OutputInv => OkIsComplete
    <2> SUFFICES ASSUME TypeInv, OutputInv, result = "ok", NEW s \in Streams
                 PROVE  /\ Holders(s) = {} /\ pipe[s] = 0
                        /\ reader[s].kept = (IF written[s] < Cap THEN written[s] ELSE Cap)
                        /\ reader[s].truncated <=> written[s] > Cap
      BY DEF OkIsComplete
    <2>1. Accounted(s) /\ Holders(s) = {} /\ pipe[s] = 0
      BY DEF OutputInv, Drained, Delivered
    <2>2. written[s] \in Nat
      BY SizeAssumption DEF TypeInv, TypeOK
    <2>3. written[s] - pipe[s] = written[s]
      BY <2>1, <2>2
    <2> QED
      BY <2>1, <2>3 DEF Accounted
  <1> QED
    BY <1>1, OutputInvariant, PTL

-----------------------------------------------------------------------------
(* The processes *)

\* Past the poll loop the child is gone and reaped.
ChildGone ==
  pc \in {"receive", "finish", "done"} /\ result # "spawn" => reaped /\ Child \notin alive

\* Without an exit status, and after every result but success, its group is gone too.
GroupGone ==
  \/ pc \in {"receive", "finish"} /\ status = "none"
  \/ pc = "done" /\ result \notin {"spawn", "ok"}
  => alive \cap Group = {}

\* The status is that of the poll loop, the result that of the end.
Phases ==
  /\ pc \in {"spawn", "started", "poll"} => status = "none"
  /\ pc # "done" => result = "none"

ProcessInv == ChildGone /\ GroupGone /\ Phases

\* Nobody outside the group starts a process in it, and nobody starts the child again.
LEMMA ForkStaysOutside ==
  ASSUME NEW p \in Processes, NEW q \in Processes, Fork(p, q)
  PROVE  /\ Child \notin alive => Child \notin alive'
         /\ alive \cap Group = {} => alive' \cap Group = {}
  BY ProcessAssumption DEF Fork, Group, Processes

\* Every step keeps the account of the processes: signals and exits only remove them.
LEMMA ProcessStep ==
  ASSUME TypeInv, ProcessInv, [Next]_vars
  PROVE  ProcessInv'
  <1> USE DEF ProcessInv, ChildGone, GroupGone, Phases
  <1>1. ASSUME UNCHANGED <<pc, reaped, status, result>>, alive' \subseteq alive
        PROVE  ProcessInv'
    BY <1>1
  <1>2. ASSUME NEW p \in Processes, NEW q \in Processes, Fork(p, q)
        PROVE  ProcessInv'
    BY <1>2, ForkStaysOutside DEF Fork
  <1>3. CASE SpawnFails \/ Spawn \/ StartReaders \/ PollExited
    BY <1>3 DEF SpawnFails, Spawn, StartReaders, PollExited, osVars
  <1>4. CASE StartedTooLate \/ PollTimesOut \/ PollFails
    BY <1>4 DEF StartedTooLate, PollTimesOut, PollFails, Terminate, Group
  <1>5. ASSUME NEW s \in Streams, Receive(s) \/ ReceiveTimesOut(s)
        PROVE  ProcessInv'
    BY <1>5 DEF Receive, ReceiveTimesOut, Received, Turn, osVars
  <1>6. CASE Finish
    <2>1. status \in {"none", "exited"}
      BY DEF TypeInv, TypeOK
    <2> QED
      BY <1>6, <2>1 DEF Finish, Terminate, Verdict, Group
  <1> QED
    BY <1>1, <1>2, <1>3, <1>4, <1>5, <1>6
    DEF Next, Caller, Rest, vars, Expire, Write, Exit, ReadChunk, ReadEnd

\* Whatever way the call returns, the child is reaped and, unless the command completed, no
\* process of its group runs on (terminate_provider_process_group on every other path).
THEOREM NothingIsLeftBehind == Spec => []NothingLeftBehind
  <1>1. Init => TypeInv /\ ProcessInv
    BY TypeInit DEF Init, ProcessInv, ChildGone, GroupGone, Phases
  <1>2. TypeInv /\ ProcessInv /\ [Next]_vars => (TypeInv /\ ProcessInv)'
    BY TypeStep, ProcessStep
  <1>3. ProcessInv => NothingLeftBehind
    BY DEF ProcessInv, ChildGone, GroupGone, NothingLeftBehind
  <1> QED
    BY <1>1, <1>2, <1>3, PTL DEF Spec

-----------------------------------------------------------------------------
(***************************************************************************)
(* The collectors (Providers), which have a state and constants of their   *)
(* own.                                                                    *)
(*                                                                         *)
(* HostInv follows a collection through its steps: what it holds between   *)
(* two of them (WorkerGood) was read from some state of the host in which  *)
(* it could be read, so what it ends with (ViewGood) is, too, although no  *)
(* state of the host may ever have held all of it.  Every step goes on     *)
(* with a good worker or ends with a good view (Outcome).                  *)
(***************************************************************************)
\* A collection that runs leaves the rest of the state alone.
Framed ==
  /\ env' = env /\ family' = family /\ served' = served /\ world' = world /\ changes' = changes
  /\ lived' = lived

\* What a step of a collection does to it.
LEMMA FinishDoes ==
  ASSUME NEW o, Conclude(o)
  PROVE  Framed /\ worker' = Idle /\ views' = [views EXCEPT ![worker.slot] = o]
  BY DEF Conclude, Framed

\* What a step that goes on does.
LEMMA ContinueDoes ==
  ASSUME NEW w, Continue(w)
  PROVE  Framed /\ worker' = w /\ views' = views
  BY DEF Continue, Framed

\* The steps of the collections.
Collection ==
  \/ RunPs \/ PsFails \/ AskOwner \/ ReadComm \/ PublishProcesses
  \/ ListUnits \/ ShowUnits \/ ShowNothing \/ SystemctlFails
  \/ ListSessions \/ ListSessionsTimesOut
  \/ CronStart \/ CronCheck \/ CronOpen \/ CronRead \/ ListCronD \/ UserCrontab
  \/ NpmStart \/ NpmVisit \/ NpmManifest \/ NpmFinish
  \/ HostScoped \/ Network

\* Either it goes on or it is finished.
Stepped == (\E o : Conclude(o)) \/ (\E w : Continue(w))

\* Every step of a collection goes on or ends it.
LEMMA CollectionSteps == Collection => Stepped
  <1>1. CASE RunPs \/ PsFails \/ AskOwner \/ ReadComm \/ PublishProcesses
    BY <1>1, Zenon DEF Stepped, RunPs, PsFails, AskOwner, ReadComm, PublishProcesses
  <1>2. CASE ListUnits \/ ShowUnits \/ ShowNothing \/ SystemctlFails
    BY <1>2, Zenon DEF Stepped, ListUnits, ShowUnits, ShowNothing, SystemctlFails, CommandFails
  <1>3. CASE ListSessions \/ ListSessionsTimesOut
    BY <1>3, Zenon DEF Stepped, ListSessions, ListSessionsTimesOut, CommandFails
  <1>4. CASE CronStart \/ CronCheck \/ ListCronD \/ UserCrontab
    BY <1>4, Zenon DEF Stepped, CronStart, CronCheck, CronNext, ListCronD, UserCrontab
  <1>5. CASE CronOpen
    BY <1>5, Zenon DEF Stepped, CronOpen, CronNext
  <1>6. CASE CronRead
    BY <1>6, Zenon DEF Stepped, CronRead, CronNext
  <1>7. CASE NpmStart \/ NpmFinish
    BY <1>7, Zenon DEF Stepped, NpmStart, NpmFinish
  <1>8. CASE NpmVisit
    BY <1>8, Zenon DEF Stepped, NpmVisit
  <1>9. CASE NpmManifest
    BY <1>9, Zenon DEF Stepped, NpmManifest
  <1>10. CASE HostScoped \/ Network
    BY <1>10, Zenon DEF Stepped, HostScoped, Network
  <1> QED
    BY <1>1, <1>2, <1>3, <1>4, <1>5, <1>6, <1>7, <1>8, <1>9, <1>10 DEF Collection

\* A step of a collection is one of the collection that runs.
LEMMA CollectionRuns == Collection => worker # Idle
  <1>1. worker = Idle => worker.slot = "none" /\ worker.step = "none"
    BY DEF Idle, None
  <1>2. \A slots, step : At(slots, step) => worker.slot \in slots
    BY DEF At
  <1>3. Collection => worker.slot # "none"
    <2>1. (RunPs \/ PsFails \/ AskOwner \/ ReadComm \/ PublishProcesses) => worker.slot # "none"
      BY <1>2 DEF RunPs, PsFails, AskOwner, ReadComm, PublishProcesses
    <2>2. (ListUnits \/ ShowUnits \/ ShowNothing \/ SystemctlFails \/ ListSessions \/ ListSessionsTimesOut)
            => worker.slot # "none"
      BY <1>2 DEF ListUnits, ShowUnits, ShowNothing, SystemctlFails, ListSessions, ListSessionsTimesOut
    <2>3. (CronStart \/ CronCheck \/ CronOpen \/ CronRead \/ ListCronD \/ UserCrontab) => worker.slot # "none"
      BY <1>2 DEF CronStart, CronCheck, CronOpen, CronRead, ListCronD, UserCrontab
    <2>4. (NpmStart \/ NpmVisit \/ NpmManifest \/ NpmFinish \/ HostScoped \/ Network) => worker.slot # "none"
      BY <1>2 DEF NpmStart, NpmVisit, NpmManifest, NpmFinish, HostScoped, Network
    <2> QED
      BY <2>1, <2>2, <2>3, <2>4 DEF Collection
  <1> QED
    BY <1>1, <1>3

\* A daemon that listens has passed validate_bind_host; what it served, it served with its token.
Served ==
  \E st, rq, co :
    /\ served = [status |-> st, request |-> rq, code |-> co]
    /\ st = "listening" => StartsUp
    /\ co = "ok" => StartsUp /\ Authorized(rq)

\* The tokens of the environment do not change.
LEMMA TokensStay ==
  ASSUME env' = env
  PROVE  /\ TokenEnv' = TokenEnv
         /\ StartsUp' <=> StartsUp
         /\ \A w : Authorized(w)' <=> Authorized(w)
  <1>1. TokenEnv' = TokenEnv
    BY DEF TokenEnv
  <1>2. BindHost' <=> BindHost
    BY <1>1 DEF BindHost, IsAddress, IsLoopback
  <1> QED
    BY <1>1, <1>2 DEF StartsUp, Authorized

\* A step of a collection leaves the daemon's listener alone.
LEMMA CollectionFrame ==
  ASSUME Collection
  PROVE  Framed
  BY CollectionSteps, FinishDoes, ContinueDoes, Zenon DEF Stepped

\* What was served stays so.
LEMMA ServedStays ==
  ASSUME Served, env' = env, served' = served
  PROVE  Served'
  <1>1. PICK st, rq, co :
          /\ served = [status |-> st, request |-> rq, code |-> co]
          /\ st = "listening" => StartsUp
          /\ co = "ok" => StartsUp /\ Authorized(rq)
    BY Zenon DEF Served
  <1>2. /\ served' = [status |-> st, request |-> rq, code |-> co]
        /\ st = "listening" => StartsUp'
        /\ co = "ok" => StartsUp' /\ Authorized(rq)'
    BY <1>1, TokensStay
  <1> QED
    BY <1>2, Zenon DEF Served

\* Every step.
LEMMA ServedStep ==
  ASSUME Served, [HostsNext]_hostsVars
  PROVE  Served'
  <1>1. CASE Collection
    BY <1>1, CollectionFrame, ServedStays DEF Framed
  <1>2. CASE UNCHANGED hostsVars
    BY <1>2, ServedStays DEF hostsVars
  <1>3. CASE Change
    BY <1>3, ServedStays DEF Change
  <1>4. ASSUME NEW s, Start(s)
        PROVE  Served'
    BY <1>4, ServedStays DEF Start
  <1>5. PICK st, rq, co :
          /\ served = [status |-> st, request |-> rq, code |-> co]
          /\ st = "listening" => StartsUp
          /\ co = "ok" => StartsUp /\ Authorized(rq)
    BY Zenon DEF Served
  <1>6. CASE Main
    <2>1. PICK x : x = IF StartsUp THEN "listening" ELSE "exited"
      OBVIOUS
    <2>2. served' = [served EXCEPT !.status = x] /\ env' = env
      BY <1>6, <2>1 DEF Main
    <2>3. served' = [status |-> x, request |-> rq, code |-> co]
      BY <1>5, <2>2
    <2>4. /\ x = "listening" => StartsUp'
          /\ co = "ok" => StartsUp' /\ Authorized(rq)'
      BY <1>5, <2>1, <2>2, TokensStay
    <2> QED
      BY <2>3, <2>4, Zenon DEF Served
  <1>7. ASSUME NEW r, Route(r)
        PROVE  Served'
    <2>1. PICK x : x = IF Authorized(r) THEN "ok" ELSE "unauthorized"
      OBVIOUS
    <2>2. served' = [served EXCEPT !.request = r, !.code = x] /\ env' = env /\ served.status = "listening"
      BY <1>7, <2>1 DEF Route
    <2>3. served' = [status |-> st, request |-> r, code |-> x] /\ st = "listening"
      BY <1>5, <2>2
    <2>4. /\ st = "listening" => StartsUp'
          /\ x = "ok" => StartsUp' /\ Authorized(r)'
      BY <1>5, <2>1, <2>2, <2>3, TokensStay
    <2> QED
      BY <2>3, <2>4, Zenon DEF Served
  <1> QED
    BY <1>1, <1>2, <1>3, <1>4, <1>6, <1>7, Zenon DEF HostsNext, Collection

\* A daemon that listens beyond the loopback answers no request without its token
\* (validate_bind_host, require_daemon_bearer_token).
THEOREM TokenBeyondLoopback == HostsSpec => []RemoteNeedsToken
  <1>1. HostsInit => Served
    <2> SUFFICES ASSUME HostsInit PROVE Served
      OBVIOUS
    <2>1. served = [status |-> "off", request |-> <<>>, code |-> "none"]
      BY DEF HostsInit, None
    <2>2. "off" # "listening" /\ "none" # "ok"
      OBVIOUS
    <2> QED
      BY <2>1, <2>2, Zenon DEF Served
  <1>2. Served => RemoteNeedsToken
    <2> SUFFICES ASSUME Served, served.code = "ok", ~IsLoopback(env.host)
                 PROVE  \E token \in {env.daemonToken, env.apiToken} \ {None, ""} :
                          served.request = <<"Bearer", token>>
      BY DEF RemoteNeedsToken
    <2>1. StartsUp /\ Authorized(served.request)
      BY DEF Served
    <2>2. /\ TokenEnv # "" /\ TokenEnv # None
          /\ served.request = <<"Bearer", TokenEnv>>
      BY <2>1 DEF StartsUp, BindHost, Authorized
    <2>3. TokenEnv \in {env.daemonToken, env.apiToken}
      BY DEF TokenEnv
    <2> QED
      BY <2>2, <2>3
  <1> QED
    BY <1>1, <1>2, ServedStep, PTL DEF HostsSpec

\* A path of a fixed file, or one that a directory within its limit lists.
PathGood(x) ==
  x # Crontab =>
    \E w \in Worlds["cron"] : x \in ToSet(w.cronD) /\ Len(w.cronD) <= Limits.cronEntries

\* What was a regular file under its own name.
FileGood(x, f) == f.form = "regular" /\ \E w \in Worlds["cron"] : x \in DOMAIN w.files /\ w.files[x] = f

\* A job of the user's table, or of a line of such a file.
JobGood(j) ==
  j.source # "user crontab" =>
    /\ PathGood(j.source)
    /\ \E f : FileGood(j.source, f) /\ ~f.large /\ j.line \in DOMAIN f.lines /\ f.lines[j.line] = j.text

\* The parts of it: paths, those that are left, the opened file and the jobs so far.
CronParts(st, ps, td, fl, js) ==
  /\ st \in {"check", "open", "read"}
  /\ DOMAIN ps \subseteq Nat /\ \A i \in DOMAIN ps : PathGood(ps[i])
  /\ td \subseteq DOMAIN ps /\ (st # "check" => td # {})
  /\ st = "read" => FileGood(ps[Min(td)], fl)
  /\ \A j \in js : JobGood(j)

\* The collection of cron, between its checks, opens and reads.
CronWorker(w) ==
  \E st, ps, td, ls, fl, js, ds :
    /\ w = [slot |-> "cron", step |-> st, paths |-> ps, todo |-> td, listed |-> ls, file |-> fl,
            jobs |-> js, diagnostics |-> ds]
    /\ CronParts(st, ps, td, fl, js)

\* A manifest that was read beneath the root.
ProjectGood(p) ==
  p.manifest # None =>
    \E w \in Worlds["npm"] :
      /\ p.dir \in DOMAIN w.dirs /\ w.dirs[p.dir].manifest = p.manifest
      /\ \A k \in 0..Len(p.dir) : SubSeq(p.dir, 1, k) \notin w.links

\* The projects found so far.
ProjectsGood(ps) == (\E S : ps \in Seq(S)) /\ \A i \in DOMAIN ps : ProjectGood(ps[i])

\* The collection of npm, on its walk and at a manifest.
NpmWalk(w) ==
  \E pd, n, ps, ds :
    /\ w = [slot |-> "npm", step |-> "visit", pending |-> pd, visited |-> n, projects |-> ps, diagnostics |-> ds]
    /\ ProjectsGood(ps)

NpmOpen(w) ==
  \E d, l, k : w = [slot |-> "npm", step |-> "manifest", dir |-> d, lockfile |-> l, walk |-> k] /\ NpmWalk(k)

\* A pid that was a process's of the host's own.
HostPid(pid, during) == \E p \in during : p[1] = pid /\ HostImage(p[2])

\* The parts of a collection of processes: the rows of ps, those whose owner is still to be asked,
\* those that passed and the names so far.
ProcessParts(sl, tr, ls, td, fd, cm) ==
  /\ sl \in {"python", "native"}
  /\ DOMAIN ls \subseteq Nat /\ DOMAIN cm = DOMAIN ls
  /\ \A i \in DOMAIN ls : <<ls[i].pid, ls[i].image>> \in lived /\ <<ls[i].pid, cm[i]>> \in lived
  /\ td \subseteq DOMAIN ls /\ fd \subseteq DOMAIN ls
  /\ \A i \in fd : HostPid(ls[i].pid, lived)
  /\ (changes = 0 /\ ~tr) =>
       /\ ls = world.procs
       /\ \A i \in ParsePsTable(ls) : (Wanted(sl, ls[i]) /\ ~ContainerOwned(ls[i].pid)) => i \in td \cup fd

\* The collection of processes, between ps, the owners and the names.
ProcessWorker(w) ==
  \E sl, tr, ls, td, fd, cd, cm :
    /\ w = [slot |-> sl, step |-> "owners", truncated |-> tr, lines |-> ls, todo |-> td, found |-> fd,
            called |-> cd, comms |-> cm]
    /\ ProcessParts(sl, tr, ls, td, fd, cm)

\* The collection that runs is one of its family, of its namespace, and has read what it may.
WorkerGood(w) ==
  \/ w = Idle
  \/ /\ w.slot \in FamilySlots[family]
     /\ Restricted => w.slot \in {"network", "npm"}
     /\ \/ w.step = "start"
        \/ CronWorker(w)
        \/ NpmWalk(w) \/ NpmOpen(w)
        \/ ProcessWorker(w)
        \/ w.slot = "systemd"

\* A process of which all that is shown was alive, and one of its pid the host's own.
ProcessGood(p) ==
  HostPid(p.pid, p.during) /\ \A image \in {p.image, p.comm} : <<p.pid, image>> \in p.during

\* The host's own processes of the slot are there.
Complete(s, ns) ==
  \A p \in ToSet(world.procs) :
    (p.cgroup = "/user.slice" /\ p.program = s /\ p.pid # world.self) => \E n \in ns : n.of.pid = p.pid

\* What a collection may publish.
ViewGood(s, v) ==
  /\ s = "cron" => \A n \in v.nodes : JobGood(n.of)
  /\ s = "npm" => \A n \in v.nodes : n.origin = "project" => ProjectGood(n.of)
  /\ s \in {"python", "native"} =>
       /\ \A n \in v.nodes : ProcessGood(n.of)
       /\ (changes = 0 /\ v.state = "fresh" /\ v.diagnostics = {}) => Complete(s, v.nodes)
  /\ Restricted =>
       /\ \A n \in v.nodes : n.origin \in {"docker", "project", "package"}
       /\ \A e \in v.edges : e.target # HostNode.id

\* The inductive invariant of the collections.
HostInv ==
  /\ family \in DOMAIN FamilySlots /\ world \in Worlds[family] /\ changes \in Nat
  /\ DOMAIN views = FamilySlots[family]
  /\ WorkerGood(worker)
  /\ worker # Idle => Living(world) \subseteq lived
  /\ \A s \in DOMAIN views : ViewGood(s, views[s])

\* A good step of a collection.
Outcome ==
  \/ \E w : WorkerGood(w) /\ Continue(w)
  \/ \E o : ViewGood(worker.slot, o) /\ Conclude(o)

\* The parts of a collection of processes stay good while the history grows.
LEMMA PartsStay ==
  ASSUME lived \subseteq lived',
         \/ world' = world /\ changes' = changes
         \/ changes' # 0
  PROVE  \A sl, tr, ls, td, fd, cm : ProcessParts(sl, tr, ls, td, fd, cm) => ProcessParts(sl, tr, ls, td, fd, cm)'
  <1>1. \A pid : HostPid(pid, lived) => HostPid(pid, lived)'
    BY Zenon DEF HostPid
  <1>2. ASSUME world' = world
        PROVE  /\ \A pid : ContainerOwned(pid)' <=> ContainerOwned(pid)
               /\ \A sl, l : Wanted(sl, l)' <=> Wanted(sl, l)
    BY <1>2 DEF ContainerOwned, Wanted
  <1> SUFFICES ASSUME NEW sl, NEW tr, NEW ls, NEW td, NEW fd, NEW cm, ProcessParts(sl, tr, ls, td, fd, cm)
               PROVE  ProcessParts(sl, tr, ls, td, fd, cm)'
    OBVIOUS
  <1>3. \A i \in DOMAIN ls : <<ls[i].pid, ls[i].image>> \in lived' /\ <<ls[i].pid, cm[i]>> \in lived'
    BY DEF ProcessParts
  <1>4. \A i \in fd : HostPid(ls[i].pid, lived)'
    BY <1>1, Zenon DEF ProcessParts
  <1>5. (changes' = 0 /\ ~tr) =>
          /\ ls = world.procs'
          /\ \A i \in ParsePsTable(ls) : (Wanted(sl, ls[i])' /\ ~ContainerOwned(ls[i].pid)') => i \in td \cup fd
    BY <1>2, Zenon DEF ProcessParts
  <1> QED
    BY <1>3, <1>4, <1>5, Zenon DEF ProcessParts

\* And the collection with them.
LEMMA ProcessesStay ==
  ASSUME lived \subseteq lived',
         \/ world' = world /\ changes' = changes
         \/ changes' # 0
  PROVE  \A w : ProcessWorker(w) => ProcessWorker(w)'
  <1> SUFFICES ASSUME NEW w, ProcessWorker(w) PROVE ProcessWorker(w)'
    OBVIOUS
  <1>1. PICK sl, tr, ls, td, fd, cd, cm :
          /\ w = [slot |-> sl, step |-> "owners", truncated |-> tr, lines |-> ls, todo |-> td, found |-> fd,
                  called |-> cd, comms |-> cm]
          /\ ProcessParts(sl, tr, ls, td, fd, cm)
    BY Zenon DEF ProcessWorker
  <1>2. ProcessParts(sl, tr, ls, td, fd, cm)'
    BY <1>1, PartsStay
  <1> QED
    BY <1>1, <1>2, Zenon DEF ProcessWorker

\* What is good stays good when nothing else moves.
LEMMA GoodStays ==
  ASSUME env' = env, family' = family, world' = world, changes' = changes
  PROVE  /\ lived \subseteq lived' => \A w : WorkerGood(w) => WorkerGood(w)'
         /\ \A s, v : ViewGood(s, v) => ViewGood(s, v)'
  <1>1. Restricted' <=> Restricted
    BY DEF Restricted
  <1>2. lived \subseteq lived' => \A w : ProcessWorker(w) => ProcessWorker(w)'
    BY ProcessesStay
  <1>3. \A s, n : Complete(s, n)' <=> Complete(s, n)
    BY DEF Complete
  <1> QED
    BY <1>1, <1>2, <1>3, Zenon DEF WorkerGood, ViewGood

\* And when the host changes, what was collected before is of no quiet host.
LEMMA GoodChanges ==
  ASSUME env' = env, family' = family, changes \in Nat, changes' = changes + 1, lived \subseteq lived'
  PROVE  /\ \A w : WorkerGood(w) => WorkerGood(w)'
         /\ \A s, v : ViewGood(s, v) => ViewGood(s, v)'
  <1>1. Restricted' <=> Restricted
    BY DEF Restricted
  <1>2. changes' # 0
    OBVIOUS
  <1>3. \A w : ProcessWorker(w) => ProcessWorker(w)'
    BY <1>2, ProcessesStay
  <1> QED
    BY <1>1, <1>2, <1>3, Zenon DEF WorkerGood, ViewGood

\* A view is replaced by a good one.
LEMMA ViewReplaced ==
  ASSUME HostInv, NEW s, NEW o, ViewGood(s, o), views' = [views EXCEPT ![s] = o]
  PROVE  DOMAIN views' = DOMAIN views /\ \A t \in DOMAIN views : ViewGood(t, views'[t])
  <1>1. DOMAIN views' = DOMAIN views
    OBVIOUS
  <1>2. ASSUME NEW t \in DOMAIN views
        PROVE  ViewGood(t, views'[t])
    <2>1. CASE t = s
      <3>1. views'[t] = o
        BY <2>1
      <3> QED
        BY <2>1, <3>1
    <2>2. CASE t # s
      <3>1. views'[t] = views[t]
        BY <2>2
      <3> QED
        BY <3>1 DEF HostInv
    <2> QED
      BY <2>1, <2>2
  <1> QED
    BY <1>1, <1>2

\* A good step keeps the invariant.
LEMMA OutcomeKeeps ==
  ASSUME HostInv, worker # Idle, Outcome
  PROVE  HostInv'
  <1>1. CASE \E w : WorkerGood(w) /\ Continue(w)
    <2>1. PICK w : WorkerGood(w) /\ Continue(w)
      BY <1>1
    <2>2. Framed /\ worker' = w /\ views' = views
      BY <2>1, ContinueDoes
    <2>3. WorkerGood(worker)'
      <3>1. WorkerGood(w)'
        BY <2>1, <2>2, GoodStays DEF Framed
      <3> QED
        BY <2>2, <3>1 DEF WorkerGood
    <2>4. ASSUME NEW s \in DOMAIN views
          PROVE  ViewGood(s, views[s])'
      <3>1. ViewGood(s, views[s])
        BY DEF HostInv
      <3>2. PICK v : v = views[s]
        OBVIOUS
      <3>3. ViewGood(s, v)'
        BY <2>2, <3>1, <3>2, GoodStays DEF Framed
      <3> QED
        BY <2>2, <3>2, <3>3 DEF ViewGood
    <2> QED
      BY <2>2, <2>3, <2>4 DEF HostInv, Framed, Living
  <1>2. CASE \E o : ViewGood(worker.slot, o) /\ Conclude(o)
    <2>1. PICK o : ViewGood(worker.slot, o) /\ Conclude(o)
      BY <1>2
    <2>2. Framed /\ worker' = Idle /\ views' = [views EXCEPT ![worker.slot] = o]
      BY <2>1, FinishDoes
    <2>3. WorkerGood(worker)'
      BY <2>2 DEF WorkerGood
    <2>4. DOMAIN views' = DOMAIN views /\ \A t \in DOMAIN views : ViewGood(t, views'[t])
      BY <2>1, <2>2, ViewReplaced
    <2>5. ASSUME NEW s \in DOMAIN views
          PROVE  ViewGood(s, views[s])'
      <3>1. PICK v : v = views'[s]
        OBVIOUS
      <3>2. ViewGood(s, v)
        BY <2>4, <3>1
      <3>3. ViewGood(s, v)'
        BY <2>2, <3>2, GoodStays DEF Framed
      <3> QED
        BY <3>1, <3>3 DEF ViewGood
    <2> QED
      BY <2>2, <2>3, <2>4, <2>5 DEF HostInv, Framed, Living
  <1> QED
    BY <1>1, <1>2 DEF Outcome

\* The other steps: a slot's start, a change of the host, the daemon's own.
LEMMA StartKeeps ==
  ASSUME HostInv, NEW s, Start(s)
  PROVE  HostInv'
  <1> DEFINE off == Collected("disabled", {}, {}, {"omitted"})
             on == [slot |-> s, step |-> "start"]
  <1>1. /\ env' = env /\ family' = family /\ world' = world /\ changes' = changes
        /\ s \in FamilySlots[family] /\ worker = Idle /\ lived' = Living(world)
        /\ \/ views' = [views EXCEPT ![s] = off] /\ worker' = worker
           \/ (Restricted => s \in {"network", "npm"}) /\ worker' = on /\ views' = views
    BY DEF Start
  <1>2. ViewGood(s, off)
    BY DEF ViewGood, Collected
  <1>3. ASSUME views' = views
        PROVE  \A t \in DOMAIN views : ViewGood(t, views'[t])
    BY <1>3 DEF HostInv
  <1>4. WorkerGood(worker)'
    <2>1. CASE worker' = worker
      BY <1>1, <2>1 DEF WorkerGood, Idle, None
    <2>2. CASE (Restricted => s \in {"network", "npm"}) /\ worker' = on
      <3>1. worker'.slot = s /\ worker'.step = "start"
        BY <2>2
      <3>2. Restricted' <=> Restricted
        BY <1>1 DEF Restricted
      <3> HIDE DEF on
      <3> QED
        BY <1>1, <2>2, <3>1, <3>2 DEF WorkerGood
    <2> QED
      BY <1>1, <2>1, <2>2
  <1>5. Living(world)' = Living(world)
    BY <1>1 DEF Living
  <1> HIDE DEF off, on
  <1>6. DOMAIN views' = DOMAIN views /\ \A t \in DOMAIN views : ViewGood(t, views'[t])
    BY <1>1, <1>2, <1>3, ViewReplaced
  <1>7. ASSUME NEW t \in DOMAIN views
        PROVE  ViewGood(t, views[t])'
    <2>1. PICK v : v = views'[t]
      OBVIOUS
    <2>2. ViewGood(t, v)'
      BY <1>1, <1>6, <2>1, GoodStays
    <2> QED
      BY <2>1, <2>2 DEF ViewGood
  <1> QED
    BY <1>1, <1>4, <1>5, <1>6, <1>7 DEF HostInv

\* A change of the host, or a step of the daemon, leaves the collections as they are.
LEMMA RestKeeps ==
  ASSUME HostInv, env' = env, family' = family, worker' = worker, views' = views,
         \/ world' = world /\ changes' = changes /\ lived' = lived
         \/ world' \in Worlds[family] /\ changes' = changes + 1 /\ lived' = lived \cup Living(world')
  PROVE  HostInv'
  <1>0. /\ \A w : WorkerGood(w) => WorkerGood(w)'
        /\ \A s, v : ViewGood(s, v) => ViewGood(s, v)'
    BY GoodStays, GoodChanges DEF HostInv
  <1>1. WorkerGood(worker)'
    <2>1. PICK w : w = worker
      OBVIOUS
    <2>2. WorkerGood(w)'
      BY <1>0, <2>1 DEF HostInv
    <2> QED
      BY <2>1, <2>2 DEF WorkerGood
  <1>2. ASSUME NEW t \in DOMAIN views
        PROVE  ViewGood(t, views[t])'
    <2>1. PICK v : v = views[t]
      OBVIOUS
    <2>2. ViewGood(t, v)'
      BY <1>0, <2>1 DEF HostInv
    <2> QED
      BY <2>1, <2>2 DEF ViewGood
  <1>3. worker' # Idle => Living(world)' \subseteq lived'
    BY DEF HostInv, Living
  <1> QED
    BY <1>1, <1>2, <1>3 DEF HostInv

\* Every set of numbers that is not empty has a least one.
LEMMA LeastPlace ==
  ASSUME NEW T, T \subseteq Nat, T # {}
  PROVE  Min(T) \in T
  <1> DEFINE Less == {p \in Nat \X Nat : p[1] < p[2]}
  <1>1. IsWellFoundedOn(Less, Nat)
    BY NatLessThanWellFounded DEF OpToRel
  <1>2. PICK x \in T : \A y \in T : ~(<<y, x>> \in Less)
    <2> HIDE DEF Less
    <2> QED
      BY <1>1, WFMin
  <1>3. \A y \in T : x <= y
    <2> TAKE y \in T
    <2>1. <<y, x>> \in Nat \X Nat
      OBVIOUS
    <2> QED
      BY <1>2, <2>1
  <1> QED
    BY <1>3 DEF Min

\* A collection of processes is of a slot of theirs.
LEMMA ProcessSlots == ProcessWorker(worker) => worker.slot \in {"python", "native"}
  <1> SUFFICES ASSUME ProcessWorker(worker) PROVE worker.slot \in {"python", "native"}
    OBVIOUS
  <1>1. PICK sl, tr, ls, td, fd, cd, cm :
          /\ worker = [slot |-> sl, step |-> "owners", truncated |-> tr, lines |-> ls, todo |-> td, found |-> fd,
                       called |-> cd, comms |-> cm]
          /\ ProcessParts(sl, tr, ls, td, fd, cm)
    BY Zenon DEF ProcessWorker
  <1>2. worker.slot = sl
    BY <1>1
  <1> QED
    BY <1>1, <1>2 DEF ProcessParts

\* A collection of cron is one of the family, whose worlds have its files.
LEMMA CronRuns ==
  ASSUME HostInv, worker.slot = "cron"
  PROVE  /\ family = "cron" /\ world \in Worlds["cron"] /\ ~Restricted
         /\ worker.step = "start" \/ CronWorker(worker)
  <1>1. worker # Idle
    BY DEF Idle, None
  <1>2. worker.slot \in FamilySlots[family] /\ ~Restricted
    BY <1>1 DEF HostInv, WorkerGood
  <1>3. family = "cron"
    BY <1>2 DEF HostInv, FamilySlots
  <1>4. ~NpmWalk(worker) /\ ~NpmOpen(worker) /\ ~ProcessWorker(worker)
    BY ProcessSlots DEF NpmWalk, NpmOpen
  <1> QED
    BY <1>1, <1>2, <1>3, <1>4 DEF HostInv, WorkerGood

\* The collection goes on.
LEMMA CronGood ==
  ASSUME HostInv, worker.slot = "cron", NEW w, CronWorker(w)
  PROVE  WorkerGood(w)
  <1>1. w.slot = "cron"
    BY DEF CronWorker
  <1>2. family = "cron" /\ ~Restricted
    BY CronRuns
  <1>3. "cron" \in FamilySlots[family]
    BY <1>2 DEF FamilySlots
  <1> QED
    BY <1>1, <1>2, <1>3 DEF WorkerGood

\* A path is done with.
NextPath(w, jobs, ds) ==
  [w EXCEPT !.step = "check", !.todo = @ \ {Min(@)}, !.file = None,
            !.jobs = @ \cup jobs, !.diagnostics = @ \cup ds]

\* The jobs added, the collection goes on with the next path.
LEMMA NextPathGood ==
  ASSUME NEW w, CronWorker(w), NEW jobs, NEW ds, \A j \in jobs : JobGood(j)
  PROVE  CronWorker(NextPath(w, jobs, ds))
  <1>1. PICK st, ps, td, ls, fl, js, d :
          /\ w = [slot |-> "cron", step |-> st, paths |-> ps, todo |-> td, listed |-> ls, file |-> fl,
                  jobs |-> js, diagnostics |-> d]
          /\ CronParts(st, ps, td, fl, js)
    BY Zenon DEF CronWorker
  <1>2. NextPath(w, jobs, ds) =
          [[slot |-> "cron", step |-> st, paths |-> ps, todo |-> td, listed |-> ls, file |-> fl,
            jobs |-> js, diagnostics |-> d]
             EXCEPT !.step = "check", !.todo = @ \ {Min(@)}, !.file = None,
                    !.jobs = @ \cup jobs, !.diagnostics = @ \cup ds]
    BY <1>1 DEF NextPath
  <1>3. NextPath(w, jobs, ds) =
          [slot |-> "cron", step |-> "check", paths |-> ps, todo |-> td \ {Min(td)}, listed |-> ls,
           file |-> None, jobs |-> js \cup jobs, diagnostics |-> d \cup ds]
    BY <1>2
  <1>4. CronParts("check", ps, td \ {Min(td)}, None, js \cup jobs)
    BY <1>1 DEF CronParts
  <1> QED
    BY <1>3, <1>4, Zenon DEF CronWorker

\* What was looked at and found to be a regular file.
LEMMA FileAtGood ==
  ASSUME world \in Worlds["cron"], NEW x, FileAt(x).form = "regular"
  PROVE  FileGood(x, FileAt(x))
  BY DEF FileGood, FileAt

\* The path in turn.
LEMMA PathInTurn ==
  ASSUME CronWorker(worker), worker.todo # {}
  PROVE  PathGood(CronPath)
  <1>1. worker.todo \subseteq DOMAIN worker.paths /\ DOMAIN worker.paths \subseteq Nat
        /\ \A i \in DOMAIN worker.paths : PathGood(worker.paths[i])
    BY DEF CronWorker, CronParts
  <1>2. Min(worker.todo) \in worker.todo
    BY <1>1, LeastPlace
  <1> QED
    BY <1>1, <1>2 DEF CronPath

\* The jobs of a file.
LEMMA JobsGood ==
  ASSUME NEW x, PathGood(x), NEW f, FileGood(x, f), ~f.large, NEW t
  PROVE  \A j \in JobsOf(x, f.lines, t) : JobGood(j)
  <1> SUFFICES ASSUME NEW j \in JobsOf(x, f.lines, t)
               PROVE  JobGood(j)
    OBVIOUS
  <1>1. j.source = x /\ j.line \in DOMAIN f.lines /\ f.lines[j.line] = j.text
    BY DEF JobsOf
  <1> QED
    BY <1>1, Zenon DEF JobGood

\* A step to the open, and one to the read.
Opening(w) == [w EXCEPT !.step = "open"]
Reading(w, file) == [w EXCEPT !.step = "read", !.file = file]

\* What was checked is to be opened.
LEMMA OpeningGood ==
  ASSUME NEW w, CronWorker(w), w.todo # {}
  PROVE  CronWorker(Opening(w))
  <1>1. PICK st, ps, td, ls, fl, js, d :
          /\ w = [slot |-> "cron", step |-> st, paths |-> ps, todo |-> td, listed |-> ls, file |-> fl,
                  jobs |-> js, diagnostics |-> d]
          /\ CronParts(st, ps, td, fl, js)
    BY Zenon DEF CronWorker
  <1>2. Opening(w) = [[slot |-> "cron", step |-> st, paths |-> ps, todo |-> td, listed |-> ls, file |-> fl,
                       jobs |-> js, diagnostics |-> d] EXCEPT !.step = "open"]
    BY <1>1 DEF Opening
  <1>3. Opening(w) = [slot |-> "cron", step |-> "open", paths |-> ps, todo |-> td, listed |-> ls, file |-> fl,
                      jobs |-> js, diagnostics |-> d]
    BY <1>2
  <1>4. CronParts("open", ps, td, fl, js)
    BY <1>1 DEF CronParts
  <1> QED
    BY <1>3, <1>4, Zenon DEF CronWorker

\* What was opened is to be read.
LEMMA ReadingGood ==
  ASSUME NEW w, CronWorker(w), w.todo # {}, NEW file, FileGood(w.paths[Min(w.todo)], file)
  PROVE  CronWorker(Reading(w, file))
  <1>1. PICK st, ps, td, ls, fl, js, d :
          /\ w = [slot |-> "cron", step |-> st, paths |-> ps, todo |-> td, listed |-> ls, file |-> fl,
                  jobs |-> js, diagnostics |-> d]
          /\ CronParts(st, ps, td, fl, js)
    BY Zenon DEF CronWorker
  <1>2. Reading(w, file) = [[slot |-> "cron", step |-> st, paths |-> ps, todo |-> td, listed |-> ls, file |-> fl,
                       jobs |-> js, diagnostics |-> d] EXCEPT !.step = "read", !.file = file]
    BY <1>1 DEF Reading
  <1>3. Reading(w, file) = [slot |-> "cron", step |-> "read", paths |-> ps, todo |-> td, listed |-> ls, file |-> file,
                      jobs |-> js, diagnostics |-> d]
    BY <1>2
  <1>4. w.paths = ps /\ w.todo = td
    BY <1>1
  <1>5. CronParts("read", ps, td, file, js)
    BY <1>1, <1>4 DEF CronParts
  <1> QED
    BY <1>3, <1>5, Zenon DEF CronWorker

\* The directory's entries take the place of the paths, when they are within the limit.
Listing(w, ps, td, ds) == [w EXCEPT !.listed = TRUE, !.paths = ps, !.todo = td, !.diagnostics = @ \cup ds]

\* The listed paths are good ones.
LEMMA ListingGood ==
  ASSUME NEW w, CronWorker(w), w.step = "check", NEW ps, NEW td, NEW ds,
         DOMAIN ps \subseteq Nat, \A i \in DOMAIN ps : PathGood(ps[i]), td \subseteq DOMAIN ps
  PROVE  CronWorker(Listing(w, ps, td, ds))
  <1>1. PICK st, p0, t0, ls, fl, js, d :
          /\ w = [slot |-> "cron", step |-> st, paths |-> p0, todo |-> t0, listed |-> ls, file |-> fl,
                  jobs |-> js, diagnostics |-> d]
          /\ CronParts(st, p0, t0, fl, js)
    BY Zenon DEF CronWorker
  <1>2. Listing(w, ps, td, ds) =
          [[slot |-> "cron", step |-> st, paths |-> p0, todo |-> t0, listed |-> ls, file |-> fl,
            jobs |-> js, diagnostics |-> d]
             EXCEPT !.listed = TRUE, !.paths = ps, !.todo = td, !.diagnostics = @ \cup ds]
    BY <1>1 DEF Listing
  <1>3. Listing(w, ps, td, ds) =
          [slot |-> "cron", step |-> st, paths |-> ps, todo |-> td, listed |-> TRUE, file |-> fl,
           jobs |-> js, diagnostics |-> d \cup ds]
    BY <1>2
  <1>4. st = "check"
    BY <1>1
  <1>5. CronParts(st, ps, td, fl, js)
    BY <1>1, <1>4 DEF CronParts
  <1> QED
    BY <1>3, <1>5, Zenon DEF CronWorker

\* A path that is done with is a good step.
LEMMA CronNextOutcome ==
  ASSUME HostInv, worker.slot = "cron", CronWorker(worker), NEW jobs, NEW ds, \A j \in jobs : JobGood(j),
         CronNext(jobs, ds)
  PROVE  Outcome
  <1>1. Continue(NextPath(worker, jobs, ds))
    BY Zenon DEF CronNext, NextPath
  <1>2. WorkerGood(NextPath(worker, jobs, ds))
    BY NextPathGood, CronGood
  <1> QED
    BY <1>1, <1>2, Zenon DEF Outcome

\* The start of the collection.
LEMMA CronStartKeeps ==
  ASSUME HostInv, CronStart
  PROVE  Outcome
  <1> DEFINE w == [slot |-> "cron", step |-> "check", paths |-> <<Crontab>>, todo |-> {1},
                   listed |-> FALSE, file |-> None, jobs |-> {}, diagnostics |-> {}]
  <1>1. worker.slot = "cron" /\ Continue(w)
    BY Zenon DEF CronStart, At
  <1>2. PathGood(Crontab)
    BY DEF PathGood
  <1>3. DOMAIN <<Crontab>> = {1} /\ <<Crontab>>[1] = Crontab
    OBVIOUS
  <1>4. CronParts("check", <<Crontab>>, {1}, None, {})
    BY <1>2, <1>3 DEF CronParts
  <1>5. CronWorker(w)
    BY <1>4, Zenon DEF CronWorker
  <1> HIDE DEF w
  <1>6. WorkerGood(w)
    BY <1>1, <1>5, CronGood
  <1> QED
    BY <1>1, <1>6, Zenon DEF Outcome

\* The check of a name.
LEMMA CronCheckKeeps ==
  ASSUME HostInv, CronCheck
  PROVE  Outcome
  <1>1. worker.slot = "cron" /\ worker.step = "check" /\ worker.todo # {}
    BY DEF CronCheck, At
  <1>2. CronWorker(worker)
    BY <1>1, CronRuns
  <1>3. Continue(Opening(worker)) \/ CronNext({}, {})
    BY Zenon DEF CronCheck, Opening
  <1>4. WorkerGood(Opening(worker))
    BY <1>1, <1>2, OpeningGood, CronGood
  <1>5. CASE Continue(Opening(worker))
    BY <1>4, <1>5, Zenon DEF Outcome
  <1>6. CASE CronNext({}, {})
    BY <1>1, <1>2, <1>6, CronNextOutcome
  <1> QED
    BY <1>3, <1>5, <1>6

\* The open: only a regular file, whatever the check has seen.
LEMMA CronOpenKeeps ==
  ASSUME HostInv, CronOpen
  PROVE  Outcome
  <1>1. worker.slot = "cron" /\ worker.step = "open"
    BY DEF CronOpen, At
  <1>2. CronWorker(worker) /\ world \in Worlds["cron"]
    BY <1>1, CronRuns
  <1>3. worker.todo # {}
    BY <1>1, <1>2 DEF CronWorker, CronParts
  <1>4. \/ CronNext({}, {}) \/ CronNext({}, {"large"})
        \/ CronOpens(FileAt(CronPath)) /\ Continue(Reading(worker, FileAt(CronPath)))
    BY Zenon DEF CronOpen, Reading
  <1>5. CASE CronNext({}, {}) \/ CronNext({}, {"large"})
    BY <1>1, <1>2, <1>5, CronNextOutcome
  <1>6. CASE CronOpens(FileAt(CronPath)) /\ Continue(Reading(worker, FileAt(CronPath)))
    <2>1. FileGood(CronPath, FileAt(CronPath))
      BY <1>2, <1>6, FileAtGood DEF CronOpens
    <2>2. CronWorker(Reading(worker, FileAt(CronPath)))
      BY <1>2, <1>3, <2>1, ReadingGood DEF CronPath
    <2>3. WorkerGood(Reading(worker, FileAt(CronPath)))
      BY <1>1, <2>2, CronGood
    <2> QED
      BY <1>6, <2>3, Zenon DEF Outcome
  <1> QED
    BY <1>4, <1>5, <1>6

\* The read, of what was opened or of what took its place.
LEMMA CronReadKeeps ==
  ASSUME HostInv, CronRead
  PROVE  Outcome
  <1>1. worker.slot = "cron" /\ worker.step = "read"
    BY DEF CronRead, At
  <1>2. CronWorker(worker) /\ world \in Worlds["cron"]
    BY <1>1, CronRuns
  <1>3. worker.todo # {} /\ FileGood(CronPath, worker.file)
    BY <1>1, <1>2 DEF CronWorker, CronParts, CronPath
  <1>4. PICK file \in {worker.file} \cup {f \in {FileAt(CronPath)} : f.form = "regular"} :
          IF file.large THEN CronNext({}, {"large"})
          ELSE CronNext(JobsOf(CronPath, file.lines, FALSE), {})
    BY Zenon DEF CronRead
  <1>5. FileGood(CronPath, file)
    BY <1>2, <1>3, <1>4, FileAtGood
  <1>6. PathGood(CronPath)
    BY <1>2, <1>3, PathInTurn
  <1>7. CASE file.large
    BY <1>1, <1>2, <1>4, <1>7, CronNextOutcome
  <1>8. CASE ~file.large
    <2>1. \A j \in JobsOf(CronPath, file.lines, FALSE) : JobGood(j)
      BY <1>5, <1>6, <1>8, JobsGood
    <2> QED
      BY <1>1, <1>2, <1>4, <1>8, <2>1, CronNextOutcome
  <1> QED
    BY <1>7, <1>8

\* The directory's listing.
LEMMA ListCronDKeeps ==
  ASSUME HostInv, ListCronD
  PROVE  Outcome
  <1> DEFINE entries == world.cronD
             within == world.cronDReadable /\ Len(entries) <= Limits.cronEntries
             ps == IF within THEN entries ELSE worker.paths
             td == IF within THEN {i \in DOMAIN entries : FileAt(entries[i]).form = "regular"} ELSE {}
             ds == {d \in {"skipped", "capped"} :
                      \/ d = "skipped" /\ ~world.cronDReadable
                      \/ d = "capped" /\ world.cronDReadable /\ Len(entries) > Limits.cronEntries}
  <1>1. worker.slot = "cron" /\ worker.step = "check"
    BY DEF ListCronD, At
  <1>2. CronWorker(worker) /\ world \in Worlds["cron"]
    BY <1>1, CronRuns
  <1>3. Continue(Listing(worker, ps, td, ds))
    BY Zenon DEF ListCronD, Listing
  <1>4. DOMAIN worker.paths \subseteq Nat /\ \A i \in DOMAIN worker.paths : PathGood(worker.paths[i])
    BY <1>2 DEF CronWorker, CronParts
  <1>5. CASE within
    <2>1. DOMAIN entries \subseteq Nat
      BY <1>2, DirectoriesAssumption
    <2>2. \A i \in DOMAIN entries : PathGood(entries[i])
      BY <1>2, <1>5 DEF PathGood, ToSet
    <2>3. ps = entries /\ td \subseteq DOMAIN entries
      BY <1>5
    <2> QED
      BY <2>1, <2>2, <2>3, <1>1, <1>2, <1>3, ListingGood, CronGood, Zenon DEF Outcome
  <1>6. CASE ~within
    <2>1. ps = worker.paths /\ td = {}
      BY <1>6
    <2> HIDE DEF ps, td, ds, within
    <2>2. CronWorker(Listing(worker, ps, td, ds))
      BY <2>1, <1>1, <1>2, <1>4, ListingGood
    <2> QED
      BY <2>2, <1>1, <1>3, CronGood, Zenon DEF Outcome
  <1> QED
    BY <1>5, <1>6

\* A job names where it was found.
LEMMA SourceOfJobs ==
  \A x, lines, t : \A j \in JobsOf(x, lines, t) : j.source = x
  BY DEF JobsOf

\* The user's table, and the end.
LEMMA UserCrontabKeeps ==
  ASSUME HostInv, UserCrontab
  PROVE  Outcome
  <1>1. worker.slot = "cron" /\ worker.step = "check"
    BY DEF UserCrontab, At
  <1>2. CronWorker(worker) /\ ~Restricted
    BY <1>1, CronRuns
  <1>3. PICK exit \in {"ok", "nonzero", "error"}, table \in CrontabOutputs :
          LET jobs == worker.jobs \cup (IF exit = "ok" THEN JobsOf("user crontab", table, TRUE) ELSE {})
              nodes == {Node(<<"scheduled_job", j.source, j.line, j.text>>, "host", j) : j \in jobs}
          IN  Conclude(Collected("fresh", nodes, {RunsOnHost(n.id) : n \in nodes},
                            worker.diagnostics \cup (IF exit = "error" THEN {"skipped"} ELSE {})))
    BY Zenon DEF UserCrontab
  <1> DEFINE jobs == worker.jobs \cup (IF exit = "ok" THEN JobsOf("user crontab", table, TRUE) ELSE {})
             nodes == {Node(<<"scheduled_job", j.source, j.line, j.text>>, "host", j) : j \in jobs}
             o == Collected("fresh", nodes, {RunsOnHost(n.id) : n \in nodes},
                            worker.diagnostics \cup (IF exit = "error" THEN {"skipped"} ELSE {}))
  <1>4. Conclude(o)
    BY <1>3, Zenon
  <1>5. \A j \in worker.jobs : JobGood(j)
    BY <1>2 DEF CronWorker, CronParts
  <1>6. \A j \in JobsOf("user crontab", table, TRUE) : JobGood(j)
    <2>1. \A j \in JobsOf("user crontab", table, TRUE) : j.source = "user crontab"
      BY SourceOfJobs, Zenon
    <2> QED
      BY <2>1 DEF JobGood
  <1>7. \A j \in jobs : JobGood(j)
    BY <1>5, <1>6
  <1> HIDE DEF jobs
  <1>8. \A n \in nodes : JobGood(n.of)
    <2> TAKE n \in nodes
    <2>1. PICK j \in jobs : n = Node(<<"scheduled_job", j.source, j.line, j.text>>, "host", j)
      OBVIOUS
    <2>2. n.of = j
      BY <2>1 DEF Node
    <2> QED
      BY <1>7, <2>1, <2>2
  <1>9. o.nodes = nodes
    BY DEF Collected
  <1> HIDE DEF nodes, o
  <1>10. ViewGood(worker.slot, o)
    BY <1>1, <1>2, <1>8, <1>9 DEF ViewGood
  <1> QED
    BY <1>4, <1>10, Zenon DEF Outcome

\* Every step of the collection.
LEMMA CronKeeps ==
  ASSUME HostInv,
         \/ CronStart \/ CronCheck \/ CronOpen \/ CronRead
         \/ ListCronD \/ UserCrontab
  PROVE  Outcome
  BY CronStartKeeps, CronCheckKeeps, CronOpenKeeps, CronReadKeeps, ListCronDKeeps, UserCrontabKeeps

\* A collection of npm is one of the family.
LEMMA NpmRuns ==
  ASSUME HostInv, worker.slot = "npm"
  PROVE  /\ family = "npm" /\ world \in Worlds["npm"]
         /\ worker.step = "visit" => NpmWalk(worker)
         /\ worker.step = "manifest" => NpmOpen(worker)
  <1>1. worker # Idle
    BY DEF Idle, None
  <1>2. worker.slot \in FamilySlots[family]
    BY <1>1 DEF HostInv, WorkerGood
  <1>3. family = "npm"
    BY <1>2 DEF HostInv, FamilySlots
  <1>4. ~CronWorker(worker) /\ ~ProcessWorker(worker)
    BY ProcessSlots DEF CronWorker
  <1>5. /\ NpmWalk(worker) => worker.step = "visit"
        /\ NpmOpen(worker) => worker.step = "manifest"
    BY DEF NpmWalk, NpmOpen
  <1> QED
    BY <1>1, <1>2, <1>3, <1>4, <1>5 DEF HostInv, WorkerGood

\* The collection goes on.
LEMMA NpmGoes ==
  ASSUME HostInv, worker.slot = "npm", NEW w, NpmWalk(w) \/ NpmOpen(w), Continue(w)
  PROVE  Outcome
  <1>1. w.slot = "npm"
    BY DEF NpmWalk, NpmOpen
  <1>2. "npm" \in FamilySlots[family]
    BY NpmRuns DEF FamilySlots
  <1>3. WorkerGood(w)
    BY <1>1, <1>2 DEF WorkerGood
  <1> QED
    BY <1>3, Zenon DEF Outcome

\* What a visit does to the walk.
Seen(w) == [w EXCEPT !.pending = Front(@), !.visited = @ + 1]
Deeper(w, more) == [w EXCEPT !.pending = @ \o more]
Told(w, ds) == [w EXCEPT !.diagnostics = @ \cup ds]
Stopped(w, ds) == [w EXCEPT !.pending = <<>>, !.diagnostics = @ \cup ds]
Found(w, p) == [w EXCEPT !.projects = Append(@, p)]

\* None of it touches the projects.
LEMMA WalkSteps ==
  ASSUME NEW w, NpmWalk(w), NEW more, NEW ds
  PROVE  /\ NpmWalk(Seen(w)) /\ NpmWalk(Deeper(w, more)) /\ NpmWalk(Told(w, ds)) /\ NpmWalk(Stopped(w, ds))
  <1>1. PICK pd, n, ps, d :
          /\ w = [slot |-> "npm", step |-> "visit", pending |-> pd, visited |-> n, projects |-> ps, diagnostics |-> d]
          /\ ProjectsGood(ps)
    BY Zenon DEF NpmWalk
  <1>2. NpmWalk(Seen(w))
    <2>1. Seen(w) = [[slot |-> "npm", step |-> "visit", pending |-> pd, visited |-> n, projects |-> ps,
                      diagnostics |-> d] EXCEPT !.pending = Front(@), !.visited = @ + 1]
      BY <1>1 DEF Seen
    <2>2. Seen(w) = [slot |-> "npm", step |-> "visit", pending |-> Front(pd), visited |-> n + 1,
                     projects |-> ps, diagnostics |-> d]
      BY <2>1
    <2> QED
      BY <1>1, <2>2, Zenon DEF NpmWalk
  <1>3. NpmWalk(Deeper(w, more))
    <2>1. Deeper(w, more) = [[slot |-> "npm", step |-> "visit", pending |-> pd, visited |-> n, projects |-> ps,
                              diagnostics |-> d] EXCEPT !.pending = @ \o more]
      BY <1>1 DEF Deeper
    <2>2. Deeper(w, more) = [slot |-> "npm", step |-> "visit", pending |-> pd \o more, visited |-> n,
                             projects |-> ps, diagnostics |-> d]
      BY <2>1
    <2> QED
      BY <1>1, <2>2, Zenon DEF NpmWalk
  <1>4. NpmWalk(Told(w, ds))
    <2>1. Told(w, ds) = [[slot |-> "npm", step |-> "visit", pending |-> pd, visited |-> n, projects |-> ps,
                          diagnostics |-> d] EXCEPT !.diagnostics = @ \cup ds]
      BY <1>1 DEF Told
    <2>2. Told(w, ds) = [slot |-> "npm", step |-> "visit", pending |-> pd, visited |-> n, projects |-> ps,
                         diagnostics |-> d \cup ds]
      BY <2>1
    <2> QED
      BY <1>1, <2>2, Zenon DEF NpmWalk
  <1>5. NpmWalk(Stopped(w, ds))
    <2>1. Stopped(w, ds) = [[slot |-> "npm", step |-> "visit", pending |-> pd, visited |-> n, projects |-> ps,
                             diagnostics |-> d] EXCEPT !.pending = <<>>, !.diagnostics = @ \cup ds]
      BY <1>1 DEF Stopped
    <2>2. Stopped(w, ds) = [slot |-> "npm", step |-> "visit", pending |-> <<>>, visited |-> n, projects |-> ps,
                            diagnostics |-> d \cup ds]
      BY <2>1
    <2> QED
      BY <1>1, <2>2, Zenon DEF NpmWalk
  <1> QED
    BY <1>2, <1>3, <1>4, <1>5

\* A good project is added.
LEMMA FoundGood ==
  ASSUME NEW w, NpmWalk(w), NEW p, ProjectGood(p)
  PROVE  NpmWalk(Found(w, p))
  <1>1. PICK pd, n, ps, d :
          /\ w = [slot |-> "npm", step |-> "visit", pending |-> pd, visited |-> n, projects |-> ps, diagnostics |-> d]
          /\ ProjectsGood(ps)
    BY Zenon DEF NpmWalk
  <1>2. PICK S : ps \in Seq(S)
    BY <1>1 DEF ProjectsGood
  <1>3. ps \in Seq(S \cup {p})
    BY <1>2
  <1>4. /\ Append(ps, p) \in Seq(S \cup {p})
        /\ \A i \in DOMAIN Append(ps, p) : Append(ps, p)[i] = p \/ (i \in DOMAIN ps /\ Append(ps, p)[i] = ps[i])
    BY <1>3
  <1>5. ProjectsGood(Append(ps, p))
    <2>1. \A i \in DOMAIN Append(ps, p) : ProjectGood(Append(ps, p)[i])
      BY <1>1, <1>4 DEF ProjectsGood
    <2> QED
      BY <1>4, <2>1, Zenon DEF ProjectsGood
  <1>6. Found(w, p) = [[slot |-> "npm", step |-> "visit", pending |-> pd, visited |-> n, projects |-> ps,
                        diagnostics |-> d] EXCEPT !.projects = Append(@, p)]
    BY <1>1 DEF Found
  <1>7. Found(w, p) = [slot |-> "npm", step |-> "visit", pending |-> pd, visited |-> n,
                       projects |-> Append(ps, p), diagnostics |-> d]
    BY <1>6
  <1> QED
    BY <1>5, <1>7, Zenon DEF NpmWalk

\* The start of the walk, or none without a root.
LEMMA NpmStartKeeps ==
  ASSUME HostInv, NpmStart
  PROVE  Outcome
  <1> DEFINE w == [slot |-> "npm", step |-> "visit", pending |-> <<<<>>>>, visited |-> 0,
                   projects |-> <<>>, diagnostics |-> {}]
             o == Collected("disabled", {}, {}, {"skipped"})
  <1>1. worker.slot = "npm" /\ (Conclude(o) \/ Continue(w))
    BY Zenon DEF NpmStart, At
  <1>2. ViewGood("npm", o)
    BY DEF ViewGood, Collected
  <1>3. ProjectsGood(<<>>)
    <2>1. <<>> \in Seq({}) /\ DOMAIN <<>> = {}
      OBVIOUS
    <2> QED
      BY <2>1, Zenon DEF ProjectsGood
  <1>4. NpmWalk(w)
    BY <1>3, Zenon DEF NpmWalk
  <1> HIDE DEF w, o
  <1>5. CASE Continue(w)
    BY <1>1, <1>4, <1>5, NpmGoes
  <1>6. CASE Conclude(o)
    BY <1>1, <1>2, <1>6, Zenon DEF Outcome
  <1> QED
    BY <1>1, <1>5, <1>6

\* One directory.
LEMMA NpmVisitKeeps ==
  ASSUME HostInv, NpmVisit
  PROVE  Outcome
  <1>1. worker.slot = "npm" /\ worker.step = "visit"
    BY DEF NpmVisit, At
  <1>2. NpmWalk(worker)
    BY <1>1, NpmRuns
  <1>3. \E more, dir, lock :
          \/ Continue(Told(Seen(worker), {"skipped"}))
          \/ Continue(Deeper(Seen(worker), more))
          \/ Continue(Stopped(Deeper(Seen(worker), more), {"capped"}))
          \/ Continue([slot |-> "npm", step |-> "manifest", dir |-> dir, lockfile |-> lock,
                             walk |-> Deeper(Seen(worker), more)])
    BY Zenon DEF NpmVisit, Seen, Told, Deeper, Stopped
  <1>4. PICK more, dir, lock :
          \/ Continue(Told(Seen(worker), {"skipped"}))
          \/ Continue(Deeper(Seen(worker), more))
          \/ Continue(Stopped(Deeper(Seen(worker), more), {"capped"}))
          \/ Continue([slot |-> "npm", step |-> "manifest", dir |-> dir, lockfile |-> lock,
                             walk |-> Deeper(Seen(worker), more)])
    BY <1>3, Zenon
  <1>5. NpmWalk(Seen(worker))
    BY <1>2, WalkSteps
  <1>6. NpmWalk(Told(Seen(worker), {"skipped"})) /\ NpmWalk(Deeper(Seen(worker), more))
    BY <1>5, WalkSteps
  <1>7. NpmWalk(Stopped(Deeper(Seen(worker), more), {"capped"}))
    BY <1>6, WalkSteps
  <1>8. NpmOpen([slot |-> "npm", step |-> "manifest", dir |-> dir, lockfile |-> lock,
                 walk |-> Deeper(Seen(worker), more)])
    BY <1>6, Zenon DEF NpmOpen
  <1> QED
    BY <1>1, <1>4, <1>6, <1>7, <1>8, NpmGoes, Zenon

\* A manifest, opened beneath the root or not at all.
LEMMA NpmManifestKeeps ==
  ASSUME HostInv, NpmManifest
  PROVE  Outcome
  <1> DEFINE dir == worker.dir
             manifest == world.dirs[dir].manifest
             p == [dir |-> dir, manifest |-> manifest, dependencies |-> ManifestDependencies(manifest)]
  <1>1. worker.slot = "npm" /\ worker.step = "manifest"
    BY DEF NpmManifest, At
  <1>2. NpmOpen(worker) /\ world \in Worlds["npm"]
    BY <1>1, NpmRuns
  <1>3. NpmWalk(worker.walk)
    BY <1>2 DEF NpmOpen
  <1>4. \/ Continue(Told(worker.walk, {"skipped"}))
        \/ Continue(worker.walk)
        \/ OpensBeneath(dir) /\ Continue(Found(worker.walk, p))
    BY Zenon DEF NpmManifest, Told, Found
  <1>5. NpmWalk(Told(worker.walk, {"skipped"}))
    BY <1>3, WalkSteps
  <1>6. CASE OpensBeneath(dir) /\ Continue(Found(worker.walk, p))
    <2>1. p.dir = dir /\ p.manifest = manifest
      OBVIOUS
    <2>2. dir \in DOMAIN world.dirs /\ \A n \in 0..Len(dir) : SubSeq(dir, 1, n) \notin world.links
      BY <1>6, Zenon DEF OpensBeneath
    <2> HIDE DEF dir, p
    <2>3. ProjectGood(p)
      BY <1>2, <2>1, <2>2, Zenon DEF ProjectGood
    <2> QED
      BY <1>1, <1>3, <1>6, <2>3, FoundGood, NpmGoes
  <1> QED
    BY <1>1, <1>3, <1>4, <1>5, <1>6, NpmGoes, Zenon

\* What an id of the host's node is not.
LEMMA HostId ==
  /\ HostNode.id = <<"host_local">>
  /\ \A a, b : <<"npm_package", a, b>> # <<"host_local">>
  /\ \A a : <<"docker_container", a>> # <<"host_local">>
  <1>1. HostNode.id = <<"host_local">>
    BY DEF HostNode, Node
  <1>2. \A a, b : <<"npm_package", a, b>>[1] = "npm_package"
    OBVIOUS
  <1>3. \A a : <<"docker_container", a>>[1] = "docker_container"
    OBVIOUS
  <1>4. <<"host_local">>[1] = "host_local"
    OBVIOUS
  <1> QED
    BY <1>1, <1>2, <1>3, <1>4

\* The fields of a node and of a collection.
LEMMA NodeFields ==
  ASSUME NEW a, NEW b, NEW c, NEW d
  PROVE  /\ Node(a, b, c).origin = b /\ Node(a, b, c).of = c
         /\ Collected(a, b, c, d).state = a /\ Collected(a, b, c, d).nodes = b
         /\ Collected(a, b, c, d).edges = c /\ Collected(a, b, c, d).diagnostics = d
  BY DEF Node, Collected

\* The projects and their packages.
LEMMA NpmFinishKeeps ==
  ASSUME HostInv, NpmFinish
  PROVE  Outcome
  <1> DEFINE projects == worker.projects
             Id(p) == ProjectId(projects[p].dir, p)
             Package(k) == PackageId(projects[k[1]].dependencies[k[2]], k[2])
             declared == UNION {{<<p, d>> : d \in DOMAIN projects[p].dependencies} : p \in DOMAIN projects}
             ps == {Node(Id(p), "project", projects[p]) : p \in DOMAIN projects}
             ks == {Node(Package(k), "package", k) : k \in declared}
             es == {[source |-> Id(k[1]), target |-> Package(k), rel |-> "depends_on"] : k \in declared}
             rs == IF Restricted THEN {} ELSE {RunsOnHost(Id(p)) : p \in DOMAIN projects}
             ds == worker.diagnostics \cup (IF worker.pending # <<>> THEN {"capped"} ELSE {})
             o == Collected("fresh", ps \cup ks, es \cup rs, ds)
  <1>1. worker.slot = "npm" /\ worker.step = "visit"
    BY DEF NpmFinish, At
  <1>2. Conclude(o)
    BY Zenon DEF NpmFinish
  <1>3. NpmWalk(worker)
    BY <1>1, NpmRuns
  <1>4. \A p \in DOMAIN projects : ProjectGood(projects[p])
    BY <1>3 DEF NpmWalk, ProjectsGood
  <1>5. \A n \in ps : n.origin = "project" /\ ProjectGood(n.of)
    <2> HIDE DEF Id
    <2> TAKE n \in ps
    <2>1. PICK p \in DOMAIN projects : n = Node(Id(p), "project", projects[p])
      OBVIOUS
    <2>2. n.origin = "project" /\ n.of = projects[p]
      BY <2>1, NodeFields
    <2> QED
      BY <1>4, <2>1, <2>2
  <1>6. \A n \in ks : n.origin = "package"
    <2> HIDE DEF Package, declared
    <2> TAKE n \in ks
    <2>1. PICK k \in declared : n = Node(Package(k), "package", k)
      OBVIOUS
    <2> QED
      BY <2>1, NodeFields
  <1>7. \A e \in es : e.target # HostNode.id
    <2>1. \A k : Package(k) # HostNode.id
      BY HostId DEF PackageId
    <2> HIDE DEF Package, declared, Id
    <2> TAKE e \in es
    <2>2. PICK k \in declared : e = [source |-> Id(k[1]), target |-> Package(k), rel |-> "depends_on"]
      OBVIOUS
    <2>3. e.target = Package(k)
      BY <2>2
    <2> QED
      BY <2>1, <2>3
  <1>8. Restricted => rs = {}
    OBVIOUS
  <1> HIDE DEF ps, ks, es, rs, ds
  <1>9. o.nodes = ps \cup ks /\ o.edges = es \cup rs
    BY NodeFields
  <1> HIDE DEF o
  <1>10. ViewGood("npm", o)
    BY <1>5, <1>6, <1>7, <1>8, <1>9 DEF ViewGood
  <1> QED
    BY <1>1, <1>2, <1>10, Zenon DEF Outcome

\* The network: in a restricted namespace only Docker's containers.
LEMMA NetworkKeeps ==
  ASSUME HostInv, Network
  PROVE  Outcome
  <1>1. worker.slot = "network"
    BY DEF Network, At
  <1> DEFINE cs == NetworkContainers
             es == {[source |-> n.id, target |-> <<"docker_container", n.of>>, rel |-> "related_to"] : n \in cs}
  <1>2. \E hs, ds : Conclude(Collected("fresh", cs \cup (IF Restricted THEN {} ELSE hs), es, ds))
    BY Zenon DEF Network
  <1>3. PICK hs, ds : Conclude(Collected("fresh", cs \cup (IF Restricted THEN {} ELSE hs), es, ds))
    BY <1>2, Zenon
  <1> DEFINE o == Collected("fresh", cs \cup (IF Restricted THEN {} ELSE hs), es, ds)
  <1>4. \A n \in cs : n.origin = "docker"
    <2> TAKE n \in cs
    <2>1. PICK c \in ToSet(world.containers) :
            n \in {Node(<<product, "container", c.id>>, "docker", c.id) : product \in c.products}
      BY DEF NetworkContainers
    <2>2. PICK product \in c.products : n = Node(<<product, "container", c.id>>, "docker", c.id)
      BY <2>1
    <2> QED
      BY <2>2, NodeFields
  <1>5. \A e \in es : e.target # HostNode.id
    <2> TAKE e \in es
    <2>1. PICK n \in cs : e = [source |-> n.id, target |-> <<"docker_container", n.of>>, rel |-> "related_to"]
      OBVIOUS
    <2>2. e.target = <<"docker_container", n.of>>
      BY <2>1
    <2> QED
      BY <2>2, HostId
  <1> HIDE DEF cs, es
  <1>6. /\ Restricted => o.nodes = cs
        /\ o.edges = es
    <2> DEFINE ns == cs \cup (IF Restricted THEN {} ELSE hs)
    <2>1. Restricted => ns = cs
      OBVIOUS
    <2> HIDE DEF ns
    <2>2. o = Collected("fresh", ns, es, ds)
      BY DEF ns
    <2>3. o.nodes = ns /\ o.edges = es
      <3> HIDE DEF o
      <3> QED
        BY <2>2, NodeFields
    <2> QED
      BY <2>1, <2>3
  <1> HIDE DEF o
  <1>7. ViewGood("network", o)
    BY <1>4, <1>5, <1>6 DEF ViewGood
  <1> QED
    BY <1>1, <1>3, <1>7, Zenon DEF Outcome, o

\* A slot of the host alone never runs in a restricted namespace.
LEMMA HostSlots ==
  ASSUME HostInv, worker.slot \in {"python", "native", "systemd", "tmux", "host_scoped"}
  PROVE  /\ ~Restricted /\ worker.slot \in FamilySlots[family]
         /\ worker.slot \in {"python", "native"} =>
              /\ family = "processes" /\ world \in Worlds["processes"]
              /\ worker.step = "start" \/ ProcessWorker(worker)
  <1>1. worker # Idle
    BY DEF Idle, None
  <1>2. worker.slot \in FamilySlots[family] /\ ~Restricted
    BY <1>1 DEF HostInv, WorkerGood
  <1>3. worker.slot \in {"python", "native"} => family = "processes"
    BY <1>2 DEF HostInv, FamilySlots
  <1>4. ~CronWorker(worker) /\ ~NpmWalk(worker) /\ ~NpmOpen(worker)
    BY DEF CronWorker, NpmWalk, NpmOpen
  <1> QED
    BY <1>1, <1>2, <1>3, <1>4 DEF HostInv, WorkerGood

\* systemd, tmux and the host's own slot: whatever they end with is the host's.
LEMMA HostSlotsKeep ==
  ASSUME HostInv, worker.slot \in {"systemd", "tmux", "host_scoped"}, NEW o, Conclude(o)
  PROVE  Outcome
  <1>1. ViewGood(worker.slot, o)
    BY HostSlots DEF ViewGood
  <1> QED
    BY <1>1, Zenon DEF Outcome

\* Every step of systemd, tmux and the host's own slot.
LEMMA OthersKeep ==
  ASSUME HostInv,
         \/ ListUnits \/ ShowUnits \/ ShowNothing \/ SystemctlFails
         \/ ListSessions \/ ListSessionsTimesOut \/ HostScoped
  PROVE  Outcome
  <1>1. worker.slot \in {"systemd", "tmux", "host_scoped"}
    BY DEF ListUnits, ShowUnits, ShowNothing, SystemctlFails,
           ListSessions, ListSessionsTimesOut, HostScoped, At
  <1>2. CASE ListUnits
    <2>1. worker.slot = "systemd" /\ \E a, l : Continue([slot |-> "systemd", step |-> "show", all |-> a, listed |-> l])
      BY <1>2, Zenon DEF ListUnits, At
    <2>2. PICK a, l : Continue([slot |-> "systemd", step |-> "show", all |-> a, listed |-> l])
      BY <2>1, Zenon
    <2>3. WorkerGood([slot |-> "systemd", step |-> "show", all |-> a, listed |-> l])
      <3>1. PICK w : w = [slot |-> "systemd", step |-> "show", all |-> a, listed |-> l]
        OBVIOUS
      <3>2. w.slot = "systemd"
        BY <3>1
      <3>3. WorkerGood(w)
        BY <2>1, <3>2, HostSlots DEF WorkerGood
      <3> QED
        BY <3>1, <3>3
    <2> QED
      BY <2>2, <2>3, Zenon DEF Outcome
  <1>3. CASE ShowUnits \/ ShowNothing \/ SystemctlFails
    <2>1. \E o : Conclude(o)
      BY <1>3, Zenon DEF ShowUnits, ShowNothing, SystemctlFails, CommandFails
    <2> QED
      BY <1>1, <2>1, HostSlotsKeep
  <1>4. CASE ListSessions \/ ListSessionsTimesOut \/ HostScoped
    <2>1. \E o : Conclude(o)
      BY <1>4, Zenon DEF ListSessions, ListSessionsTimesOut, CommandFails, HostScoped
    <2> QED
      BY <1>1, <2>1, HostSlotsKeep
  <1> QED
    BY <1>2, <1>3, <1>4

\* The library's cardinality is the one of the collectors' module.
LEMMA HostsCardinality ==
  ASSUME NEW S
  PROVE  Cardinality(S) = Cardinality(S)
  BY DEF Cardinality, Cardinality

\* Within the limit nothing is cut.
LEMMA FirstOfAll ==
  ASSUME NEW found, IsFiniteSet(found), found \subseteq Nat, NEW limit \in Nat, ~Capped(found, limit)
  PROVE  FirstOf(found, limit) = found
  <1>1. Cardinality(found) \in Nat /\ Cardinality(found) <= limit
    BY FS_CardinalityType, HostsCardinality DEF Capped
  <1>2. ASSUME NEW i \in found
        PROVE  Cardinality({j \in found : j < i}) < limit
    <2> DEFINE T == {j \in found : j < i}
    <2>1. T \subseteq found /\ T # found
      OBVIOUS
    <2> HIDE DEF T
    <2>2. /\ IsFiniteSet(T) /\ Cardinality(T) <= Cardinality(found)
          /\ Cardinality(T) # Cardinality(found)
      BY <2>1, FS_Subset
    <2>3. Cardinality(T) \in Nat
      BY <2>2, FS_CardinalityType
    <2>4. Cardinality(T) < limit
      BY <1>1, <2>2, <2>3
    <2>5. Cardinality(T) < limit
      BY <2>4, HostsCardinality
    <2> QED
      BY <2>5 DEF T
  <1> QED
    BY <1>2 DEF FirstOf

\* A pid whose process is no container's: whatever has it now is the host's.
LEMMA OwnedByHost ==
  ASSUME family = "processes", world \in Worlds["processes"], Living(world) \subseteq lived,
         NEW pid, ~ContainerOwned(pid)
  PROVE  HostPid(pid, lived)
  <1>1. PICK j \in DOMAIN world.procs :
          /\ world.procs[j].pid = pid /\ world.procs[j].cgroup # "unreadable"
          /\ ~ImpliesContainer(world.procs[j].cgroup)
    BY Zenon DEF ContainerOwned
  <1>2. world.procs[j] \in ToSet(world.procs)
    BY DEF ToSet
  <1>3. world.procs[j] \in AnyProcess
    BY <1>2 DEF AnyProcess
  <1>4. HostImage(world.procs[j].image)
    BY <1>1, <1>3, ProcessesAssumption, Zenon DEF HostImage
  <1>5. <<pid, world.procs[j].image>> \in lived
    BY <1>1, <1>2 DEF Living
  <1> QED
    BY <1>4, <1>5 DEF HostPid

\* A listing that was not cut is that of every process.
LEMMA WholeListing ==
  ASSUME NEW out \in PsOutputs, ~out.truncated
  PROVE  CompleteLines(out) = world.procs
  <1> DEFINE whole == world.procs
             Cut(n, k) == Append(Take(whole, n - 1), [whole[n] EXCEPT !.args = Take(@, k)])
             A == {[lines |-> whole, truncated |-> FALSE, ended |-> TRUE]}
             B == {[lines |-> Take(whole, n), truncated |-> TRUE, ended |-> TRUE] : n \in 0..Len(whole) - 1}
             C(n) == {[lines |-> Cut(n, k), truncated |-> TRUE, ended |-> FALSE] : k \in 0..Len(whole[n].args)}
  <1>1. out \in A \cup B \cup UNION {C(n) : n \in DOMAIN whole}
    BY Zenon DEF PsOutputs
  <1>2. \A x \in B : x.truncated
    <2> HIDE DEF whole
    <2> QED
      OBVIOUS
  <1>3. \A n : \A x \in C(n) : x.truncated
    <2> HIDE DEF Cut, whole
    <2> QED
      OBVIOUS
  <1>4. \A x \in A : x.lines = whole /\ ~x.truncated
    OBVIOUS
  <1> HIDE DEF A, B, C
  <1>5. out \in A
    BY <1>1, <1>2, <1>3
  <1> QED
    BY <1>4, <1>5 DEF CompleteLines

\* Every row that is read is that of a process.
LEMMA RowsOfHost ==
  ASSUME world \in Worlds["processes"], NEW out \in PsOutputs
  PROVE  /\ DOMAIN CompleteLines(out) \subseteq Nat
         /\ \A i \in DOMAIN CompleteLines(out) : CompleteLines(out)[i] \in ToSet(world.procs)
  <1> DEFINE whole == world.procs
             Cut(n, k) == Append(Take(whole, n - 1), [whole[n] EXCEPT !.args = Take(@, k)])
             A == {[lines |-> whole, truncated |-> FALSE, ended |-> TRUE]}
             B == {[lines |-> Take(whole, n), truncated |-> TRUE, ended |-> TRUE] : n \in 0..Len(whole) - 1}
             C(n) == {[lines |-> Cut(n, k), truncated |-> TRUE, ended |-> FALSE] : k \in 0..Len(whole[n].args)}
  <1>0. whole \in Seq(AnyProcess)
    BY ProcessesAssumption
  <1>1. out \in A \cup B \cup UNION {C(n) : n \in DOMAIN whole}
    BY Zenon DEF PsOutputs
  <1>2. \E m \in 0..Len(whole) : CompleteLines(out) = SubSeq(whole, 1, m)
    <2> HIDE DEF whole
    <2>1. CASE out \in A
      <3>1. CompleteLines(out) = whole
        BY <2>1 DEF CompleteLines
      <3>2. whole = SubSeq(whole, 1, Len(whole)) /\ Len(whole) \in 0..Len(whole)
        BY <1>0
      <3> QED
        BY <3>1, <3>2
    <2>2. CASE out \in B
      <3>1. PICK n \in 0..Len(whole) - 1 : out = [lines |-> Take(whole, n), truncated |-> TRUE, ended |-> TRUE]
        BY <2>2
      <3>2. CompleteLines(out) = Take(whole, n)
        BY <3>1 DEF CompleteLines
      <3>3. n \in 0..Len(whole) /\ Take(whole, n) = SubSeq(whole, 1, n)
        BY <1>0, <3>1 DEF Take
      <3> QED
        BY <3>2, <3>3
    <2>3. ASSUME NEW n \in DOMAIN whole, out \in C(n)
          PROVE  \E m \in 0..Len(whole) : CompleteLines(out) = SubSeq(whole, 1, m)
      <3>0. PICK k : out = [lines |-> Cut(n, k), truncated |-> TRUE, ended |-> FALSE]
        <4> HIDE DEF Cut
        <4> QED
          BY <2>3
      <3>1. PICK x : out.lines = Append(Take(whole, n - 1), x) /\ out.truncated /\ ~out.ended
        BY <3>0
      <3>2. n \in 1..Len(whole)
        BY <1>0, <2>3
      <3>3. Take(whole, n - 1) = SubSeq(whole, 1, n - 1)
        BY <1>0, <3>2 DEF Take
      <3> DEFINE t == SubSeq(whole, 1, n - 1)
      <3>4. \E S : x \in S /\ t \in Seq(S)
        <4>1. t \in Seq(AnyProcess \cup {x})
          BY <1>0, <3>2
        <4> QED
          BY <4>1
      <3> HIDE DEF t
      <3>5. Front(Append(t, x)) = t
        BY <3>4 DEF Front
      <3>6. CompleteLines(out) = t
        BY <3>1, <3>3, <3>5 DEF CompleteLines, t
      <3> QED
        BY <1>0, <3>2, <3>6 DEF t
    <2> QED
      BY <1>1, <2>1, <2>2, <2>3
  <1>3. PICK m \in 0..Len(whole) : CompleteLines(out) = SubSeq(whole, 1, m)
    BY <1>2
  <1>4. /\ DOMAIN SubSeq(whole, 1, m) = 1..m
        /\ \A i \in 1..m : SubSeq(whole, 1, m)[i] = whole[i] /\ i \in DOMAIN whole
    BY <1>0
  <1> QED
    BY <1>3, <1>4 DEF ToSet

\* ps, and its failure.
LEMMA RunPsKeeps ==
  ASSUME HostInv, RunPs \/ PsFails
  PROVE  Outcome
  <1>1. worker.slot \in {"python", "native"}
    BY DEF RunPs, PsFails, At
  <1>2. ~Restricted /\ worker.slot \in FamilySlots[family] /\ family = "processes" /\ world \in Worlds["processes"]
    BY <1>1, HostSlots
  <1>3. CASE RunPs
    <2>1. PICK output \in PsOutputs :
            LET lines == CompleteLines(output)
            IN  Continue([slot |-> worker.slot, step |-> "owners", truncated |-> output.truncated, lines |-> lines,
                          todo |-> {i \in ParsePsTable(lines) : Wanted(worker.slot, lines[i])},
                          found |-> {}, called |-> {}, comms |-> [i \in DOMAIN lines |-> lines[i].image]])
      BY <1>3, Zenon DEF RunPs
    <2>2. PICK sl, tr, ls, td, cm :
            /\ sl = worker.slot /\ tr = output.truncated /\ ls = CompleteLines(output)
            /\ td = {i \in ParsePsTable(ls) : Wanted(sl, ls[i])}
            /\ cm = [i \in DOMAIN ls |-> ls[i].image]
      OBVIOUS
    <2> DEFINE w == [slot |-> sl, step |-> "owners", truncated |-> tr, lines |-> ls, todo |-> td,
                     found |-> {}, called |-> {}, comms |-> cm]
    <2>3. Continue(w)
      BY <2>1, <2>2, Zenon
    <2>4. \A i \in DOMAIN ls : <<ls[i].pid, ls[i].image>> \in lived
      <3>1. worker # Idle
        BY <1>1 DEF Idle, None
      <3>2. \A i \in DOMAIN ls : ls[i] \in ToSet(world.procs)
        BY <1>2, <2>2, RowsOfHost
      <3>3. \A i \in DOMAIN ls : <<ls[i].pid, ls[i].image>> \in Living(world)
        BY <1>2, <3>2 DEF Living
      <3> QED
        BY <3>1, <3>3 DEF HostInv
    <2>5. DOMAIN ls \subseteq Nat
      BY <1>2, <2>2, RowsOfHost
    <2>6. ~tr => ls = world.procs
      BY <2>2, WholeListing
    <2>7. ProcessParts(sl, tr, ls, td, {}, cm)
      BY <1>1, <2>2, <2>4, <2>5, <2>6 DEF ProcessParts, ParsePsTable
    <2>8. ProcessWorker(w)
      BY <2>7, Zenon DEF ProcessWorker
    <2>9. w.slot = worker.slot
      BY <2>2
    <2> HIDE DEF w
    <2>10. WorkerGood(w)
      BY <1>2, <2>8, <2>9 DEF WorkerGood
    <2> QED
      BY <2>3, <2>10, Zenon DEF Outcome
  <1>4. CASE PsFails
    <2> DEFINE o == Collected("fresh", {}, {}, {"command"})
    <2>1. Conclude(o)
      BY <1>4, Zenon DEF PsFails
    <2>2. o.nodes = {} /\ o.diagnostics # {}
      BY DEF Collected
    <2> HIDE DEF o
    <2>3. ViewGood(worker.slot, o)
      BY <1>1, <1>2, <2>2 DEF ViewGood
    <2> QED
      BY <2>1, <2>3, Zenon DEF Outcome
  <1> QED
    BY <1>3, <1>4

\* A collection of processes that has its rows.
LEMMA ProcessesRun ==
  ASSUME HostInv, At({"python", "native"}, "owners")
  PROVE  /\ ~Restricted /\ worker.slot \in FamilySlots[family] /\ ProcessWorker(worker)
         /\ family = "processes" /\ world \in Worlds["processes"] /\ Living(world) \subseteq lived
  <1>1. worker.slot \in {"python", "native"} /\ worker.step = "owners"
    BY DEF At
  <1>2. worker # Idle
    BY <1>1 DEF Idle, None
  <1> QED
    BY <1>1, <1>2, HostSlots DEF HostInv

\* What an owner, and a name, change.
Asked(w, i, kept) == [w EXCEPT !.todo = @ \ {i}, !.found = @ \cup kept]
Called(w, i, comm) == [w EXCEPT !.called = @ \cup {i}, !.comms = [@ EXCEPT ![i] = comm]]

\* A row that passed is one of a pid of the host's.
LEMMA AskedGood ==
  ASSUME NEW w, ProcessWorker(w), NEW i \in w.todo, NEW kept,
         kept = IF ContainerOwned(w.lines[i].pid) THEN {} ELSE {i},
         ~ContainerOwned(w.lines[i].pid) => HostPid(w.lines[i].pid, lived)
  PROVE  ProcessWorker(Asked(w, i, kept)) /\ Asked(w, i, kept).slot = w.slot
  <1>1. PICK sl, tr, ls, td, fd, cd, cm :
          /\ w = [slot |-> sl, step |-> "owners", truncated |-> tr, lines |-> ls, todo |-> td, found |-> fd,
           called |-> cd, comms |-> cm]
          /\ ProcessParts(sl, tr, ls, td, fd, cm)
    BY Zenon DEF ProcessWorker
  <1>2. Asked(w, i, kept) =
          [[slot |-> sl, step |-> "owners", truncated |-> tr, lines |-> ls, todo |-> td, found |-> fd,
           called |-> cd, comms |-> cm]
             EXCEPT !.todo = @ \ {i}, !.found = @ \cup kept]
    BY <1>1 DEF Asked
  <1>3. Asked(w, i, kept) =
          [slot |-> sl, step |-> "owners", truncated |-> tr, lines |-> ls, todo |-> td \ {i}, found |-> fd \cup kept,
           called |-> cd, comms |-> cm]
    BY <1>2
  <1>4. w.lines = ls /\ w.todo = td /\ w.slot = sl
    BY <1>1
  <1>5. ProcessParts(sl, tr, ls, td \ {i}, fd \cup kept, cm)
    BY <1>1, <1>4 DEF ProcessParts
  <1>6. Asked(w, i, kept).slot = w.slot
    BY <1>3, <1>4
  <1> QED
    BY <1>3, <1>5, <1>6, Zenon DEF ProcessWorker

\* A name is that of a process that was alive.
LEMMA CalledGood ==
  ASSUME NEW w, ProcessWorker(w), NEW i \in DOMAIN w.lines, NEW comm, <<w.lines[i].pid, comm>> \in lived
  PROVE  ProcessWorker(Called(w, i, comm)) /\ Called(w, i, comm).slot = w.slot
  <1>1. PICK sl, tr, ls, td, fd, cd, cm :
          /\ w = [slot |-> sl, step |-> "owners", truncated |-> tr, lines |-> ls, todo |-> td, found |-> fd,
           called |-> cd, comms |-> cm]
          /\ ProcessParts(sl, tr, ls, td, fd, cm)
    BY Zenon DEF ProcessWorker
  <1>2. Called(w, i, comm) =
          [[slot |-> sl, step |-> "owners", truncated |-> tr, lines |-> ls, todo |-> td, found |-> fd,
           called |-> cd, comms |-> cm]
             EXCEPT !.called = @ \cup {i}, !.comms = [@ EXCEPT ![i] = comm]]
    BY <1>1 DEF Called
  <1>3. Called(w, i, comm) =
          [slot |-> sl, step |-> "owners", truncated |-> tr, lines |-> ls, todo |-> td, found |-> fd,
           called |-> cd \cup {i}, comms |-> [cm EXCEPT ![i] = comm]]
    BY <1>2
  <1>4. w.lines = ls /\ w.slot = sl
    BY <1>1
  <1>5. PICK names : names = [cm EXCEPT ![i] = comm]
    OBVIOUS
  <1>6. DOMAIN names = DOMAIN ls /\ \A k \in DOMAIN ls : <<ls[k].pid, names[k]>> \in lived
    BY <1>1, <1>4, <1>5 DEF ProcessParts
  <1>7. ProcessParts(sl, tr, ls, td, fd, names)
    BY <1>1, <1>6 DEF ProcessParts
  <1>8. Called(w, i, comm).slot = w.slot
    BY <1>3, <1>4
  <1> QED
    BY <1>3, <1>5, <1>7, <1>8, Zenon DEF ProcessWorker

\* A collection of processes that goes on.
LEMMA ProcessesGoOn ==
  ASSUME HostInv, At({"python", "native"}, "owners"), NEW w, ProcessWorker(w), w.slot = worker.slot, Continue(w)
  PROVE  Outcome
  <1>1. WorkerGood(w)
    BY ProcessesRun DEF WorkerGood
  <1> QED
    BY <1>1, Zenon DEF Outcome

\* The rows that are left, that passed and that are published are rows.
LEMMA RowsOfWorker ==
  ASSUME ProcessWorker(worker)
  PROVE  /\ DOMAIN worker.lines \subseteq Nat /\ worker.todo \subseteq DOMAIN worker.lines
         /\ Uncalled \subseteq DOMAIN worker.lines
         /\ \A i \in DOMAIN worker.lines : <<worker.lines[i].pid, worker.comms[i]>> \in lived
  <1>1. PICK sl, tr, ls, td, fd, cd, cm :
          /\ worker = [slot |-> sl, step |-> "owners", truncated |-> tr, lines |-> ls, todo |-> td, found |-> fd,
                       called |-> cd, comms |-> cm]
          /\ ProcessParts(sl, tr, ls, td, fd, cm)
    BY Zenon DEF ProcessWorker
  <1>2. worker.lines = ls /\ worker.todo = td /\ worker.found = fd /\ worker.comms = cm
    BY <1>1
  <1> QED
    BY <1>1, <1>2 DEF ProcessParts, Uncalled, Published, FirstOf

\* The owner of a row's pid.
LEMMA AskOwnerKeeps ==
  ASSUME HostInv, AskOwner
  PROVE  Outcome
  <1>1. At({"python", "native"}, "owners") /\ worker.todo # {}
    BY DEF AskOwner
  <1>2. ProcessWorker(worker)
    BY <1>1, ProcessesRun
  <1>3. PICK i, kept : i = Min(worker.todo) /\ kept = IF ContainerOwned(worker.lines[i].pid) THEN {} ELSE {i}
    OBVIOUS
  <1>4. Continue(Asked(worker, i, kept))
    BY <1>3 DEF AskOwner, Asked
  <1>5. i \in worker.todo
    <2>1. worker.todo \subseteq Nat
      BY <1>2, RowsOfWorker
    <2> QED
      BY <1>1, <1>3, <2>1, LeastPlace
  <1>6. ~ContainerOwned(worker.lines[i].pid) => HostPid(worker.lines[i].pid, lived)
    BY <1>1, ProcessesRun, OwnedByHost, Zenon
  <1>7. PICK w : w = Asked(worker, i, kept)
    OBVIOUS
  <1>8. ProcessWorker(w) /\ w.slot = worker.slot
    BY <1>2, <1>3, <1>5, <1>6, <1>7, AskedGood
  <1> QED
    BY <1>1, <1>4, <1>7, <1>8, ProcessesGoOn

\* The name of what has a row's pid.
LEMMA ReadCommKeeps ==
  ASSUME HostInv, ReadComm
  PROVE  Outcome
  <1>1. At({"python", "native"}, "owners") /\ Uncalled # {}
    BY DEF ReadComm
  <1>2. ProcessWorker(worker)
    BY <1>1, ProcessesRun
  <1>3. PICK i : i = Min(Uncalled)
    OBVIOUS
  <1>4. i \in DOMAIN worker.lines
    <2>1. Uncalled \subseteq DOMAIN worker.lines /\ DOMAIN worker.lines \subseteq Nat
      BY <1>2, RowsOfWorker
    <2>2. PICK T : T = Uncalled
      OBVIOUS
    <2>3. Min(T) \in T
      BY <1>1, <2>1, <2>2, LeastPlace
    <2> QED
      BY <1>3, <2>1, <2>2, <2>3
  <1> DEFINE now == {p.image : p \in {q \in ToSet(world.procs) : q.pid = worker.lines[i].pid}}
  <1>5. PICK comm \in IF now = {} THEN {worker.comms[i]} ELSE now : Continue(Called(worker, i, comm))
    BY <1>3, Zenon DEF ReadComm, Called
  <1>6. <<worker.lines[i].pid, comm>> \in lived
    <2>1. CASE now = {}
      BY <1>2, <1>4, <1>5, <2>1, RowsOfWorker
    <2>2. CASE now # {}
      <3>1. PICK p \in ToSet(world.procs) : p.pid = worker.lines[i].pid /\ p.image = comm
        BY <1>5, <2>2
      <3>2. <<p.pid, p.image>> \in Living(world)
        BY <1>1, ProcessesRun DEF Living
      <3> QED
        BY <1>1, <3>1, <3>2, ProcessesRun
    <2> QED
      BY <2>1, <2>2
  <1> HIDE DEF now
  <1>7. PICK w : w = Called(worker, i, comm)
    OBVIOUS
  <1>8. ProcessWorker(w) /\ w.slot = worker.slot
    BY <1>2, <1>4, <1>6, <1>7, CalledGood
  <1> QED
    BY <1>1, <1>5, <1>7, <1>8, ProcessesGoOn

\* The step that publishes processes.
LEMMA PublishKeeps ==
  ASSUME HostInv, PublishProcesses
  PROVE  Outcome
  <1>1. At({"python", "native"}, "owners") /\ worker.todo = {}
    BY DEF PublishProcesses
  <1>2. PICK sl, tr, ls, td, fd, cd, cm :
          /\ worker = [slot |-> sl, step |-> "owners", truncated |-> tr, lines |-> ls, todo |-> td, found |-> fd,
                       called |-> cd, comms |-> cm]
          /\ ProcessParts(sl, tr, ls, td, fd, cm)
    BY <1>1, ProcessesRun, Zenon DEF ProcessWorker
  <1>3. /\ worker.slot = sl /\ worker.truncated = tr /\ worker.lines = ls /\ worker.found = fd
        /\ worker.comms = cm /\ td = {}
    BY <1>1, <1>2
  <1>4. PICK limit : limit = Limits[sl]
    OBVIOUS
  <1> DEFINE Process(i) == [pid |-> ls[i].pid, image |-> ls[i].image, args |-> ls[i].args, comm |-> cm[i],
                            during |-> lived]
             Shows(i) == Node(<<sl, ls[i].pid>>, "host", Process(i))
             nodes == {Shows(i) : i \in FirstOf(fd, limit)}
             ds == {d \in {"capped", "truncated"} : \/ d = "capped" /\ Capped(fd, limit)
                                                    \/ d = "truncated" /\ tr}
             o == Collected("fresh", nodes, {}, ds)
  <1>5. Conclude(o)
    BY <1>3, <1>4, Zenon DEF PublishProcesses, Published
  <1>6. \A i : /\ Shows(i).of.pid = ls[i].pid /\ Shows(i).of.during = lived
               /\ Shows(i).of.image = ls[i].image /\ Shows(i).of.comm = cm[i]
    <2>1. \A i : /\ Process(i).pid = ls[i].pid /\ Process(i).during = lived
                 /\ Process(i).image = ls[i].image /\ Process(i).comm = cm[i]
      OBVIOUS
    <2> HIDE DEF Process
    <2>2. \A i : Shows(i).of = Process(i)
      BY NodeFields
    <2> HIDE DEF Shows
    <2> QED
      BY <2>1, <2>2
  <1> HIDE DEF Shows
  <1>7. ASSUME NEW n \in nodes
        PROVE  ProcessGood(n.of)
    <2>1. PICK i \in FirstOf(fd, limit) : n = Shows(i)
      BY <1>7
    <2>2. i \in fd /\ i \in DOMAIN ls
      BY <1>2, <2>1 DEF FirstOf, ProcessParts
    <2>3. /\ HostPid(ls[i].pid, lived)
          /\ <<ls[i].pid, ls[i].image>> \in lived /\ <<ls[i].pid, cm[i]>> \in lived
      BY <1>2, <2>2, Zenon DEF ProcessParts
    <2>4. /\ n.of.pid = ls[i].pid /\ n.of.during = lived /\ n.of.image = ls[i].image /\ n.of.comm = cm[i]
      BY <1>6, <2>1
    <2> QED
      BY <2>3, <2>4 DEF ProcessGood
  <1>8. ASSUME changes = 0, ds = {}
        PROVE  Complete(sl, nodes)
    <2>1. ~Capped(fd, limit) /\ ~tr
      BY <1>8
    <2>2. /\ ls = world.procs
          /\ \A i \in ParsePsTable(ls) : (Wanted(sl, ls[i]) /\ ~ContainerOwned(ls[i].pid)) => i \in fd
      BY <1>2, <1>3, <1>8, <2>1 DEF ProcessParts
    <2>3. world \in Worlds["processes"] /\ world.procs \in Seq(AnyProcess)
      BY <1>1, ProcessesRun, ProcessesAssumption
    <2>4. sl \in {"python", "native"} /\ fd \subseteq DOMAIN ls
      BY <1>2 DEF ProcessParts
    <2>5. IsFiniteSet(fd) /\ fd \subseteq Nat
      <3>1. Len(world.procs) \in Nat /\ fd \in SUBSET (1..Len(world.procs))
        BY <2>2, <2>3, <2>4
      <3>2. IsFiniteSet(1..Len(world.procs))
        BY <3>1, FS_Interval
      <3>3. IsFiniteSet(fd)
        BY <3>1, <3>2, FS_Subset, Zenon
      <3> QED
        BY <3>1, <3>3
    <2>6. limit \in Nat
      BY <1>4, <2>4, ProvidersAssumption
    <2>7. FirstOf(fd, limit) = fd
      BY <2>1, <2>5, <2>6, FirstOfAll
    <2>8. ASSUME NEW p \in ToSet(world.procs), p.cgroup = "/user.slice", p.program = sl, p.pid # world.self
          PROVE  \E n \in nodes : n.of.pid = p.pid
      <3>1. PICK i \in DOMAIN world.procs : p = world.procs[i]
        BY DEF ToSet
      <3>2. p \in AnyProcess
        BY <2>3, <2>8 DEF AnyProcess
      <3>3. Wanted(sl, p)
        BY <2>4, <2>8, <3>2, ProgramsAssumption DEF Wanted
      <3>4. ~ContainerOwned(p.pid)
        BY <2>8, <3>1 DEF ContainerOwned, ImpliesContainer
      <3>5. i \in ParsePsTable(world.procs)
        BY <3>1, <3>2, ProcessesAssumption DEF ParsePsTable
      <3>6. i \in fd
        BY <2>2, <3>1, <3>3, <3>4, <3>5
      <3>7. Shows(i) \in nodes
        BY <2>7, <3>6
      <3>8. Shows(i).of.pid = p.pid
        BY <1>6, <2>2, <3>1
      <3> QED
        BY <3>7, <3>8
    <2> HIDE DEF nodes
    <2> QED
      BY <2>8 DEF Complete
  <1> HIDE DEF nodes, ds
  <1>9. o.nodes = nodes /\ o.diagnostics = ds
    BY NodeFields
  <1> HIDE DEF o
  <1>10. ViewGood(sl, o)
    BY <1>1, <1>2, <1>7, <1>8, <1>9, ProcessesRun DEF ViewGood, ProcessParts
  <1> QED
    BY <1>3, <1>5, <1>10, Zenon DEF Outcome

\* At first nothing is collected.
LEMMA HostInitial ==
  ASSUME HostsInit
  PROVE  HostInv
  <1>1. worker = Idle /\ changes = 0 /\ views = [s \in FamilySlots[family] |-> Nothing]
    BY DEF HostsInit
  <1>2. \A s : ViewGood(s, Nothing)
    BY DEF ViewGood, Nothing
  <1>3. WorkerGood(worker)
    BY <1>1 DEF WorkerGood
  <1> QED
    BY <1>1, <1>2, <1>3 DEF HostInv, HostsInit

\* Every step of the collectors, of the host and of the daemon keeps the invariant.
LEMMA HostStep ==
  ASSUME HostInv, [HostsNext]_hostsVars
  PROVE  HostInv'
  <1>1. CASE Collection
    <2>1. Outcome
      BY <1>1, RunPsKeeps, AskOwnerKeeps, ReadCommKeeps, PublishKeeps, OthersKeep, CronKeeps, NpmStartKeeps, NpmVisitKeeps, NpmManifestKeeps,
         NpmFinishKeeps, NetworkKeeps DEF Collection
    <2> QED
      BY <1>1, <2>1, CollectionRuns, OutcomeKeeps
  <1>2. CASE UNCHANGED hostsVars
    BY <1>2, RestKeeps DEF hostsVars
  <1>3. CASE Change
    BY <1>3, RestKeeps DEF Change
  <1>4. ASSUME NEW s, Start(s)
        PROVE  HostInv'
    BY <1>4, StartKeeps
  <1>5. CASE Main
    BY <1>5, RestKeeps DEF Main
  <1>6. ASSUME NEW r, Route(r)
        PROVE  HostInv'
    BY <1>6, RestKeeps DEF Route
  <1> QED
    BY <1>1, <1>2, <1>3, <1>4, <1>5, <1>6, Zenon DEF HostsNext, Collection

\* Only the value "host" opens the host.
LEMMA OnlyHostOpens == env.pidNamespace # "host" => Restricted
  BY DEF Restricted, PidNamespaceMode, None

\* Nothing of the daemon's own namespace is shown as the host's; and what is shown of a process
\* was alive under its pid while it was collected, and so was a process of the host's own: in
\* whatever order ps, the owners, the names and the host's changes come, a container's process
\* surfaces only when its pid changes hands in between (pid_namespace.rs, collect_provider_slot,
\* is_container_owned, real_comm).
THEOREM HostShownIsHost == HostsSpec => []HostShowsItself
  <1>1. HostInv => HostShowsItself
    <2> SUFFICES ASSUME HostInv
                 PROVE  HostShowsItself
      OBVIOUS
    <2>1. ASSUME env.pidNamespace # "host", NEW s \in DOMAIN views
          PROVE  /\ \A n \in views[s].nodes : n.origin \in {"docker", "project", "package"}
                 /\ \A e \in views[s].edges : e.target # HostNode.id
      <3>1. ViewGood(s, views[s]) /\ Restricted
        BY <2>1, OnlyHostOpens DEF HostInv
      <3> QED
        BY <3>1, Zenon DEF ViewGood
    <2>2. ASSUME NEW s \in {"python", "native"}, NEW n \in Shown(s)
          PROVE  ProcessGood(n.of)
      <3>1. s \in DOMAIN views /\ n \in views[s].nodes
        BY <2>2 DEF Shown
      <3>2. ViewGood(s, views[s])
        BY <3>1 DEF HostInv
      <3> QED
        BY <3>1, <3>2 DEF ViewGood
    <2>3. \A n \in Shown("python") \cup Shown("native") :
            /\ \E p \in n.of.during : p[1] = n.of.pid /\ HostImage(p[2])
            /\ \A image \in {n.of.image, n.of.comm} : <<n.of.pid, image>> \in n.of.during
      BY <2>2, Zenon DEF ProcessGood, HostPid
    <2> QED
      BY <2>1, <2>3, Zenon DEF HostShowsItself
  <1> QED
    BY <1>1, HostInitial, HostStep, PTL DEF HostsSpec

\* Collections of an unchanged host that say nothing show all of its own processes
\* (parse_ps_table, complete_provider_lines, the slots' limits).
THEOREM QuietCollectionIsComplete == HostsSpec => []QuietIsComplete
  <1>1. HostInv => QuietIsComplete
    <2> SUFFICES ASSUME HostInv, family = "processes", changes = 0,
                        \A s \in DOMAIN views : views[s].state = "fresh" /\ views[s].diagnostics = {},
                        NEW p \in ToSet(world.procs), p.cgroup = "/user.slice",
                        p.program \in DOMAIN views, p.pid # world.self
                 PROVE  \E n \in Shown(p.program) : n.of.pid = p.pid
      BY Zenon DEF QuietIsComplete
    <2>1. p.program \in {"python", "native"}
      BY DEF HostInv, FamilySlots
    <2>2. ViewGood(p.program, views[p.program])
      BY DEF HostInv
    <2>3. Complete(p.program, views[p.program].nodes)
      BY <2>1, <2>2 DEF ViewGood
    <2>4. \E n \in views[p.program].nodes : n.of.pid = p.pid
      BY <2>3 DEF Complete
    <2> QED
      BY <2>4 DEF Shown
  <1> QED
    BY <1>1, HostInitial, HostStep, PTL DEF HostsSpec

\* No file is read that was not checked, whatever takes its name's place between the check, the
\* open and the read (cron.rs, read_package_manifest_beneath).
THEOREM CheckedFilesAreRead == HostsSpec => []FilesReadAsChecked
  <1>1. HostInv => JobsOfCheckedFiles
    <2> SUFFICES ASSUME HostInv, NEW n \in Shown("cron"), n.of.source # "user crontab"
                 PROVE  /\ n.of.source # Crontab =>
                             \E w \in Worlds["cron"] : n.of.source \in ToSet(w.cronD) /\ Len(w.cronD) <= Limits.cronEntries
                        /\ \E w \in Worlds["cron"] :
                             /\ n.of.source \in DOMAIN w.files
                             /\ LET file == w.files[n.of.source]
                                IN  /\ file.form = "regular" /\ ~file.large
                                    /\ n.of.line \in DOMAIN file.lines /\ file.lines[n.of.line] = n.of.text
      BY Zenon DEF JobsOfCheckedFiles
    <2>1. "cron" \in DOMAIN views /\ n \in views["cron"].nodes
      BY DEF Shown
    <2>2. ViewGood("cron", views["cron"])
      BY <2>1 DEF HostInv
    <2>3. JobGood(n.of)
      BY <2>1, <2>2 DEF ViewGood
    <2>4. PICK f : FileGood(n.of.source, f) /\ ~f.large /\ n.of.line \in DOMAIN f.lines /\ f.lines[n.of.line] = n.of.text
      BY <2>3, Zenon DEF JobGood
    <2>5. PathGood(n.of.source)
      BY <2>3, Zenon DEF JobGood
    <2> QED
      BY <2>4, <2>5 DEF FileGood, PathGood
  <1>2. HostInv => ManifestsBeneathRoot
    <2> SUFFICES ASSUME HostInv, NEW n \in Shown("npm"), n.origin = "project", n.of.manifest # None
                 PROVE  \E w \in Worlds["npm"] :
                          /\ n.of.dir \in DOMAIN w.dirs /\ w.dirs[n.of.dir].manifest = n.of.manifest
                          /\ \A k \in 0..Len(n.of.dir) : SubSeq(n.of.dir, 1, k) \notin w.links
      BY Zenon DEF ManifestsBeneathRoot
    <2>1. "npm" \in DOMAIN views /\ n \in views["npm"].nodes
      BY DEF Shown
    <2>2. ViewGood("npm", views["npm"])
      BY <2>1 DEF HostInv
    <2>3. ProjectGood(n.of)
      BY <2>1, <2>2 DEF ViewGood
    <2> QED
      BY <2>3, Zenon DEF ProjectGood
  <1>3. HostInv => FilesReadAsChecked
    BY <1>1, <1>2 DEF FilesReadAsChecked
  <1> QED
    BY <1>3, HostInitial, HostStep, PTL DEF HostsSpec
=============================================================================
