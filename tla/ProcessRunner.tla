---------------------------- MODULE ProcessRunner ----------------------------
(***************************************************************************)
(* run_command_with_timeout (crates/dockermap-daemon/src/process_runner.rs)*)
(* with the processes it starts: the provider command leads its own        *)
(* process group, may fork descendants that stay in the group or leave it, *)
(* and every process that holds a pipe may write into it.  Two reader      *)
(* threads drain the pipes while the caller polls the child against one    *)
(* deadline.                                                               *)
(*                                                                         *)
(* Output is counted in chunks, the unit of one read.  The deadline is one *)
(* Boolean: every wait of the code is measured against the same instant.   *)
(* A read of a pipe end is taken not to fail.                              *)
(***************************************************************************)
EXTENDS Integers, FiniteSets

CONSTANTS
  Child,      \* the provider command, leader of its process group
  Heirs,      \* descendants that stay in the group
  Strays,     \* descendants that leave it
  Streams,    \* the two pipes
  Cap,        \* MAX_PROVIDER_OUTPUT_BYTES, in chunks
  PipeSize,   \* chunks a pipe holds before a writer blocks
  MaxOutput   \* bound: chunks written into one pipe

ASSUME ProcessAssumption ==
  /\ Child \notin Heirs \cup Strays
  /\ Heirs \cap Strays = {}
ASSUME SizeAssumption ==
  /\ Cap \in Nat /\ MaxOutput \in Nat
  /\ PipeSize \in Nat \ {0}

VARIABLES
  pc,        \* where the caller is
  expired,   \* started.elapsed() >= timeout
  alive,     \* processes that run
  reaped,    \* the child's exit status has been collected
  holds,     \* holds[p]: the pipes p has open while it runs
  left,      \* left[s]: chunks still to be written into s
  written,   \* written[s]: chunks written into s so far
  pipe,      \* pipe[s]: chunks in the pipe
  reader,    \* reader[s]: the reader thread and its BoundedRead
  rx,        \* rx[s]: what receive_reader_until returned for s
  status,    \* the value of the poll loop: an exit status or none
  result     \* what the call returned

vars == <<pc, expired, alive, reaped, holds, left, written, pipe, reader, rx,
          status, result>>
osVars == <<expired, alive, reaped, holds, left, written, pipe, reader>>

Group == {Child} \cup Heirs
Processes == Group \cup Strays
Results == {"none", "spawn", "wait", "timed_out", "ok"}

ReaderStates ==
  [st : {"absent", "reading", "sent"}, kept : 0..Cap, truncated : BOOLEAN]
NoReader == [st |-> "absent", kept |-> 0, truncated |-> FALSE]
NewReader == [st |-> "reading", kept |-> 0, truncated |-> FALSE]

TypeOK ==
  /\ pc \in {"spawn", "started", "poll", "receive", "finish", "done"}
  /\ expired \in BOOLEAN /\ reaped \in BOOLEAN
  /\ alive \subseteq Processes
  /\ holds \in [Processes -> SUBSET Streams]
  /\ left \in [Streams -> 0..MaxOutput]
  /\ written \in [Streams -> 0..MaxOutput]
  /\ pipe \in [Streams -> 0..PipeSize]
  /\ reader \in [Streams -> ReaderStates]
  /\ rx \in [Streams -> {"none", "got", "missed"}]
  /\ status \in {"none", "exited"}
  /\ result \in Results

Init ==
  /\ pc = "spawn" /\ expired = FALSE /\ alive = {} /\ reaped = FALSE
  /\ holds = [p \in Processes |-> {}]
  /\ left \in [Streams -> 0..MaxOutput]
  /\ written = [s \in Streams |-> 0]
  /\ pipe = [s \in Streams |-> 0]
  /\ reader = [s \in Streams |-> NoReader]
  /\ rx = [s \in Streams |-> "none"]
  /\ status = "none" /\ result = "none"

-----------------------------------------------------------------------------
(* The operating system *)

Expire ==
  /\ ~expired /\ expired' = TRUE
  /\ UNCHANGED <<pc, alive, reaped, holds, left, written, pipe, reader, rx,
                 status, result>>

Holders(s) == {p \in alive : s \in holds[p]}

\* A running process starts a descendant that keeps some of its pipes.
Fork(p, q) ==
  /\ p \in alive /\ q \notin alive /\ q # Child /\ holds[q] = {}
  /\ p \in Strays => q \in Strays
  /\ \E kept \in SUBSET holds[p] :
       kept # {} /\ holds' = [holds EXCEPT ![q] = kept]
  /\ alive' = alive \cup {q}
  /\ UNCHANGED <<pc, expired, reaped, left, written, pipe, reader, rx, status,
                 result>>

\* A write blocks while the pipe is full.
Write(p, s) ==
  /\ p \in Holders(s) /\ left[s] > 0 /\ pipe[s] < PipeSize
  /\ left' = [left EXCEPT ![s] = @ - 1]
  /\ written' = [written EXCEPT ![s] = @ + 1]
  /\ pipe' = [pipe EXCEPT ![s] = @ + 1]
  /\ UNCHANGED <<pc, expired, alive, reaped, holds, reader, rx, status, result>>

\* A process ends once its output is written or left to another holder.
Exit(p) ==
  /\ p \in alive
  /\ \A s \in holds[p] : left[s] = 0 \/ Holders(s) # {p}
  /\ alive' = alive \ {p}
  /\ UNCHANGED <<pc, expired, reaped, holds, left, written, pipe, reader, rx,
                 status, result>>

-----------------------------------------------------------------------------
(* read_bounded, on the reader threads *)

\* One read: kept up to the cap, drained beyond it.
ReadChunk(s) ==
  /\ reader[s].st = "reading" /\ pipe[s] > 0
  /\ reader' = [reader EXCEPT ![s] =
       [st |-> "reading",
        kept |-> IF reader[s].kept < Cap THEN reader[s].kept + 1 ELSE Cap,
        truncated |-> reader[s].truncated \/ reader[s].kept = Cap]]
  /\ pipe' = [pipe EXCEPT ![s] = @ - 1]
  /\ UNCHANGED <<pc, expired, alive, reaped, holds, left, written, rx, status,
                 result>>

\* Mutant: the reader reports as soon as the pipe is empty.
ReadEndEarly(s) ==
  /\ reader[s].st = "reading" /\ pipe[s] = 0
  /\ reader' = [reader EXCEPT ![s].st = "sent"]
  /\ UNCHANGED <<pc, expired, alive, reaped, holds, left, written, pipe, rx,
                 status, result>>

\* End of file: nothing buffered and no process holds the write end.
ReadEnd(s) ==
  /\ reader[s].st = "reading" /\ pipe[s] = 0 /\ Holders(s) = {}
  /\ reader' = [reader EXCEPT ![s].st = "sent"]
  /\ UNCHANGED <<pc, expired, alive, reaped, holds, left, written, pipe, rx,
                 status, result>>

-----------------------------------------------------------------------------
(* The caller *)

\* terminate_provider_process_group: the group is killed, the child reaped.
Terminate ==
  /\ alive' = alive \ Group
  /\ reaped' = TRUE

SpawnFails ==
  /\ pc = "spawn"
  /\ pc' = "done" /\ result' = "spawn"
  /\ UNCHANGED <<osVars, rx, status>>

Spawn ==
  /\ pc = "spawn"
  /\ pc' = "started"
  /\ alive' = {Child}
  /\ holds' = [holds EXCEPT ![Child] = Streams]
  /\ UNCHANGED <<expired, reaped, left, written, pipe, reader, rx, status, result>>

\* The spawn itself used up the time: no reader is started.
StartedTooLate ==
  /\ pc = "started" /\ expired
  /\ Terminate
  /\ pc' = "done" /\ result' = "timed_out"
  /\ UNCHANGED <<expired, holds, left, written, pipe, reader, rx, status>>

StartReaders ==
  /\ pc = "started" /\ ~expired
  /\ reader' = [s \in Streams |-> NewReader]
  /\ pc' = "poll"
  /\ UNCHANGED <<expired, alive, reaped, holds, left, written, pipe, rx, status,
                 result>>

PollExited ==
  /\ pc = "poll" /\ Child \notin alive
  /\ status' = "exited" /\ reaped' = TRUE
  /\ pc' = "receive"
  /\ UNCHANGED <<expired, alive, holds, left, written, pipe, reader, rx, result>>

PollTimesOut ==
  /\ pc = "poll" /\ Child \in alive /\ expired
  /\ Terminate
  /\ pc' = "receive"
  /\ UNCHANGED <<expired, holds, left, written, pipe, reader, rx, status, result>>

PollFails ==
  /\ pc = "poll"
  /\ Terminate
  /\ pc' = "done" /\ result' = "wait"
  /\ UNCHANGED <<expired, holds, left, written, pipe, reader, rx, status>>

\* The reader whose turn it is: stdout, then stderr.
Turn(s) ==
  /\ pc = "receive" /\ rx[s] = "none"
  /\ s = "stderr" => rx["stdout"] # "none"

Received(s, outcome) ==
  /\ rx' = [rx EXCEPT ![s] = outcome]
  /\ pc' = IF s = "stderr" THEN "finish" ELSE pc
  /\ UNCHANGED <<osVars, status, result>>

\* receive_reader_until: a delivered read is taken even after the deadline.
Receive(s) == Turn(s) /\ reader[s].st = "sent" /\ Received(s, "got")

\* Mutant: after the child's exit its output is waited for without a deadline.
ReceiveTimesOutRunning(s) ==
  Turn(s) /\ reader[s].st # "sent" /\ expired /\ status = "none" /\ Received(s, "missed")

ReceiveTimesOut(s) ==
  Turn(s) /\ reader[s].st # "sent" /\ expired /\ Received(s, "missed")

BothRead == \A s \in Streams : rx[s] = "got"
Verdict == IF BothRead /\ status = "exited" THEN "ok" ELSE "timed_out"

\* Mutant: descendants that keep a pipe open are not killed.
FinishSparing ==
  /\ pc = "finish"
  /\ pc' = "done" /\ result' = Verdict
  /\ UNCHANGED <<osVars, rx, status>>

\* A missing read after the child's exit kills what is left of its group.
Finish ==
  /\ pc = "finish"
  /\ IF ~BothRead /\ status = "exited" THEN Terminate ELSE UNCHANGED <<alive, reaped>>
  /\ pc' = "done" /\ result' = Verdict
  /\ UNCHANGED <<expired, holds, left, written, pipe, reader, rx, status>>

Caller ==
  \/ Spawn \/ StartedTooLate \/ StartReaders
  \/ PollExited \/ PollTimesOut
  \/ \E s \in Streams : Receive(s) \/ ReceiveTimesOut(s)
  \/ Finish

Rest == pc = "done" /\ UNCHANGED vars

Next ==
  \/ Expire
  \/ \E p, q \in Processes : Fork(p, q)
  \/ \E p \in Processes, s \in Streams : Write(p, s)
  \/ \E p \in Processes : Exit(p)
  \/ \E s \in Streams : ReadChunk(s) \/ ReadEnd(s)
  \/ Caller \/ SpawnFails \/ PollFails
  \/ Rest

Spec == Init /\ [][Next]_vars

\* The caller and the readers are scheduled; the child itself writes what it
\* has and ends.  Nothing makes a descendant write or end, or the deadline pass.
Fairness ==
  /\ WF_vars(Caller)
  /\ \A s \in Streams : WF_vars(ReadChunk(s) \/ ReadEnd(s))
  /\ \A s \in Streams : WF_vars(Write(Child, s))
  /\ WF_vars(Exit(Child))
FairSpec == Spec /\ Fairness

-----------------------------------------------------------------------------
(* Properties *)

\* A successful call returns everything that was ever written into both pipes,
\* cut at the cap, and says so exactly when it was cut (read_bounded, the match
\* on both received readers): no output of a descendant that outlives the
\* command is lost unnoticed.
OkIsComplete ==
  result = "ok" =>
    \A s \in Streams :
      /\ Holders(s) = {} /\ pipe[s] = 0
      /\ reader[s].kept = (IF written[s] < Cap THEN written[s] ELSE Cap)
      /\ reader[s].truncated <=> written[s] > Cap

\* Whatever way the call returns, the child is reaped and, unless the command
\* completed, no process of its group runs on (terminate on every timeout and
\* error path, the kill for a missing reader included).
NothingLeftBehind ==
  (pc = "done" /\ result # "spawn") =>
    /\ reaped /\ Child \notin alive
    /\ result # "ok" => alive \cap Group = {}

\* The call returns, unless the deadline never passes and a descendant keeps a pipe open
\* for ever: the deadline bounds every wait, that for the output of a child that has ended
\* but left a pipe to a descendant included. A child with more output than the pipe and
\* the buffer hold is drained and ends.
RunEnds ==
  \/ <>(pc = "done")
  \/ <>[](~expired /\ \E p \in alive \ {Child} : holds[p] # {})

=============================================================================
