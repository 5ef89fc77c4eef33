# A TLA+ model of DockerMap

DockerMap observes a Docker host and shows it as a map. A Rust daemon collects
evidence and publishes it from one cache; a Node API sits between the daemon
and the browser; a React page fetches, joins and shows what the daemon
published. The hard part of the program is not drawing the map but never
saying more than was observed: evidence is retained while collections fail,
sources flip between live Docker and mock data, files and processes change
while they are read, and independent requests must not be joined into a model
that never existed. That is what the modules here state, check and prove.

Paths below are relative to `crates/dockermap-daemon/src/`,
`crates/dockermap-core/src/`, `apps/api/src/` and `apps/web/src/`.

## 1. Inventory

| Part | State | Operations | Works with | What is hard | What makes it correct |
|---|---|---|---|---|---|
| Provider scheduler (`cache_refresh.rs`, `runtime_collection.rs`) | slot states, source generation, in-flight guards | publication and claim by the loop; task start, timeout, outcome, further claim | cache lock, Tokio tasks, blocking workers | tasks outlive timeouts and source flips; three critical sections per finished task | budget, single flight, no evidence across sources, no lost claim, no dropped evidence |
| Publication cache and revisions (`cache_refresh.rs`) | snapshot, health, slots, runtime map, findings, three revisions | Docker read, fall back to mock, claim, outcome, each followed by a rebuild | scheduler, routes, Node boundary | what moves a revision; evidence bound to retained data; failed collections | same label, same model; slot states the Node boundary accepts; current evidence |
| Snapshot, graph, runtime map, redaction (`docker_collector.rs`, `snapshot_runtime.rs`, `models.rs`, `publication.rs`) | none | pure functions | publication | identities that collide after redaction, repeated ports, stale references | no dangling edge, collisions reported |
| Findings (`findings.rs`, `compose_runtime_binding.rs`) | none | ten rules and the Compose rule | publication | ambiguity must silence a rule | a finding rests on a unique edge of the map |
| Observed history (`cache_refresh.rs`, `observed_history.rs`) | boot component, sequence, baseline, bounded events | observe a publication, rebaseline, respond | Node boundary, browser | clock regressions, ambiguous identities, queue limit, flips | admitted by all consumers, chained, ids fresh |
| Docker collection and Compose flight (`cache_refresh.rs`, `docker_collector.rs`) | client cache, projection flight | refresh, connect, read, project with a time limit, invalidate | gateway, log requests | the client is shared in separate critical sections; a projection outlives its refresh | a correlation of its own snapshot, honest stamps, recovery |
| Docker gateway (`dockermap-docker-gateway`) | none | policy, limits, forwarding | daemon, Docker | collector and policy must agree | only known reads pass, every request of the collector does |
| Logs (`docker_collector.rs`, `logs.rs`, `Logs.tsx`) | the reader's list and cursor | first page, older page, live poll | Docker, routes | seconds against milliseconds, ordinals, a growing log | no line lost or shown twice |
| Compose (`compose.rs`, `compose_api.rs`) | none | scan, graph, validate, edit plan, binding | file system, snapshot | files edited during a read; spellings of a path | one moment, unsafe binds blocked, the edit changes one declaration |
| Process runner (`process_runner.rs`) | child, group, two readers | run with deadline and output limit | collectors | deadline against exit and pipes held by descendants | complete output or an error, nothing left behind, an end |
| Collectors (`providers/`, `pid_namespace.rs`) | none | ps, systemctl, tmux, cron, npm, listeners, PM2, network | host | the host changes between reads; cut output; links | nothing of the host in a restricted namespace, no silent loss |
| Daemon start and guard (`config.rs`, `auth.rs`, `main.rs`) | configuration | start, authorise | operator | combinations of settings | no remote listener without a token |
| Node API: daemon client and routes (`index.ts`) | none | fetch, validate, fall back to mock | daemon, browser | one of several calls fails | honest source stamps |
| Node API: sessions and streams (`index.ts`) | sessions, streams, counters | login, logout, expiry, emit | browser streams | revocation during an await, caps | no frame after revocation, counters that agree |
| Browser hooks | health, last revision, resources, held model | stream events, fetch effects, Demo Mode | API | late responses, lost frames, mismatched pairs | one publication under its own label, never older, in the end current |
| Web model, Atlas, screens; contracts; scripts | view state | rendering, generated code | - | - | not modelled |

`PROJECT.json` lists the same parts with their status, and the hazards found in
the code at their lines with the properties that watch them.

How they interact: the refresh loop (`DockerRefresh`) reads Docker through the
gateway (`DockerGateway`) and hands a snapshot with its Compose binding
(`Compose`) to the cache (`Publication`). Provider slots, scheduled by
`ProviderScheduler`, run collectors (`Providers`, by way of `ProcessRunner`)
and apply their outcomes to the same cache. Each change rebuilds the map
(`SnapshotTopology`), its findings (`Findings`) and the history
(`ObservedHistory`). The API and the page (`SessionStreams`, `ModelDelivery`,
`LogPaging`) carry the result to the screen.

## 2. Modules

### ProviderScheduler

The scheduler of optional host providers and the cache it publishes into.

* **State.** `mode`, `generation`, `snapshot`, `slot`, `published` are the
  fields of `DaemonCache` behind its lock. `guard` is the atomic flag per slot;
  `loop` the position of the refresh loop; `task` and `tail` the Tokio tasks of
  `spawn_provider_slots`, before and after they apply their outcome; `worker`
  the blocking closures that have not returned.
* **Actions.** `PublishDocker`/`PublishMock` are the loop's publication
  (replacement of the cache, reset on a source flip, staleness, rebuild),
  `LoopClaim` its claim and spawn. A task takes `StartWorker` or
  `StartInFlight`, then `WorkerReturns` or `AwaitTimesOut` (the guard stays
  with the worker), then `Apply` or `Discard`; what follows `drop(cache)` is
  split where the code unlocks: `Reclaim`, then `ReadGeneration`. `Tick` lets a
  slot's interval pass.
* **Abstraction.** A snapshot is an inventory and a timestamp; a collection is
  the snapshot its worker was given and the generation of its claim; intervals
  are counted in ticks.

### Publication, SnapshotTopology, Findings, RevisionedModel

`Publication` is the content of the cache. Its actions `PublishDocker`,
`PublishMock`, `Claim`, `ApplyCollected`, `ApplyNotCollected` and `DropOutcome`
all end in `Republish`, as every change in the code ends in the rebuild under
the same write lock: the map is derived, the collision fact appended, the three
revisions (`dockerRev`, `integrityRev`, `revision`) advanced by what each
compares, findings derived. `Coherent` is the Node boundary's rule on what a
slot may say of itself.

`SnapshotTopology` and `Findings` are the pure functions it uses: Docker's
lists to a snapshot, graph and runtime map; which evidence an edge may carry;
redaction and normalisation; the rules. Digests become tuples of what is
digested. Nodes remember what they were made `from`, so two nodes with one id
remain two.

`RevisionedModel` is the abstract promise: a label that changes with every
change of the model, and only then. `Publication!Revisioned` instantiates it
with `model <- Published` and `label <- revision.seq`.

### ObservedHistory

`ObservedHistoryCache` with its consumers. One action per publication, since
each is one critical section. An inventory gives every container identity a
status class, or absent, or ambiguous. Events are a set whose consecutive
sequence numbers carry the queue's order. `clouded` is the one variable no code
reads: the identities seen as ambiguous since their newest event, about which
the code promises less.

### DockerRefresh

`refresh` walks through `collect_snapshot`: take or open a client, store it,
read three inventories while `HostChanges` interleaves, start the projection in
a blocking task that owns `flight`, await it under the refresh's time limit,
publish; a failed read invalidates the cached client. `user` is a log request
that takes the same client. `GatewayStops` and `GatewayRestarts` make cached
clients useless.

### DockerGateway, LogPaging

`DockerGateway` is the order of the policy's checks over the parts of a
request, and the requests the collector builds. `LogPaging` appends lines to a
log while a reader asks for the first page, older pages and live polls; the
window, the `until` second, the entry ids with their ordinals, the page and the
cursor are those of the code, the merging is that of `Logs.tsx`. `SendRequest`
sends the gateway requests nobody in the program builds.

### Compose

`Edit` changes a file at any moment. A request is begun, reads its files one
after another (`ReadFile`, `ReadFails`), is rechecked where the code rechecks,
and is finished by `FinishScan`, `FinishGraph`, `FinishValidate`, `FinishPlan`
or `FinishBinding`. Parsing, merging, interpolation, path normalisation,
classification, correlation, redaction, the graph and the edit plan are
operators over texts of tokens. `since` (no code keeps it) are the states of
the files since the request began. `UnsafeBindsBlocked` does not ask what the
scan made of a mount: it looks at the entries of the files that were read
(`BindSources`: what Compose itself binds for an entry; `Leads`: where that goes)
and asks that validation refuse the entry, as unsafe or as malformed.

### Providers

`world` is what can be read on the host and may `Change` between two reads of a
collection. The actions are the steps of each collector between which the host
can change: `RunPs`, `AskOwner` (one record's `/proc/<pid>/cgroup`), then, for the
records that are published, `ReadComm` (`/proc/<pid>/comm`) and
`PublishProcesses`; `ListUnits`, `ShowUnits`, `CronCheck`, `CronOpen`, `CronRead`,
`NpmVisit`, `NpmManifest` and so on, with each failure. What `ps`, `systemctl`,
`tmux` and `crontab` print may be cut at the reader's limit, after any record or
inside one; the last three collectors take cut output for whole, as the code
does. `lived` (no code keeps it) are the processes, with their pids, that have
run since the collection began; a published process remembers them, so that
`HostShowsItself` can relate its row and its name to who had the pid meanwhile.
`Main` and `Route` are the start of the daemon and its guard.

### ProcessRunner

`run_command_with_timeout` with its poll loop, its two reader threads and its
channel receives (`Caller`, `ReadChunk`, `ReadEnd`), against processes that
fork, inherit pipes, leave the process group and write (`Fork`, `Write`,
`Exit`). Output is counted in chunks.

### SessionStreams

The sessions map in insertion order, streams and `activeStreamCount`. What the
Node process runs without an await is one action; `EmitStart` and `EmitLands`
are the halves of `emit` around its await; `Closed` is the close event, a turn
later than the end of the response.

### ModelDelivery

The composition from the daemon's routes to the screen: `Publish` (daemon),
`Emit`, `EmitFault`, `Reconnect`, `Drop`, `Refuse` (events-stream handler and
EventSource), `DeliverSnapshot`, `DeliverError`, `EnterDemo`, `LeaveDemo`,
`DemoTick` (`useDaemonHeartbeat`), `RunEffects`, `Answer`, `AnswerFault`
(`useApiResource`, `fetchJson`, `fetchDaemon`), `Settle` (the response lands and
`useSystemModel` renders). A body is a revision and a source stamp. React's
render that follows an event and reruns the effects is an action of its own, so
responses may land between.

### MC modules

One `MC` module per run's specification gives the constants small values; the
`.cfg` files name the bounds. Definitions that state a plausible wrong version
of an operation stand before the operation and are marked as mutants: replacing
the operation by them makes the property named in `PROJECT.json` fail.

## 3. Runs

| Run | Bounds | States | Shows |
|---|---|---|---|
| `scheduler_sources` | two slots, one disabled host slot, budget 1, one inventory at two times, two task copies, two generations | 28404 | `CollectingBound`, `SingleFlight`, `MockHoldsNoHostEvidence`, `NoLostClaim`, `NetworkFreshIsCurrent`, `RetentionWithinGeneration`; `CollectingEnds`: a slot that is collecting stops collecting even if its worker hangs |
| `publication` | slots network and systemd, two ticks, two generations, at most six revisions | 5763 | `TypeOK`, `ProviderStatesAccepted`, `FindingsGrounded`, `EvidenceIsCurrent`, `CollisionReported`, and `RefinesRevisionedModel`: the cache implements the abstract label |
| `history_publication` | two containers, two status classes, clock 1..3 of which 3 is unsafe, queue of two events, three epochs and sequence numbers | 71884 | `ResponseAccepted` by every consumer, `NewestMatchesInventory`, `IdsAreFresh` |
| `docker_refresh` | three host versions, one gateway restart, two projection tasks, one log request | 174410 | `BindingOfItsSnapshot`, `StampIsHonest`, `DockerRecovers` |
| `process_runner` | a child, one descendant in its group, one outside, two streams, cap and pipe of one chunk, three chunks of output | 222712 | `OkIsComplete`, `NothingLeftBehind`, `RunEnds` |
| `compose` | base files with overrides (one of them listed for two base files), links and a home directory, two edits | 232555 | `BindingIsOneMoment`, `CorrelationsPartition`, `UnsafeBindsBlocked`, `EditPlanIsExact` |
| `providers` | hosts that differ in what each collector reads, three changes | 238244 | `HostShowsItself`, `QuietIsComplete`, `FilesReadAsChecked`, `RemoteNeedsToken` |
| `docker_reads` | four lines at milliseconds 1 and 2 (a second is two milliseconds), pages of two | 516230 | `NothingLost`, `ShownOnce`, `GatewayAgrees` |
| `session_streams` | two streams, two sessions, one stream per session, four sessions issued | 101813 | `CountAgrees`, `NoFrameAfterRevocation`, `SessionlessStreamsEnd` |
| `delivery` | two revisions, one disturbance, two attempts, one frame on the wire | 554936 | `PairIsOnePublication`, `FindingsBelongToModel`, `NoRollback`, `ModelConverges` |
| `scheduler_straggler` | as `scheduler_sources`, three generations, none disabled | - | `RetainedFromThisGeneration` is violated, see below |
| `quiet_refresh` | as `publication` | - | `IdenticalRefreshKeepsRevision` is violated, see below |

The publication run has the slots `network` and `systemd`: one bound to
the snapshot it was collected for, and one whose markers become evidence. Cron, tmux and npm
are bound by the same operator, `BindEvidence`. The `TypeOK` of a module that
has neither a run nor a theorem for it says what its variables hold.

Why the bounds are enough for the cases they are about: two slots compete for
one place; a task may outlive a source flip (three generations in the straggler
run, the least that can refute it); a history queue of two is overrun by the
deltas of two reads; two publications let each of the three requests answer
from either side of a change; one cap chunk, one pipe chunk and three chunks of
output let a reader truncate and a writer block; two sessions with one stream
each reach eviction and both stream limits; three host versions let the three
inventories of one read differ; a page of two and four lines in two
milliseconds give shared milliseconds, shared seconds and a page boundary
inside each; two edits let a file change and change again inside a request, and an override
that is read twice change between its two reads;
three changes of the host fall between any two of the reads of a collector.

Deadlock is checked for the daemon's loops, which never stop
(`ProviderScheduler`, `ObservedHistory`, `DockerRefresh`, `ProcessRunner` with
its explicit `Rest`, `SessionStreams`). The others have bounded inputs, after
which they may rest.

### Where the text and the code disagree

Two runs check what a comment or a document says and find a counterexample.

* `scheduler_straggler`: "Docker→mock→Docker can never accept a completion from
  the earlier live generation" (`cache_refresh.rs:92-94`). The new task's
  generation is read in a critical section after its claim (line 1286), so two
  flips in between let it pass.
* `quiet_refresh`: "an unchanged model observed at a new time retains its
  revision" (`docs/architecture/PROVIDER_SCHEDULING_AND_MODEL_REVISIONS.md:132`).
  The evidence comparison includes the snapshot's time (line 1330), so such a
  refresh makes a fresh network slot stale, and the revision moves.

Others met while modelling; the model follows the code, and no run states them:

* Scheduler. The budget takes the larger of collecting slots and held guards
  (`cache_refresh.rs:1132`), so one hung worker and one claim that has not
  started count once and a third worker may start beside "at most two". A
  refused retry writes no completion time (line 1244) and is due at once,
  though the comment above calls it completion-relative.
* Delivery. A failed health read marks the page interrupted, and the frame that
  would clear it is suppressed while the revision stands still
  (`index.ts:665`).
* Publication. The Compose findings are not part of what the revision compares.
  A slot's data revision starts again after a source reset. The collision rule
  (`publication.rs:50`) and the one inside `derive_runtime_map` count different
  things. The dependency graph is derived from the redacted snapshot, so
  aliases may merge.
* Compose. `replace_mount_line_token` (`compose.rs:582`) replaces the first
  occurrence of the old text, so a new target for `./data:/data` is written
  into the source; a long mount may match another service's short line (561).
  The kind of a short mount is decided before its source is interpolated
  (1078-1084): `${D-/var/lib/docker}:/x` counts as a named volume and validates
  with 0, although Compose binds Docker's state directory; with
  `${D:-/var/lib/docker}` the mount is split at the inner colon (1061-1076) and is
  not reported as unsafe either. `UnsafeBindsBlocked` leaves out both. A file
  that changes and changes back between the two reads of a binding is not
  noticed; the parent-traversal diagnostic (878) cannot be reached. An override
  that is listed twice is read twice, and edited in between gives one mount id
  two declarations, of which one may be matched and the other missing.
* Collectors. The python and the native slot each run their own `ps`, where
  `processes.rs:3` speaks of one invocation. A pid may be reused between `ps`
  and the look at its owner, or between that and the look at its name. A
  container's process is then published as the host's: its row, when a host
  process has the pid by the time of the second read, or its name, when it has
  the pid by the third. The comment at `pid_namespace.rs:136-141` accepts this,
  since "no argv is published", but the Python collector publishes an entry taken
  from the row's arguments (`processes.rs:228`). `HostShowsItself` says what the
  window lets through and that nothing else gets through. `systemd.rs:136` and
  `168`, `tmux.rs:80` and `cron.rs:47` do not look at `stdout_truncated`: output
  cut at the limit is published as a fresh and whole collection. `PidNamespaceMode::Auto` is always restricted. One
  node per dependency on an unlisted unit (`systemd.rs:220`) and one per
  project for a shared npm package (`npm.rs:168`) give ordinary hosts the
  identity collision fact. A failed `ps`, PM2 or crontab command yields a fresh
  collection without its records. The tmux cap says nothing.
* Logs. When more than a page arrives between two live polls the middle is not
  asked for. A live poll adopts its own cursor, so an older page may repeat
  part of the list (already shown ids are dropped). A blank label is refused by
  the gateway and means no filter to the collector. "the same physical line
  always gets the same id" (`docker_collector.rs:349`) holds only while the
  4096-line window holds the log: the ordinal in an id counts the entries of its
  millisecond within the window, so it changes when the window slides inside a
  millisecond, and a live poll then shows a line a second time. `ShownOnce` and
  `NothingLost` are therefore stated for a log the window holds; with a window
  of three lines and a log of four TLC finds `ShownOnce` false without that
  premise.

## 4. Fairness

* `ProviderScheduler!FairSpec`: weak fairness of what follows a finished task,
  strong fairness of each task's steps. Tokio runs every woken task, its time
  limit fires, and its read-write lock is fair, so a task that waits for the
  lock gets it although others take it again and again. Nothing forces a worker
  to return.
* `ModelDelivery!Fairness`: weak fairness of the poll timer of the stream and
  the EventSource's retry, of frames and renders (event loops) and of the end of
  every request (both fetches have time limits). Nothing forces a publication or
  a fault.
* `ProcessRunner!Fairness`: the caller and the reader threads run, and the child
  itself writes what it has and exits; no descendant has to, and the deadline
  need not pass. `RunEnds` is stated for that: the call returns, or the deadline
  never passes and from some time on a descendant always holds a pipe. Once the
  deadline has passed it returns without exception.
* `DockerRefresh!Fairness`: the refresh loop runs and its time limit passes while
  it waits for a projection; neither a projection nor the gateway has to return.
* `SessionStreams!Fairness`: timers fire, a daemon fetch ends (it has a time
  limit), close events are delivered.

## 5. Proofs

### ProviderSchedulerProofs

For every set of slots, order, interval, budget, set of snapshots and bound,
from the named assumptions of `ProviderScheduler` only:

| Theorem | States | Argument |
|---|---|---|
| `TypeCorrect` | `TypeOK` | inductive, one step per action |
| `BudgetHolds` | `CollectingBound` | inductive with `TypeOK`; `FirstFew` bounds the slots that a claim takes by their rank, and a claim leaves at most the budget |
| `SingleFlightHolds` | `SingleFlight` | inductive: a worker holds its slot's guard, and only its return releases it |
| `MockIsolation`, `NetworkFreshness` | `MockHoldsNoHostEvidence`, `NetworkFreshIsCurrent` | from `SlotsInv`, which adds what a slot may retain in each mode and which snapshot a fresh network slot carries |
| `PublicationHolds` | `PublicationCurrent` (no run repeats it) | inductive: each section that changes what is observable republishes; waiting is not observable |
| `NoClaimIsLost` | `NoLostClaim` | inductive: a claim places a task of its generation, `PlacementKeeps` and `PendingKept` carry the others along |
| `RetentionHolds` | `RetentionWithinGeneration` | an action property, from the type invariant |

### PublicationProofs

For every set of slots, inventories, collections and bounds, from
`SlotsAssumption`, `BoundAssumption` and `CollectionsAssumption`:

| Theorem | States | Argument |
|---|---|---|
| `RevisionRemembers` | the revision remembers exactly the exposed model | inductive invariant `Remembered`; every action ends in `Republish` or leaves the cache alone, `RepublishCounts` does the counting |
| `ImplementsRevisionedModel` | `RefinesRevisionedModel` | the refinement: from `Remembered`, every step is a step of `RevisionedModel` or a stutter, whatever the map's derivation computes |
| `ProviderStatesAreAccepted` | `ProviderStatesAccepted` | inductive invariant `SlotsInv`: each slot is `SlotSound` (its times, data revision, retained collection and state agree) and each flight `FlightSound` (it began no later than now, by a slot that was claimed); one lemma per way a slot changes, then one step per action |
| `TypeCorrect` | `TypeOK` | from `SlotsInv` and the counting lemmas |
| `EvidenceStaysCurrent` | `EvidenceIsCurrent` | with `SlotsInv`: `AllCurrent` holds of the edges that binding produces, and derivation, redaction, normalisation and the collision fact keep it (one lemma per stage); a step that leaves the cache alone changes nothing it speaks of |
| `FindingsAreGrounded` | `FindingsGrounded` | one lemma per rule: what it says is `Grounded` in the map it was given; the map is the published one |
| `CollisionIsReported` | `CollisionReported` | the two nodes of the collision fact are `Reserved`: no other node has their ids, before or after redaction, so adding them doubles nothing, and the one edge between them is the one thing the collision rule can speak of |

The last three speak of what the map's derivation computes, and rest on
`CollectorsAssumption` as well: every collector prefixes the ids of its nodes
with its own name, so none takes an id of the collision fact, and leaves the
evidence of its edges to the daemon. `ProviderStatesAccepted` is not inductive: that a failed collection leaves an
accepted state depends on what the slot retained before, which `SlotSound` adds.
The theorem and the run hold for a wall clock that never steps back: `now` of
`Publication` only grows. The code stamps a claim and its completion with the
system clock (`cache_refresh.rs:1075`); if that is set back in between, the
success is earlier than the attempt of a fresh slot and the Node boundary would
refuse the map. No run models that clock.

### ObservedHistoryProofs

For every set of container identities and status classes, window, clock and
bound on epochs and sequence numbers (`ContainersAssumption`,
`StatusAssumption`, `HistoryBoundAssumption`):

| Theorem | States | Argument |
|---|---|---|
| `HistoryInvariant` | `HistoryInv` | inductive: `TypeOK`, `Sound` (the retained events have consecutive numbers, times that do not decrease, and fit their place; one baseline at most) and `BaselineFitsMode` |
| `HistoryIsAdmitted` | `ResponseAccepted` | what the consumers test follows from `Sound`; `RetainedBound` maps the retained events one to one into the window |
| `IdsStayFresh` | `IdsAreFresh` | an action property: the numbers of new events lie above those of the epoch, a new epoch has none |
| `NewestIsInventory` | `NewestMatchesInventory` | inductive with `HistoryInv`; `PositionsNumber` shows that the deltas of one read are numbered 1..n without gap or repetition, `NewestAfterPush` that the newest event of an identity is its delta |

### ModelDeliveryProofs

For every number of revisions, attempts, disturbances and frames on the wire
(`DeliveryAssumption`):

| Theorem | States | Argument |
|---|---|---|
| `TypeCorrect` | `TypeOK` | inductive |
| `PageInvariant` | `PageInv` | inductive, see below |
| `ShownIsOnePublication`, `FindingsAreOfTheModel` | `PairIsOnePublication`, `FindingsBelongToModel` | parts of `PageInv` |
| `NoOlderPublication` | `NoRollback` | an action property from `PageInv`: the only step that changes the model takes it from an attempt, and an attempt is no older than what is shown |

`PairIsOnePublication` is far from inductive: two bodies with one revision are
one publication only because the daemon publishes a revision once. `PageInv`
says that by `OnePublicationLog`, the existence of a log of sources of which
every body anywhere in the system (daemon, wire, requests, resources, screen)
is an entry; to it come `AnswersFitRequests`, `ResourcesLabelled`,
`OneRequestEach`, `ShownIsAligned`, `AttemptIsNewer` and `OverlayBelongs`, which
say whose answer a resource holds and that an attempt starts from what is shown.
TLC checked `PageInv` on the bounds of the `delivery` run before it was proved.

### ProcessRunnerProofs

For every set of processes and streams, any group, cap, pipe size and amount of
output (`ProcessAssumption`, `SizeAssumption`):

| Theorem | States | Argument |
|---|---|---|
| `TypeCorrect` | `TypeOK` | inductive, with who may hold a pipe |
| `SuccessIsComplete` | `OkIsComplete` | `OutputInv`: what a reader took is what was written less what the pipe holds (`Accounted`), a reader that reported saw the end for good, since nobody can get a pipe that nobody holds (`Drained`), and success needs both reports (`Delivered`) |
| `NothingIsLeftBehind` | `NothingLeftBehind` | `ProcessInv`: past the poll loop the child is reaped, and every way out but an exit status has ended the group |

The second part is about the collectors, which call the runner (`Providers`; its
specification is `HostsSpec`, since the module of proofs extends both). For every
host, sequence of changes and setting, from the named assumptions of `Providers`:

| Theorem | States | Argument |
|---|---|---|
| `TokenBeyondLoopback` | `RemoteNeedsToken` | inductive with `Served`: a daemon that listens beyond the loopback was started with a token; no assumption |
| `HostShownIsHost` | `HostShowsItself` | `HostInv`: what a collection in progress has read and what is shown, per slot; every collector step is shown to finish with an `Outcome` or to continue with such work. A row and a name were read from who had the pid at the time (`lived` only grows); a record passes `AskOwner` only if whoever has its pid then is the host's |
| `QuietCollectionIsComplete` | `QuietIsComplete` | part of `HostInv`: with no change and no diagnostic `ps` was not cut, no cap was reached and no owner was missing |
| `CheckedFilesAreRead` | `FilesReadAsChecked` | part of `HostInv`: what an open file is was settled when it was opened, and that was compared with what was checked |

`ProcessesAssumption` says that a host has no pid twice, that no process has pid
0 or an empty command line, and that processes of one image are in containers
together. `ProgramsAssumption` says of every command line that
`effective_executable` recognises it; that is a fold over its words, so TLC
evaluates it on the command lines of the run and the theorem takes it as given.

### DockerRefreshProofs

For every number of host versions, restarts, projection tasks and log requests
(`BoundAssumption`):

| Theorem | States | Argument |
|---|---|---|
| `TypeCorrect` | `TypeOK` | inductive, with which task a refresh may wait for |
| `BindingIsOfItsSnapshot` | `BindingOfItsSnapshot` | `BindingInv`: the projection a refresh waits for is of the containers this refresh read, and what it is about to publish is that projection's; an abandoned projection is never waited for again |
| `StampsAreHonest` | `StampIsHonest` | `StampInv`: a request that asks Docker remembers that the mode was Docker's, and only an answered one has entries |

The second part is about the reads of a log (`LogPaging` with `DockerGateway`; the
specification is `ReadsSpec`). For every log, page size, window and label
(`PagingAssumption`; `ClockAssumption` says that the log's times lie before the
largest second a request can name, which is in 2038):

| Theorem | States | Argument |
|---|---|---|
| `NothingIsLost` | `NothingLost` | while the window holds the log an entry's id is the same in every answer and its own; a cursor stands for the entries at or above its rank; a page gives everything between its cursor and the next, and what is shown with what is on its way reaches down to the cursor |
| `LinesShownOnce` | `ShownOnce` | entries with different ids are different lines, and the merge of a page drops the ids that are known |
| `GatewayAgreement` | `GatewayAgrees` | whatever the log and the reader do: the requests of the collector, for each label, pass each check in turn |

All three are parts of the invariant `PagingInv`.

### SessionStreamsProofs

For every set of streams and session ids and all limits (`BoundAssumption`):

| Theorem | States | Argument |
|---|---|---|
| `LimitsHold` | `CountAgrees` | `LimitsInv`: the registered streams are finitely many and `activeStreamCount` is their number; registration adds one below both limits, every way a stream ends removes it once |
| `RevocationStopsFrames` | `NoFrameAfterRevocation` | an action property: `EmitLands` is the only step that writes a frame, and tests the session again after the await |

### ComposeProofs

For every set of files, base names and overrides, every version they may be
written in and any number of writes (`ComposeAssumption`, `VersionsAreContents`):

| Theorem | States | Argument |
|---|---|---|
| `BindingInvariant` | `BindingInv` | inductive |
| `BindingsAreOneMoment` | `BindingIsOneMoment` | the double collect: when the last file is read, each file either still holds what was taken from it or never will again (`Collected`); the comparison that follows rules out the second, file by file |
| `CorrelationsArePartitions` | `CorrelationsPartition` | `ScanInv` on top of `BindingInv`: every mount of a scan is one that a version it read declares, of a service the scan shows (`ReaderGood`); so a match lies in a container of that service, and a mount's id tells its declaration unless its file was read in two versions |
| `UnsafeBindsAreBlocked` | `UnsafeBindsBlocked` | `AllAccounted`: every entry of a file that was read has left its mount or its refusal in the scan (`EntryGrows`, `ServiceGrows`, `DocumentGrows`), and reading on takes nothing away; an entry of `BindSources` that parses is a bind of that source (`ShortBinds`); what `resolve_source` gives is where `Leads` goes (`ResolvesWhereItLeads`), so that mount is judged by that path, and `ExitCode` counts what `MountDiagnostics` says of it |

The last two need more assumptions on the constants: `TokensAssumption` (a token
has one spelling: what begins a path with a dot, the slash and the tilde are no
drive letters), `DocumentsAssumption` (texts and YAML lists are sequences, a YAML mapping has no
key twice), `RequestsAssumption` (so are the files asked for and the containers
with their mounts) and `PlacesAssumption` (the project directory is absolute, and
so is `$HOME` if it is set).

`ResolvesWhereItLeads` compares two recursions over different texts: the code
joins texts and splits the result into components, `Leads` splits the parts and
walks. Each recursion is solved, which turns it into a function with one equation
per token (`PiecesSolved`, `WalkSolved`, `LeadsSolved`); `NamesJoin` shows that a
text that goes on with a slash has the names of both parts, because the slash
ends the last piece of the first part and opens the second; `WalkFromRoot` that
`normalize_lexical` takes the steps of `Leads` and never leaves the root.

The premise of `BindingsAreOneMoment` is that of `Edit`: no write brings a file back to something it held
since the request began. Without it the property is false, as section 3 says.
`VersionsAreContents` says that a version is the content of a file: two regular
files that read the same are in one version.

`discover_compose_files` filters and joins lists, so that what it finds are
files of the project needs induction over a list; so do the path operators. The library's induction
theorems cannot be instantiated here, but that every set of numbers that is not
empty has a least one can (`LeastNumber`, from `WFMin`): `InductionUpTo` and
`RecursionSolved` follow, and serve for every recursion above.

### What the proofs changed

* `CorrelationsPartition` used to say that no declared mount is both matched and
  missing. The proof failed where one id names two mounts, and the model agrees:
  an override listed twice and edited between its two reads does that. The
  property now says so, and the `compose` run has such a file.
* `Leads`, the reference `UnsafeBindsBlocked` compares `resolve_source` with,
  kept an empty first component under `~` and after `//`. It is now a walk from
  the root, and the run has a mount `~/..//var/lib/docker`.
* `UnsafeBindsBlocked` used to speak of the mounts of kind `bind`. That is the
  code's own verdict: it hid the defaults above and the entries the parser
  rejects. It is now stated on the entries of the files; the proof had to follow
  each entry through the scan, and the run has malformed short and long entries
  with unsafe sources and a short default that begins with a variable.
* `HostShowsItself` used to speak of the owner at the time it was asked. It now
  says whose pid it was during the collection. The proof needed that an image
  does not move into or out of a container, which `ProcessesAssumption` states.
* `RunEnds` used to be met by one moment at which a descendant held a pipe before
  the deadline. It now asks for such moments to last.
* A `CASE` whose guards overlap has no determined value in TLA+, though TLC takes
  the first; those that stood for an `if` chain are one now.
* The evidence proof needed to know that only slots of a Docker source bind:
  `BoundEdges` now says so where the code does.

Two modules of proofs speak of two components that share no state
(`DockerRefreshProofs` of `DockerRefresh` and `LogPaging`, `ProcessRunnerProofs` of
`ProcessRunner` and `Providers`): the specifications have names of their own, so
that one module can extend both.

### Only model-checked

* The liveness properties (`CollectingEnds`, `DockerRecovers`, `RunEnds`,
  `SessionlessStreamsEnd`, `ModelConverges`): fairness and `ENABLED` are out of
  the prover's reach.
* `Compose`'s `EditPlanIsExact`: it needs the algebra of replacing a part of a text
  and splitting the result again, and it is about the requests of the run: a new
  source or target that holds a colon of its own would be split differently, which
  an assumption on `PlanRequests` would have to exclude.
* `SessionStreams`'s `TypeOK`: the insertion order of the sessions is kept by
  `SelectSeq`.

## 6. Not modelled, and the plan

Left out for good: byte-level parsing (YAML, HTTP targets, query strings, log
levels), wording of diagnostics, labels and metadata of nodes, sort orders
nobody depends on, rendering and layout, generated contracts, benchmark timing,
packaging. The spelling of secrets is a given set; where each field is redacted
is modelled.

Not yet modelled: the login route's attempt window and the reverse-proxy mode;
the API's own redaction (`publication.ts`); the browser's change of log source;
the container, image, network and volume list routes.

What could come next: the algebra of texts that `EditPlanIsExact` needs (a
replaced line differs from the old one in one part, and so do its pieces); the
wall clock that steps back, with
what the Node boundary then does; the routes and modes listed above.
