------------------------------- MODULE Providers -------------------------------
(***************************************************************************)
(* The host's providers (the files of providers/, pid_namespace.rs and     *)
(* collect_provider_slot of runtime_collection.rs) collecting from a host  *)
(* that changes between their reads, and the start of the daemon with the  *)
(* guard of its routes (config.rs, auth.rs, main.rs).                      *)
(*                                                                         *)
(* `world` is what can be read on the host, one family of it at a time: a  *)
(* behaviour collects the slots of its family once each.  Text is tokens;  *)
(* the sets of tokens below say how they are spelled.  Labels, timestamps  *)
(* and metadata of nodes are left out.  Nodes carry what tells occurrences *)
(* of one id apart.                                                        *)
(***************************************************************************)
EXTENDS Naturals, FiniteSets, SequencesExt

CONSTANTS
  Worlds,       \* Worlds[f]: states of the host for family f
  Environments, \* Environments[f]: environments of the daemon
  Requests,     \* authorization headers of requests, as sequences of words
  Limits,       \* MAX_* of each provider
  Kernel, Options, Assignments, Durations, Pythons, \* spellings of tokens
  ServiceUnits, \* unit names that end in .service
  Secrets,      \* names that redaction replaces
  MaxChanges    \* bound: changes of the host during a behaviour

ASSUME ProvidersAssumption ==
  /\ MaxChanges \in Nat
  /\ Limits \in [{"python", "native", "units", "sessions", "cronEntries", "directories",
                  "projects", "dependencies"} -> Nat]

VARIABLES
  env,      \* environment the daemon was started in
  family, world, changes,
  worker,   \* the collection that runs: its slot, its step and what it has read
  lived,    \* history: the processes that have run since the collection began
  views,    \* views[s]: what the slot's collection came to
  served    \* the daemon's listener and its last request

hostsVars == <<env, family, world, changes, worker, lived, views, served>>

FamilySlots == [processes |-> {"python", "native"}, systemd |-> {"systemd"}, tmux |-> {"tmux"},
                cron |-> {"cron"}, npm |-> {"npm"}, host |-> {"host_scoped"},
                network |-> {"network"}, startup |-> {}]

None == "none"
Idle == [slot |-> None, step |-> None]
Nothing == [state |-> "none", nodes |-> {}, edges |-> {}, diagnostics |-> {}]

\* The processes of a host, told apart by what each runs.
Living(w) == IF family = "processes" THEN {<<p.pid, p.image>> : p \in ToSet(w.procs)} ELSE {}

Take(s, n) == SubSeq(s, 1, IF Len(s) < n THEN Len(s) ELSE n)

\* safe_runtime_id_component: a redacted name gets a fallback.
SafeId(name, fallback) == IF name \in Secrets THEN fallback ELSE name

Node(id, origin, of) == [id |-> id, origin |-> origin, of |-> of]
HostNode == Node(<<"host_local">>, "host", <<>>)
RunsOnHost(id) == [source |-> id, target |-> HostNode.id, rel |-> "runs_on"]

-----------------------------------------------------------------------------
(* The namespace the daemon runs in *)

\* PidNamespaceMode::from_env_value
PidNamespaceMode(value) == CASE value \in {"host", "restricted"} -> value
                             [] value \in {"auto", None} -> "auto"
                             [] OTHER -> "restricted"

\* pid_namespace_scope_from_evidence: only an explicit "host" opens the host, whatever the
\* evidence of a container is.
Restricted == PidNamespaceMode(env.pidNamespace) # "host"

ImpliesContainer(cgroup) ==
  cgroup \in {"/docker/", "docker-.scope", "libpod-.scope", "kubepods"}

\* Mutant: an unreadable cgroup is the host's.
ContainerOwnedOpen(pid) ==
  \E i \in DOMAIN world.procs : world.procs[i].pid = pid /\ ImpliesContainer(world.procs[i].cgroup)

\* is_container_owned: unknown ownership counts as a container's.
ContainerOwned(pid) ==
  \A i \in DOMAIN world.procs : world.procs[i].pid = pid =>
    \/ world.procs[i].cgroup = "unreadable"
    \/ ImpliesContainer(world.procs[i].cgroup)

-----------------------------------------------------------------------------
(* A collection *)

Conclude(outcome) ==
  /\ views' = [views EXCEPT ![worker.slot] = outcome]
  /\ worker' = Idle
  /\ UNCHANGED <<env, family, world, changes, lived, served>>

Collected(state, nodes, edges, diagnostics) ==
  [state |-> state, nodes |-> nodes, edges |-> edges, diagnostics |-> diagnostics]

\* A command's failure ends the collection of systemd and tmux: a timeout is told apart.
CommandFails(outcome) ==
  /\ outcome \in {"failed", "timed_out"}
  /\ Conclude([Nothing EXCEPT !.state = outcome])

Continue(w) ==
  /\ worker' = w
  /\ UNCHANGED <<env, family, world, changes, lived, views, served>>

At(slots, step) == worker.slot \in slots /\ worker.step = step

\* In a restricted namespace the slot ends at once, with a diagnostic.  The network
\* infrastructure and the project's packages do not depend on the namespace alone.
Start(slot) ==
  /\ worker = Idle /\ slot \in FamilySlots[family] /\ views[slot] = Nothing
  /\ lived' = Living(world)
  /\ IF Restricted /\ slot \notin {"network", "npm"}
     THEN /\ views' = [views EXCEPT ![slot] = Collected("disabled", {}, {}, {"omitted"})]
          /\ UNCHANGED worker
     ELSE worker' = [slot |-> slot, step |-> "start"] /\ UNCHANGED views
  /\ UNCHANGED <<env, family, world, changes, served>>

-----------------------------------------------------------------------------
(* Processes: ps, and then /proc of what it listed *)

OptionArguments(wrapper) ==
  CASE wrapper = "sudo"    -> {"-u", "--user"}
    [] wrapper = "timeout" -> {"-s", "--signal", "-k", "--kill-after"}
    [] wrapper = "env"     -> {"-u", "--unset", "-C", "--chdir"}
    [] OTHER -> {}

EffectiveExecutable(args) ==
  LET Step(st, t) ==
        CASE st.found # None -> st
          [] st.found = None /\ st.skip -> [st EXCEPT !.skip = FALSE]
          [] st.found = None /\ ~st.skip ->
               CASE t \in {"env", "sudo", "nice", "nohup", "timeout", "dumb-init", "tini"} ->
                      [st EXCEPT !.wrapper = t]
                 [] t \in Options -> [st EXCEPT !.skip = t \in OptionArguments(st.wrapper)]
                 [] t \in Assignments \cup Durations -> st
                 [] OTHER -> [st EXCEPT !.found = t]
  IN  FoldLeft(Step, [found |-> None, wrapper |-> None, skip |-> FALSE], args).found

IsPythonOwned(executable) ==
  executable \in Pythons \cup {"uvicorn", "gunicorn", "celery", "flower", "daphne"}

IsNative(args) ==
  LET executable == EffectiveExecutable(args)
  IN  /\ executable \notin {None, "dockermap-daemon", "ps", "containerd-shim"} \cup Kernel
      /\ ~IsPythonOwned(executable)

IsPython(args) == IsPythonOwned(EffectiveExecutable(args))

\* parse_ps_table: a line without all its columns, or whose first is no number (0), is skipped.
ParsePsTable(lines) == {i \in DOMAIN lines : lines[i].pid # 0 /\ lines[i].args # <<>>}

\* complete_provider_lines
CompleteLines(output) == IF output.truncated /\ ~output.ended THEN Front(output.lines)
                         ELSE output.lines

\* What ps prints, whole or cut by the limit after any word.
PsOutputs ==
  LET whole == world.procs
      Cut(n, k) == Append(Take(whole, n - 1), [whole[n] EXCEPT !.args = Take(@, k)])
  IN  {[lines |-> whole, truncated |-> FALSE, ended |-> TRUE]}
        \cup {[lines |-> Take(whole, n), truncated |-> TRUE, ended |-> TRUE] : n \in 0..Len(whole) - 1}
        \cup UNION {{[lines |-> Cut(n, k), truncated |-> TRUE, ended |-> FALSE] :
                       k \in 0..Len(whole[n].args)} : n \in DOMAIN whole}

\* The slot's filter of a record, but for its owner.
Wanted(slot, l) == IF slot = "python" THEN IsPython(l.args)
                   ELSE IsNative(l.args) /\ l.pid # world.self

RunPs ==
  /\ At({"python", "native"}, "start")
  /\ \E output \in PsOutputs :
       LET lines == CompleteLines(output)
       IN  Continue([slot |-> worker.slot, step |-> "owners", truncated |-> output.truncated, lines |-> lines,
                     todo |-> {i \in ParsePsTable(lines) : Wanted(worker.slot, lines[i])},
                     found |-> {}, called |-> {},
                     comms |-> [i \in DOMAIN lines |-> lines[i].image]])

\* A failed ps leaves an empty collection that counts as fresh.
PsFails == /\ At({"python", "native"}, "start")
           /\ Conclude(Collected("fresh", {}, {}, {"command"}))

\* Mutant: off by one.
CappedLate(found, limit) == Cardinality(found) > limit + 1

Capped(found, limit) == Cardinality(found) > limit

\* The first of the places found, as many as the limit.
FirstOf(found, limit) == {i \in found : Cardinality({j \in found : j < i}) < limit}

\* One record at a time: /proc is asked who owns whatever has the pid by now.
AskOwner ==
  /\ At({"python", "native"}, "owners") /\ worker.todo # {}
  /\ LET i == Min(worker.todo)
         kept == IF ContainerOwned(worker.lines[i].pid) THEN {} ELSE {i}
     IN  Continue([worker EXCEPT !.todo = @ \ {i}, !.found = @ \cup kept])

\* The records that are published: those that passed, as many as the slot's limit.
Published == FirstOf(worker.found, Limits[worker.slot])
Uncalled == IF worker.slot = "native" THEN Published \ worker.called ELSE {}

\* real_comm: the kernel's name of whatever has the pid by now, or else that of the row.
ReadComm ==
  /\ At({"python", "native"}, "owners") /\ worker.todo = {} /\ Uncalled # {}
  /\ LET i == Min(Uncalled)
         now == {p.image : p \in {q \in ToSet(world.procs) : q.pid = worker.lines[i].pid}}
     IN  \E comm \in IF now = {} THEN {worker.comms[i]} ELSE now :
           Continue([worker EXCEPT !.called = @ \cup {i}, !.comms = [@ EXCEPT ![i] = comm]])

\* A Python process is named by the arguments of its row.
PublishProcesses ==
  /\ At({"python", "native"}, "owners") /\ worker.todo = {} /\ Uncalled = {}
  /\ LET Process(i) == LET row == worker.lines[i]
                       IN  [pid |-> row.pid, image |-> row.image, args |-> row.args,
                            comm |-> worker.comms[i], during |-> lived]
     IN  Conclude(Collected("fresh",
           {Node(<<worker.slot, worker.lines[i].pid>>, "host", Process(i)) : i \in Published}, {},
           {d \in {"capped", "truncated"} : \/ d = "capped" /\ Capped(worker.found, Limits[worker.slot])
                                            \/ d = "truncated" /\ worker.truncated}))

-----------------------------------------------------------------------------
(* systemd: the units, and then what each of them depends on *)

SystemdId(unit) == <<"systemd_service", SafeId(unit, "redacted")>>

\* parse_systemd_list_units, cut at the limit.  Output that the reader cut counts as whole: what
\* is left of its last line is a unit's whole name, or no record.
ListUnits ==
  /\ At({"systemd"}, "start")
  /\ \E n \in 0..Len(world.units) :
       LET listed == SelectSeq(Take(world.units, n), LAMBDA u : u.name \in ServiceUnits)
       IN  Continue([slot |-> "systemd", step |-> "show", all |-> ToSet(listed),
                     listed |-> Take(listed, Limits.units)])

\* External: systemctl show answers for a unit that has gone, too.
Detail(name) ==
  LET found == {u \in ToSet(world.units) : u.name = name}
      Of(kind) == UNION {u[kind] : u \in found}
  IN  [requires |-> Of("requires"), wants |-> Of("wants"), part_of |-> Of("part_of")]

\* External: a unit's id is printed first, then what it requires, wants and is part of; a
\* name cut short is no service's.
CutDetails(detail) ==
  {cut \in [requires : SUBSET detail.requires, wants : SUBSET detail.wants, part_of : SUBSET detail.part_of] :
     /\ cut.wants # {} => cut.requires = detail.requires
     /\ cut.part_of # {} => cut.requires = detail.requires /\ cut.wants = detail.wants}

\* The records of show, in the order of the units; output that the reader cut counts as whole.
ShowOutputs(names) ==
  {<<>>} \cup UNION {{Append([i \in 1..n - 1 |-> Detail(names[i])], last) : last \in CutDetails(Detail(names[n]))} :
                      n \in DOMAIN names}

\* systemd_dependency_pairs of one unit
Dependencies(name, detail) ==
  {[unit |-> name, on |-> k[2], rel |-> k[1]] :
     k \in {l \in (DOMAIN detail) \X ServiceUnits : l[2] \in detail[l[1]]}}

\* One for each dependency on it, so that two dependencies give two nodes of one id.
UnlistedNodes(pairs, listed) ==
  {Node(SystemdId(p.on), "host", <<"dependency", p>>) : p \in {q \in pairs : q.on \notin listed}}

ShowUnits ==
  /\ At({"systemd"}, "show") /\ worker.listed # <<>>
  /\ LET names == [i \in DOMAIN worker.listed |-> worker.listed[i].name]
         listed == ToSet(names)
         Joins(p) == SystemdId(p.unit) # SystemdId(p.on)
     IN  \E details \in ShowOutputs(names) :
           LET pairs == {p \in UNION {Dependencies(names[i], details[i]) : i \in DOMAIN details} : Joins(p)}
           IN  Conclude(Collected("fresh",
                 {Node(SystemdId(n), "host", <<"unit", n>>) : n \in listed} \cup UnlistedNodes(pairs, listed),
                 {[source |-> SystemdId(p.unit), target |-> SystemdId(p.on), rel |-> p.rel] : p \in pairs},
                 IF Cardinality(worker.all) > Len(worker.listed) THEN {"capped"} ELSE {}))

ShowNothing == /\ At({"systemd"}, "show") /\ worker.listed = <<>>
               /\ Conclude(Collected("fresh", {}, {}, {}))

\* Either command ends the collection; units that were listed are not kept.
SystemctlFails ==
  /\ At({"systemd"}, "start") \/ (At({"systemd"}, "show") /\ worker.listed # <<>>)
  /\ \E o \in {"failed", "timed_out"} : CommandFails(o)

-----------------------------------------------------------------------------
(* tmux *)

\* A line without its four fields is skipped; the limit is applied without a diagnostic.
TmuxNodes(sessions) ==
  LET whole == Take(SelectSeq(sessions, LAMBDA s : s.fields >= 4), Limits.sessions)
  IN  {Node(<<"tmux_session", whole[i].id>>, "host", <<i>>) : i \in DOMAIN whole}

\* Only tmux's own message, whole, says that no server runs: an empty inventory.
NoServer(tmux) == tmux.exit = 1 /\ tmux.stderr = "no server" /\ ~tmux.stderrTruncated

\* Output that the reader cut counts as whole: what is left of its last line is short of fields
\* or tells its session.
ListSessions ==
  /\ At({"tmux"}, "start")
  /\ LET tmux == world.tmux
     IN  CASE NoServer(tmux) -> Conclude(Collected("fresh", {}, {}, {}))
           [] ~NoServer(tmux) /\ tmux.exit # 0 -> CommandFails("failed")
           [] OTHER -> \E n \in 0..Len(tmux.sessions) :
                LET nodes == TmuxNodes(Take(tmux.sessions, n))
                IN  Conclude(Collected("fresh", nodes, {RunsOnHost(m.id) : m \in nodes}, {}))

ListSessionsTimesOut == At({"tmux"}, "start") /\ CommandFails("timed_out")

-----------------------------------------------------------------------------
(* cron: the fixed files, each checked and then opened, and the user's table *)

Crontab == "/etc/crontab"

FileAt(path) == IF path \in DOMAIN world.files THEN world.files[path] ELSE [form |-> "absent"]

CronStart ==
  /\ At({"cron"}, "start")
  /\ Continue([slot |-> "cron", step |-> "check", paths |-> <<Crontab>>, todo |-> {1},
               listed |-> FALSE, file |-> None, jobs |-> {}, diagnostics |-> {}])

\* The first of the paths that are left.
CronPath == worker.paths[Min(worker.todo)]

\* The path is done with: its jobs, if any, are added.
CronNext(jobs, diagnostics) ==
  Continue([worker EXCEPT !.step = "check", !.todo = @ \ {Min(@)}, !.file = None,
                          !.jobs = @ \cup jobs, !.diagnostics = @ \cup diagnostics])

\* cron_path_is_regular looks at the name, before it is opened.
CronCheck ==
  /\ At({"cron"}, "check") /\ worker.todo # {}
  /\ IF FileAt(CronPath).form = "regular" THEN Continue([worker EXCEPT !.step = "open"])
     ELSE CronNext({}, {})

\* Mutant: the check of the name is trusted.
CronOpensFollowing(file) == file.form \in {"regular", "link"}

\* A link is not followed and what was opened must be a file.
CronOpens(file) == file.form = "regular"

CronOpen ==
  /\ At({"cron"}, "open")
  /\ LET file == FileAt(CronPath)
     IN  CASE ~CronOpens(file) -> CronNext({}, {})
           [] CronOpens(file) /\ file.large -> CronNext({}, {"large"})
           [] OTHER -> Continue([worker EXCEPT !.step = "read", !.file = file])

\* cron_command: the schedule, and in a system file the user, come before the command.
IsJob(line, userTable) ==
  /\ line.kind \in {"at", "fields"}
  /\ line.fields > (IF line.kind = "at" THEN 1 ELSE 5) + (IF userTable THEN 0 ELSE 1)

JobsOf(source, lines, userTable) ==
  {[source |-> source, line |-> i, text |-> lines[i]] :
     i \in {j \in DOMAIN lines : IsJob(lines[j], userTable)}}

\* The opened file, or what has been written into it since: again within the limit.
CronRead ==
  /\ At({"cron"}, "read")
  /\ \E file \in {worker.file} \cup {f \in {FileAt(CronPath)} : f.form = "regular"} :
       IF file.large THEN CronNext({}, {"large"})
       ELSE CronNext(JobsOf(CronPath, file.lines, FALSE), {})

\* bounded_cron_d_paths: a directory over the limit contributes nothing.
ListCronD ==
  /\ At({"cron"}, "check") /\ worker.todo = {} /\ ~worker.listed
  /\ LET entries == world.cronD
         within == world.cronDReadable /\ Len(entries) <= Limits.cronEntries
     IN  Continue([worker EXCEPT !.listed = TRUE, !.paths = IF within THEN entries ELSE @,
           !.todo = IF within THEN {i \in DOMAIN entries : FileAt(entries[i]).form = "regular"} ELSE {},
           !.diagnostics = @ \cup {d \in {"skipped", "capped"} :
              \/ d = "skipped" /\ ~world.cronDReadable
              \/ d = "capped" /\ world.cronDReadable /\ Len(entries) > Limits.cronEntries}])

\* What crontab prints: the user's table, or as much of it as the reader keeps.
CrontabOutputs ==
  {world.user} \cup UNION {{Append(Take(world.user, n - 1), [world.user[n] EXCEPT !.fields = k]) :
                              k \in 0..world.user[n].fields} : n \in DOMAIN world.user}

\* The user's table, where cut output counts as whole; its failure is told, a non-zero exit is not.
UserCrontab ==
  /\ At({"cron"}, "check") /\ worker.todo = {} /\ worker.listed
  /\ \E exit \in {"ok", "nonzero", "error"}, table \in CrontabOutputs :
       LET jobs == worker.jobs \cup (IF exit = "ok" THEN JobsOf("user crontab", table, TRUE) ELSE {})
           nodes == {Node(<<"scheduled_job", j.source, j.line, j.text>>, "host", j) : j \in jobs}
       IN  Conclude(Collected("fresh", nodes, {RunsOnHost(n.id) : n \in nodes},
                            worker.diagnostics \cup (IF exit = "error" THEN {"skipped"} ELSE {})))

-----------------------------------------------------------------------------
(* npm: directories walked depth first, manifests opened beneath the root *)

NpmStart ==
  /\ At({"npm"}, "start")
  /\ IF ~env.projectRoot THEN Conclude(Collected("disabled", {}, {}, {"skipped"}))
     ELSE Continue([slot |-> "npm", step |-> "visit", pending |-> <<<<>>>>, visited |-> 0,
                    projects |-> <<>>, diagnostics |-> {}])

SkipDirectories == {".git", "node_modules", "dist", "target"}

\* One directory of discover_npm_projects; the last pushed comes first.
NpmVisit ==
  /\ At({"npm"}, "visit") /\ worker.pending # <<>> /\ worker.visited < Limits.directories
  /\ LET dir == Last(worker.pending)
         seen == [worker EXCEPT !.pending = Front(@), !.visited = @ + 1]
         Entered(children) == [k \in DOMAIN children |-> Append(dir, children[k])]
         children == SelectSeq(world.dirs[dir].children, LAMBDA c : c \notin SkipDirectories)
         marked == world.dirs[dir].manifest # None \/ world.dirs[dir].lockfile
         deeper == [seen EXCEPT !.pending = @ \o Reverse(Entered(children))]
     IN  CASE dir \notin DOMAIN world.dirs -> Continue([seen EXCEPT !.diagnostics = @ \cup {"skipped"}])
           [] dir \in DOMAIN world.dirs /\ ~marked -> Continue(deeper)
           [] dir \in DOMAIN world.dirs /\ marked /\ Len(worker.projects) >= Limits.projects ->
                Continue([deeper EXCEPT !.pending = <<>>, !.diagnostics = @ \cup {"capped"}])
           [] OTHER -> Continue([slot |-> "npm", step |-> "manifest", dir |-> dir,
                                 lockfile |-> world.dirs[dir].lockfile, walk |-> deeper])

\* read_package_manifest_beneath: no component of the path may be a link by now.
OpensBeneath(dir) ==
  /\ dir \in DOMAIN world.dirs
  /\ \A n \in 0..Len(dir) : SubSeq(dir, 1, n) \notin world.links

\* Scopes in the fixed order, cut at the limit.
ManifestDependencies(m) ==
  IF m = None THEN <<>> ELSE Take(FlattenSeq(world.manifests[m]), Limits.dependencies)

\* summarize_npm_project.  "absent" is a manifest that has gone; "bad" is a link, a pipe, one
\* that is too large, or no JSON.
NpmManifest ==
  /\ At({"npm"}, "manifest")
  /\ LET dir == worker.dir
         manifest == world.dirs[dir].manifest
         Summary(m) == [dir |-> dir, manifest |-> m, dependencies |-> ManifestDependencies(m)]
         Skipped == [worker.walk EXCEPT !.diagnostics = @ \cup {"skipped"}]
     IN  CASE ~OpensBeneath(dir) \/ manifest = "bad" -> Continue(Skipped)
           [] OpensBeneath(dir) /\ manifest = None /\ ~worker.lockfile -> Continue(worker.walk)
           [] OTHER -> Continue([worker.walk EXCEPT !.projects = Append(@, Summary(manifest))])

\* Named by its path, or by its place when the path is redacted.
ProjectId(dir, i) == <<"npm_project", IF \E k \in DOMAIN dir : dir[k] \in Secrets THEN <<i>> ELSE dir>>

PackageId(d, i) == <<"npm_package", SafeId(d.name, "package"),
                     IF d.version \in Secrets THEN <<"redacted", i>> ELSE <<d.version>>>>

\* The projects, in the order of their directories, which is that of the walk.
NpmFinish ==
  /\ At({"npm"}, "visit") /\ (worker.pending = <<>> \/ worker.visited = Limits.directories)
  /\ LET projects == worker.projects
         Id(p) == ProjectId(projects[p].dir, p)
         Package(k) == PackageId(projects[k[1]].dependencies[k[2]], k[2])
         declared == UNION {{<<p, d>> : d \in DOMAIN projects[p].dependencies} : p \in DOMAIN projects}
     IN  Conclude(Collected("fresh",
           {Node(Id(p), "project", projects[p]) : p \in DOMAIN projects}
             \cup {Node(Package(k), "package", k) : k \in declared},
           {[source |-> Id(k[1]), target |-> Package(k), rel |-> "depends_on"] : k \in declared}
             \cup (IF Restricted THEN {} ELSE {RunsOnHost(Id(p)) : p \in DOMAIN projects}),
           worker.diagnostics \cup (IF worker.pending # <<>> THEN {"capped"} ELSE {})))

-----------------------------------------------------------------------------
(* The host's node, its listeners and PM2; the network's infrastructure *)

\* The listening sockets of the tables that could be read.
Listeners(readable) ==
  LET Lines(t) == {i \in DOMAIN world.tables[t] : world.tables[t][i].listening}
  IN  UNION {{Node(<<"network_listener", world.tables[t][i].address>>, "host", <<t, i>>) :
                i \in Lines(t)} : t \in readable}

Pm2Apps == {Node(<<"pm2_app", world.apps[i]>>, "host", <<i>>) : i \in DOMAIN world.apps}

\* A table that cannot be read, and PM2's failures, are only told.
HostScoped ==
  /\ At({"host_scoped"}, "start")
  /\ \E readable \in SUBSET DOMAIN world.tables, pm2 \in {"ok", "error", "invalid"} :
       Conclude(Collected("fresh",
         {HostNode} \cup Listeners(readable) \cup (IF pm2 = "ok" THEN Pm2Apps ELSE {}), {},
         (IF readable # DOMAIN world.tables THEN {"skipped"} ELSE {})
           \cup (IF pm2 # "ok" THEN {"command"} ELSE {})))

\* Docker's containers are evidence of the host in every namespace: one node for each product
\* that the container's name, image or role spells.
NetworkContainers ==
  UNION {{Node(<<product, "container", c.id>>, "docker", c.id) : product \in c.products} :
           c \in ToSet(world.containers)}

\* The configuration files of known proxies and name servers that exist.
ConfigMarkers == {Node(<<"config", m>>, "host", m) : m \in world.markers}

\* collect_tailscale, collect_headscale: only what was opted in, and only an answer in JSON.
Overlay(p, outcome) ==
  IF env[p] # "true" \/ outcome # "ok" THEN {}
  ELSE LET peers == world.peers[p]
           Id(i) == IF peers[i] \in Secrets THEN <<p, "node", "peer", i>> ELSE <<p, "node", peers[i]>>
       IN  {Node(Id(i), "host", peers[i]) : i \in DOMAIN peers}

Network ==
  /\ At({"network"}, "start")
  /\ \E outcomes \in [{"tailscale", "headscale"} -> {"ok", "error", "invalid"}] :
       LET overlays == UNION {Overlay(p, outcomes[p]) : p \in DOMAIN outcomes}
           Told(p) == env[p] # "true" \/ outcomes[p] # "ok"
       IN  Conclude(Collected("fresh",
             NetworkContainers \cup (IF Restricted THEN {} ELSE overlays \cup ConfigMarkers),
             {[source |-> n.id, target |-> <<"docker_container", n.of>>, rel |-> "related_to"] :
                n \in NetworkContainers},
             IF Restricted \/ (\E p \in DOMAIN outcomes : Told(p)) THEN {"skipped"} ELSE {}))

-----------------------------------------------------------------------------
(* Start of the daemon, and the guard of its routes *)

IsLoopback(host) == host \in {None, "localhost", "127.0.0.1"}
IsAddress(host) == IsLoopback(host) \/ host = "0.0.0.0"

\* read_daemon_token_env: the daemon's own token, or the API's.
TokenEnv == IF env.daemonToken # None THEN env.daemonToken ELSE env.apiToken

\* validate_bind_host
\* Mutant: an opt-in is enough.
BindHostAnyToken == IsAddress(env.host) /\ (IsLoopback(env.host) \/ env.allowRemote = "true")

BindHost ==
  /\ IsAddress(env.host)
  /\ IsLoopback(env.host) \/ (env.allowRemote = "true" /\ TokenEnv # None)

\* A blank token, or a port that is no number, ends the process.
StartsUp == TokenEnv # "" /\ env.port = "number" /\ BindHost

Main ==
  /\ family = "startup" /\ served.status = "off"
  /\ served' = [served EXCEPT !.status = IF StartsUp THEN "listening" ELSE "exited"]
  /\ UNCHANGED <<env, family, world, changes, worker, lived, views>>

\* require_daemon_bearer_token: exactly two words.
Authorized(words) == TokenEnv = None \/ words = <<"Bearer", TokenEnv>>

Route(words) ==
  /\ family = "startup" /\ served.status = "listening"
  /\ served' = [served EXCEPT !.request = words,
                              !.code = IF Authorized(words) THEN "ok" ELSE "unauthorized"]
  /\ UNCHANGED <<env, family, world, changes, worker, lived, views>>

-----------------------------------------------------------------------------
\* The host changes under a collection.
Change ==
  /\ changes < MaxChanges /\ worker # Idle
  /\ world' \in Worlds[family] \ {world} /\ changes' = changes + 1
  /\ lived' = lived \cup Living(world')
  /\ UNCHANGED <<env, family, worker, views, served>>

HostsInit ==
  /\ family \in DOMAIN FamilySlots
  /\ env \in Environments[family]
  /\ world \in Worlds[family]
  /\ changes = 0 /\ worker = Idle /\ lived = {}
  /\ views = [s \in FamilySlots[family] |-> Nothing]
  /\ served = [status |-> "off", request |-> <<>>, code |-> None]

HostsNext ==
  \/ Change \/ (\E s \in FamilySlots[family] : Start(s))
  \/ RunPs \/ PsFails \/ AskOwner \/ ReadComm \/ PublishProcesses
  \/ ListUnits \/ ShowUnits \/ ShowNothing \/ SystemctlFails
  \/ ListSessions \/ ListSessionsTimesOut
  \/ CronStart \/ CronCheck \/ CronOpen \/ CronRead \/ ListCronD \/ UserCrontab
  \/ NpmStart \/ NpmVisit \/ NpmManifest \/ NpmFinish
  \/ HostScoped \/ Network
  \/ Main \/ (\E r \in Requests : Route(r))

HostsSpec == HostsInit /\ [][HostsNext]_hostsVars

-----------------------------------------------------------------------------
(* Properties *)

\* What a collection of the slot shows, for a property of the slot.
Shown(slot) == IF slot \in DOMAIN views THEN views[slot].nodes ELSE {}

\* The processes of every state of the host.
AnyProcess == UNION {ToSet(w.procs) : w \in Worlds["processes"]}

\* What ps can list.  A pid is no other process's at the time; an image is that of one process,
\* which neither leaves a container nor enters one.
ASSUME ProcessesAssumption ==
  /\ \A w \in Worlds["processes"] :
       /\ w.procs \in Seq(AnyProcess)
       /\ \A i, j \in DOMAIN w.procs : w.procs[i].pid = w.procs[j].pid => i = j
  /\ \A p \in AnyProcess : p.pid # 0 /\ p.args # <<>>
  /\ \A p, q \in AnyProcess : (p.image = q.image /\ ImpliesContainer(p.cgroup)) =>
       q.cgroup = "unreadable" \/ ImpliesContainer(q.cgroup)

\* `program`, what a process really runs, is what its command line tells effective_executable.
ASSUME ProgramsAssumption ==
  \A p \in AnyProcess : /\ p.program = "python" => IsPython(p.args)
                        /\ p.program = "native" => IsNative(p.args)

\* The entries of a directory are names.
ASSUME DirectoriesAssumption == \A w \in Worlds["cron"] : w.cronD \in Seq(STRING)

\* The states of the collections; a failed one has nothing to publish: the scheduler keeps what
\* it has retained instead (runtime_collection.rs, ProviderCollectionError).
HostsTypeOK ==
  /\ env \in Environments[family] /\ world \in Worlds[family] /\ changes \in 0..MaxChanges
  /\ \A s \in DOMAIN views :
       /\ views[s].state \in {"none", "fresh", "disabled", "failed", "timed_out"}
       /\ views[s].state \in {"none", "failed", "timed_out"} => views[s].nodes = {}
  /\ served.status \in {"off", "listening", "exited"}

\* A program that no container runs.
HostImage(image) == \A p \in AnyProcess : p.image = image => ~ImpliesContainer(p.cgroup)

\* What is shown as the host's is the host's.  Unless the namespace was declared to be the
\* host's nothing read from the daemon's own is shown and nothing runs on the host's node
\* (pid_namespace.rs, collect_provider_slot).  Otherwise what is shown of a process, its row and
\* its name, is of processes that had its pid while it was collected, one of them the host's
\* own: a container's process that keeps its pid never surfaces (is_container_owned).  ps, the
\* owner and the name are read one after the other, so a container's process is shown when its
\* pid changes hands in between (pid_namespace.rs:136-141), and only then.
HostShowsItself ==
  /\ env.pidNamespace # "host" =>
       \A s \in DOMAIN views :
         /\ \A n \in views[s].nodes : n.origin \in {"docker", "project", "package"}
         /\ \A e \in views[s].edges : e.target # HostNode.id
  /\ \A n \in Shown("python") \cup Shown("native") :
       /\ \E p \in n.of.during : p[1] = n.of.pid /\ HostImage(p[2])
       /\ \A image \in {n.of.image, n.of.comm} : <<n.of.pid, image>> \in n.of.during

\* A quiet host: when nothing changed and the collections say nothing, all of the host's own
\* processes are shown.
QuietIsComplete ==
  (family = "processes" /\ changes = 0 /\ \A s \in DOMAIN views : views[s].state = "fresh"
                                                                /\ views[s].diagnostics = {}) =>
    \A p \in ToSet(world.procs) :
      (p.cgroup = "/user.slice" /\ p.program \in DOMAIN views /\ p.pid # world.self) =>
        \E n \in Shown(p.program) : n.of.pid = p.pid

\* A published job was in a file that was a regular one, within the limits, under its own
\* name: not behind a link that took the name's place after the check, and not of a directory
\* with too many entries (cron.rs).
JobsOfCheckedFiles ==
  \A n \in {m \in Shown("cron") : m.of.source # "user crontab"} :
    /\ n.of.source # Crontab =>
         \E w \in Worlds["cron"] : n.of.source \in ToSet(w.cronD) /\ Len(w.cronD) <= Limits.cronEntries
    /\ \E w \in Worlds["cron"] :
         /\ n.of.source \in DOMAIN w.files
         /\ LET file == w.files[n.of.source]
            IN  /\ file.form = "regular" /\ ~file.large
                /\ n.of.line \in DOMAIN file.lines /\ file.lines[n.of.line] = n.of.text

\* A project's manifest was beneath the root, under its own directories, although one of them
\* may have become a link after the walk (read_package_manifest_beneath).
ManifestsBeneathRoot ==
  \A n \in {m \in Shown("npm") : m.origin = "project" /\ m.of.manifest # None} :
    \E w \in Worlds["npm"] :
      /\ n.of.dir \in DOMAIN w.dirs /\ w.dirs[n.of.dir].manifest = n.of.manifest
      /\ \A k \in 0..Len(n.of.dir) : SubSeq(n.of.dir, 1, k) \notin w.links

\* No file is read that was not checked, whatever takes its name's place in between.
FilesReadAsChecked == JobsOfCheckedFiles /\ ManifestsBeneathRoot

\* A daemon that listens beyond the loopback answers no request without its token
\* (validate_bind_host and require_daemon_bearer_token).
RemoteNeedsToken ==
  (served.code = "ok" /\ ~IsLoopback(env.host)) =>
    \E token \in {env.daemonToken, env.apiToken} \ {None, ""} : served.request = <<"Bearer", token>>
================================================================================
