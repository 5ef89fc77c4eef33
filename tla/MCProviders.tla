------------------------------ MODULE MCProviders ------------------------------
(***************************************************************************)
(* Providers on hosts of two or three processes, units, files and          *)
(* directories.  The worlds of a family are the states between which the   *)
(* host may change while a collection runs.                                *)
(***************************************************************************)
EXTENDS Providers

MCKernel == {"[kthreadd]"}
MCOptions == {"-u", "-m", "-k"}
MCAssignments == {"A=b"}
MCDurations == {"5s"}
MCPythons == {"python3"}
MCServiceUnits == {"a.service", "b.service", "c.service", "secret.service"}
MCSecrets == {"secret.service", "token", "secret"}

MCLimits == [python |-> 1, native |-> 2, units |-> 2, sessions |-> 1, cronEntries |-> 2,
             directories |-> 4, projects |-> 2, dependencies |-> 2]

\* `program` says what the process really runs.
Process(pid, image, args, cgroup, program) ==
  [pid |-> pid, image |-> image, args |-> args, cgroup |-> cgroup, program |-> program]

Node1(cgroup) == Process(2, "node", <<"sudo", "-u", "python3", "node">>, cgroup, "native")
Worker(pid) == Process(pid, "worker", <<"timeout", "-k", "5s", "5s", "env", "A=b", "gunicorn">>,
                       "/user.slice", "python")
Boxed(pid, cgroup) == Process(pid, "boxed", <<"nginx", "python3">>, cgroup, "native")
Kthread == Process(1, "kthread", <<"[kthreadd]">>, "/user.slice", "kernel")
Daemon == Process(9, "daemon", <<"launch", "-m">>, "/user.slice", "native")
Script == Process(3, "script", <<"python3", "-m", "job">>, "/user.slice", "python")
Shell == Process(5, "shell", <<"bash">>, "/user.slice", "native")

ProcessWorlds ==
  {[procs |-> ps, self |-> 9] :
     ps \in {<<Kthread, Node1("/user.slice"), Worker(3), Daemon>>,
             <<Node1("unreadable"), Boxed(3, "/docker/")>>,
             <<Boxed(2, "unreadable"), Script, Shell>>,
             <<Node1("/user.slice"), Boxed(4, "docker-.scope"), Worker(3), Process(6, "two", <<"python3">>, "/user.slice", "python")>>,
             <<Shell, Node1("/user.slice"), Process(7, "third", <<"nohup", "ruby">>, "/user.slice", "native")>>}}

Unit(name, requires, wants, part_of) ==
  [name |-> name, requires |-> requires, wants |-> wants, part_of |-> part_of]

SystemdWorlds ==
  {[units |-> us] :
     us \in {<<>>,
             <<Unit("a.service", {"b.service", "x.target"}, {"c.service"}, {}),
               Unit("b.service", {"c.service"}, {}, {"a.service"})>>,
             <<Unit("a.service", {"a.service"}, {"secret.service"}, {}), Unit("x.target", {}, {}, {}),
               Unit("b.service", {}, {}, {}), Unit("c.service", {}, {"b.service"}, {})>>,
             <<Unit("secret.service", {"b.service"}, {}, {"c.service"})>>}}

Session(id, fields) == [id |-> id, fields |-> fields]

TmuxWorlds ==
  {[tmux |-> [exit |-> 0, stderr |-> "", stderrTruncated |-> FALSE,
              sessions |-> <<Session("s0", 2), Session("s1", 4), Session("s2", 5)>>]]}
    \cup {[tmux |-> [exit |-> 1, stderr |-> e, stderrTruncated |-> t, sessions |-> <<>>]] :
            e \in {"no server", "other"}, t \in BOOLEAN}

Line(kind, fields) == [kind |-> kind, fields |-> fields]
Regular(lines) == [form |-> "regular", large |-> FALSE, lines |-> lines]
Linked(lines) == [form |-> "link", large |-> FALSE, lines |-> lines]
Large == [form |-> "regular", large |-> TRUE, lines |-> <<Line("at", 9)>>]

CronWorld(crontab, a, b, entries, readable) ==
  [files |-> [p \in {Crontab, "a", "b"} |-> CASE p = Crontab -> crontab [] p = "a" -> a [] OTHER -> b],
   cronD |-> entries, cronDReadable |-> readable, user |-> <<Line("at", 2), Line("fields", 5)>>]

CronWorlds ==
  {CronWorld(c, a, Regular(<<Line("comment", 1), Line("fields", 7)>>), entries, TRUE) :
     c \in {Regular(<<Line("at", 2), Line("at", 3)>>), Linked(<<Line("at", 4)>>)},
     a \in {Regular(<<Line("fields", 8)>>), Linked(<<Line("fields", 10)>>), Large},
     entries \in {<<"a", "b">>, <<"a">>}}
    \cup {CronWorld(Large, Regular(<<Line("fields", 9)>>), Linked(<<Line("fields", 11)>>), e[1], e[2]) :
            e \in {<<<<"a", "b", "c">>, TRUE>>, <<<<>>, FALSE>>}}

Directory(children, manifest, lockfile) ==
  [children |-> children, manifest |-> manifest, lockfile |-> lockfile]

Manifests ==
  [m \in {"root", "app", "outside"} |->
     CASE m = "root" -> <<<<[name |-> "left", version |-> "1"]>>, <<>>, <<>>, <<[name |-> "token", version |-> "secret"]>>>>
       [] m = "app" -> <<<<[name |-> "left", version |-> "1"]>>, <<[name |-> "right", version |-> "2"]>>, <<>>,
                         <<[name |-> "dev", version |-> "3"]>>>>
       [] OTHER -> <<<<[name |-> "other", version |-> "9"]>>, <<>>, <<>>, <<>>>>]

NpmWorld(dirs, links) == [dirs |-> dirs, links |-> links, manifests |-> Manifests]

NpmDirs(app, sub, extra) ==
  [d \in {<<>>, <<"app">>, <<"app", "sub">>, <<"token">>} \ extra |->
     CASE d = <<>> -> Directory(<<"app", "node_modules", "token">>, "root", FALSE)
       [] d = <<"app">> -> Directory(<<"sub">>, app, TRUE)
       [] d = <<"app", "sub">> -> Directory(<<"deep">>, sub, FALSE)
       [] OTHER -> Directory(<<>>, "none", TRUE)]

NpmWorlds ==
  {NpmWorld(NpmDirs("app", "none", {}), {}),
   NpmWorld(NpmDirs("none", "app", {}), {}),
   NpmWorld(NpmDirs("outside", "outside", {}), {<<"app">>}),
   NpmWorld(NpmDirs("bad", "app", {<<"token">>}), {}),
   NpmWorld(NpmDirs("none", "none", {<<"app", "sub">>}), {})}

Socket(listening, address) == [listening |-> listening, address |-> address]

HostWorlds ==
  {[tables |-> [t \in {"tcp", "tcp6"} |->
                  IF t = "tcp" THEN <<Socket(TRUE, "any:80"), Socket(FALSE, "lo:99"), Socket(TRUE, "any:80")>>
                  ELSE <<Socket(TRUE, "any6:80")>>],
    apps |-> <<"web", "web">>]}

NetworkWorlds ==
  {[containers |-> <<[id |-> "c1", products |-> {"traefik", "tailscale"}], [id |-> "c2", products |-> {}]>>,
    peers |-> [p \in {"tailscale", "headscale"} |-> <<"peer-a", "secret", "secret">>],
    markers |-> {"/etc/nginx/nginx.conf"}]}

MCWorlds ==
  [processes |-> ProcessWorlds, systemd |-> SystemdWorlds, tmux |-> TmuxWorlds, cron |-> CronWorlds,
   npm |-> NpmWorlds, host |-> HostWorlds, network |-> NetworkWorlds, startup |-> {[none |-> 0]}]

Env0 == [pidNamespace |-> "host", projectRoot |-> TRUE, tailscale |-> "true", headscale |-> "1",
         daemonToken |-> "none", apiToken |-> "none", host |-> "none", allowRemote |-> "none",
         port |-> "number"]

Scopes == {[Env0 EXCEPT !.pidNamespace = m] : m \in {"host", "Host", "auto", "none", "restricted"}}

Startups == {[Env0 EXCEPT !.daemonToken = d, !.apiToken = a, !.host = h, !.allowRemote = r, !.port = p] :
               d \in {"none", "", "t1"}, a \in {"none", "", "t2"}, r \in {"none", "true", "yes"},
               h \in {"none", "localhost", "127.0.0.1", "0.0.0.0", "name"}, p \in {"number", "text"}}

MCEnvironments ==
  [f \in DOMAIN MCWorlds |->
     CASE f = "startup" -> Startups
       [] f = "npm" -> Scopes \cup {[Env0 EXCEPT !.projectRoot = FALSE]}
       [] OTHER -> Scopes]

MCRequests == {<<>>, <<"Bearer">>, <<"Bearer", "t1">>, <<"Bearer", "t2">>, <<"Bearer", "t1", "t1">>,
               <<"bearer", "t1">>}
================================================================================
