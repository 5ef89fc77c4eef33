------------------------------- MODULE MCCompose -------------------------------
EXTENDS Compose

ComposeYaml == "compose.yaml"
ComposeYml  == "compose.yml"
Override    == "compose.override.yml"

MCFiles == {ComposeYaml, ComposeYml, Override}
MCBaseFiles == <<ComposeYaml, ComposeYml>>
MCOverrides == [f \in MCFiles |-> <<Override>>]

File(document) == [form |-> "file", document |-> document]
Link(document) == [form |-> "link", document |-> document]
Absent == [form |-> "absent"]
Oversized == [form |-> "oversized"]

Yaml(project, services) ==
  [parses |-> TRUE, hasServices |-> TRUE, project |-> project, services |-> services]
Broken == [parses |-> FALSE, hasServices |-> FALSE, project |-> NoText, services |-> <<>>]
NoServices == [Broken EXCEPT !.parses = TRUE]

Listed(items) == [form |-> "list", items |-> items]
NotAList == [form |-> "invalid", items |-> <<>>]

Service(name, image, environment, dependsOn, volumes) ==
  [name |-> name, image |-> image, environment |-> environment, dependsOn |-> dependsOn,
   volumes |-> volumes]

Short(text) == [form |-> "short", text |-> text]
Long(type, source, target) ==
  [form |-> "long", type |-> type, source |-> source, target |-> target, readOnly |-> FALSE]

Variable(key, value) == [key |-> key, value |-> value]

Api == <<"api">>
Db  == <<"db">>
Data == <<".", "/", "data", ":", "/", "srv", ":", "ro">>

\* A bind, a volume, and a note that repeats the bind's text.
Plain(note) ==
  Yaml(<<"shop">>,
    <<Service(Api, <<"alpine">>, <<Variable(<<"NOTE">>, note)>>, <<Db, NoText>>,
              Listed(<<Short(Data), Short(<<"cache", ":", "/", "cache">>)>>)),
      Service(Db, NoText, <<>>, <<>>, Listed(<<Short(<<"/", "var", "lib">>)>>))>>)

\* The bind has gone elsewhere.
Moved == Yaml(NoText, <<Service(Api, NoText, <<>>, <<>>, Listed(<<Short(<<".", "/", "new", ":", "/", "srv">>)>>))>>)

\* Spellings of the daemon's socket and of credentials, and a secret in a path.
Unsafe ==
  Yaml(<<"shop">>,
    <<Service(Api, NoText, <<Variable(<<"s3cret">>, <<"a">>), Variable(<<"s3cret", "2">>, <<"b">>)>>, <<>>,
              Listed(<<Short(<<"~", "/", ".ssh", ":", "/", "keys">>),
                       Short(<<"~", "/", "..", "/", "/", "var", "/", "lib", "/", "docker", ":", "/", "v">>),
                       Short(<<"..", "/", ".", "/", "..", "/", "run", "/", "docker.sock", ":", "/", "sock">>),
                       Long("bind", <<"${", "D", ":", "-", "/", "var", "/", "lib", "/", "docker", "}", "/", "x">>,
                            <<"/", "d">>)>>)),
      Service(<<"s3cret">>, NoText, <<>>, <<>>,
              Listed(<<Short(<<".", "/", "s3cret", ":", "/", "etc">>), Short(<<"/", "log">>)>>))>>)

\* What is refused or only reported.
Odd ==
  Yaml(<<"other">>,
    <<Service(NoText, NoText, <<>>, <<>>, Listed(<<>>)),
      Service(Db, NoText, <<Variable(<<"K">>, NoText)>>, <<>>, NotAList),
      Service(Api, <<"debian">>, <<>>, <<Db>>,
              Listed(<<Short(<<"/", "run", "/", "docker.sock", ":", "/", "b", ":", "ro", ":", "x">>),
                       [form |-> "other"],
                       Long("bind", <<"/", "var", "/", "lib", "/", "docker">>, NoText),
                       Long("tmpfs", NoText, <<"/", "srv">>),
                       Short(<<"C", ":", "\\", "x", ":", "data">>),
                       Short(<<"${", "D", "-", "/", "var", "/", "lib", "/", "docker", "}", ":", "/", "x">>)>>))>>)

MCHolds ==
  ("absent" :> Absent) @@ ("plain" :> File(Plain(<<"x">>))) @@ ("noted" :> File(Plain(Data)))
  @@ ("moved" :> File(Moved)) @@ ("unsafe" :> File(Unsafe)) @@ ("odd" :> File(Odd)) @@ ("broken" :> File(Broken))
  @@ ("empty" :> File(NoServices)) @@ ("link" :> Link(Unsafe)) @@ ("oversized" :> Oversized)

MCContents == (ComposeYaml :> {"plain", "noted", "unsafe", "odd", "broken"})
              @@ (ComposeYml :> {"absent", "empty"})
              @@ (Override :> {"absent", "plain", "moved", "link", "oversized"})

MCBaseDir == <<Root, <<"home">>, <<"shop">>>>
MCHome == <<"/", "root">>
MCPresent == {<<Root, <<"home">>, <<"shop">>, <<"data">>>>}
MCSymlinks == {<<Root, <<"etc">>>>}

RuntimeMount(id, kind, source, target) ==
  [id |-> id, kind |-> kind, source |-> source, target |-> target]

Container(name, role, mounts) == [name |-> name, role |-> role, mounts |-> mounts]

Running ==
  <<Container(<<"shop", "-", "api", "-", "1">>, <<"service">>,
              <<RuntimeMount(<<"m1">>, "bind", <<Root, <<"home">>, <<"shop">>, <<"data">>>>, <<"/", "srv">>),
                RuntimeMount(<<"m2">>, "named", <<"old">>, <<"/", "cache">>)>>),
    Container(<<"x">>, Db, <<RuntimeMount(<<"m3">>, "anonymous", NoText, <<"/", "var", "lib">>)>>)>>

MCSnapshots ==
  {[mode |-> "docker", allowMock |-> FALSE, containers |-> Running],
   [mode |-> "mock", allowMock |-> FALSE, containers |-> Running]}

MCScanRequests == {<<>>, <<ComposeYaml, Override>>, <<"../outside">>}

PlanRequest(mount, source, target) ==
  [file |-> ComposeYaml, service |-> Api, mount |-> mount, source |-> source, target |-> target]

MCPlanRequests ==
  {PlanRequest(1, <<".", "/", "new">>, NoText), PlanRequest(1, NoText, <<"/", "new">>),
   PlanRequest(1, <<"..", "/", "new">>, <<"/", "new">>), PlanRequest(1, NoText, <<"new">>),
   PlanRequest(2, <<".", "/", "new">>, <<"/", "new">>), PlanRequest(1, NoText, NoText),
   PlanRequest(3, <<"/", "x">>, <<"/", "y">>)}
================================================================================
