---------------------------- MODULE MCPublication ----------------------------
(* A host with two containers, seen by two provider slots. *)
EXTENDS Publication

Container(id, name, service, status, ports, networks, mounts, dependsOn) ==
    [id |-> id, names |-> <<name>>, image |-> "image", status |-> status, service |-> service,
     networks |-> networks, ports |-> ports, mounts |-> mounts, dependsOn |-> dependsOn]

Port(ip) == [ip |-> ip, public |-> 80, private |-> 8080, protocol |-> "tcp"]

Internal == [id |-> "net", name |-> "net", internal |-> TRUE]

Socket == [type |-> "bind", name |-> "", source |-> "docker.sock", target |-> "sock"]

Web(ports) == Container("c1", "web", "web", "Up", ports, {"net"}, {Socket}, {[service |-> "db"]})
Db == Container("c2", "db", "db", "Exited", <<>>, {"net", "gone"}, {}, {[service |-> "web"]})

Inventory(containers) == [containers |-> containers, networks |-> <<Internal>>, volumes |-> <<"data">>]

\* Published once, and on both stacks: the second lists one port twice.
SingleStack == Inventory(<<Web(<<Port("0.0.0.0")>>), Db>>)
DualStack == Inventory(<<Web(<<Port("0.0.0.0"), Port("::")>>), Db>>)

MCInventories == {SingleStack, DualStack}
MCMockInventory == Inventory(<<Web(<<Port("0.0.0.0")>>)>>)

Collection(nodes, edges, state) ==
    [nodes |-> nodes, edges |-> edges, diagnostics |-> {}, state |-> state]

Unit(name, status) == Node(<<"unit", name>>, <<"systemd", name>>, "systemd", "unit", name, status, <<>>)
Requires == [source |-> <<"unit", "a">>, target |-> <<"unit", "b">>, rel |-> "requires",
             evidence |-> {}, marker |-> "systemd_requires"]
MCCollections ==
    [network |-> {Collection({}, {}, "fresh")},
     systemd |-> {Collection({Unit("a", "active"), Unit("b", "failed")}, {Requires}, "fresh"),
                  Collection({}, {}, "disabled")}]

\* Compose declares a mount that the container of its service lacks.
Projection ==
    [fresh |-> TRUE, project |-> "p", files |-> {"f"}, at |-> 0,
     containers |-> <<[id |-> "c1", project |-> "p", files |-> {"f"}, service |-> "web",
                       mounts |-> {}]>>,
     scan |-> [files |-> {"f"}, warnings |-> FALSE,
               mounts |-> <<[service |-> "web", kind |-> "named", source |-> "data",
                             resolved |-> "", target |-> "srv"]>>]]

MCBindings == {NoBinding, Projection}
=============================================================================
