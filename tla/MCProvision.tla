---------------------------- MODULE MCProvision ----------------------------
(***************************************************************************)
(* Instances of Provision for TLC: the scripts of requests.                *)
(***************************************************************************)
EXTENDS Provision

Node(n, hosts, ver, backup) ==
    [name |-> n, hosts |-> hosts, source |-> "", restored |-> FALSE, ver |-> ver,
     backup |-> backup, conf |-> FALSE]

Systemd(node) == [node EXCEPT !.conf = TRUE]

A1 == Node("n1", <<"h1">>, 1, FALSE)
A2 == Node("n2", <<"h2">>, 1, FALSE)
A3 == Node("n3", <<"h3">>, 1, FALSE)
B1 == Node("n1", <<"h1", "h4">>, 1, TRUE)
B2 == Node("n2", <<"h2", "h4">>, 1, FALSE)
C1 == Node("n1", <<"h1", "h4">>, 2, TRUE)
C2 == Node("n2", <<"h2">>, 2, FALSE)
D1 == Systemd(A1)
D2 == Systemd(A2)
E1 == Systemd(B1)

Update(nodes, services, strikes) == Request("update", nodes, services, FALSE, {}, {}, strikes)
Forced(nodes, strikes) == Request("update", nodes, {}, TRUE, {}, {}, strikes)
Removing(nodes, hosts, strikes) == Request("update", nodes, {}, FALSE, hosts, {}, strikes)
Delete(strikes) == Request("delete", << >>, {}, FALSE, {}, {}, strikes)
Restore(nodes, services, targets, strikes) ==
    Request("restore", nodes, services, FALSE, {}, targets, strikes)

MCNodes == {"n1", "n2", "n3"}

Half == {"partial", "dropped"}

CreateScript == {<<Update(<<B1, A2>>, {"s"}, Half)>>}
AddNodeScript == {<<Update(<<A1, A2>>, {}, {}), Update(<<A1, A2, A3>>, {}, {"partial"})>>}
SystemdScript == {<<Update(<<D1>>, {}, {}), Update(<<D1, D2>>, {}, Half), Delete(Half)>>}
VersionScript == {<<Update(<<B1, A2>>, {}, {}),
                    Update(<<C1, C2>>, {}, Half \cup {"unpersisted", "lostsub", "upgrade"})>>}
RemoveNodeScript == {<<Update(<<A1, A2>>, {"s"}, {}), Update(<<A1>>, {}, Half)>>}
RemoveHostScript == {<<Update(<<E1, D2>>, {}, {}), Removing(<<E1>>, {"h2"}, Half)>>}
RestoreScript == {<<Update(<<B1, A2>>, {}, {}), Restore(<<B1, A2>>, {}, {"n1"}, Half)>>}
DeleteScript == {<<Update(<<B1, A2>>, {"s"}, {}), Delete(Half)>>}
ForceScript == {<<Update(<<B1, A2>>, {}, {}), Forced(<<B1, A2>>, Half)>>}
LossScript == {<<Update(<<B1, A2>>, {}, {}), Update(<<B1, A2>>, {}, {"lostinst"})>>}

\* Scripts of the disagreements.
RetryScript == {<<Update(<<A1, A2>>, {}, {}), Update(<<A1, A2, A3>>, {}, {"fail"})>>}
LostResultScript == {<<Update(<<A1, A2>>, {}, {"lost"}), Delete({})>>}
UnpersistedScript == {<<Update(<<A1, A2>>, {}, {"unpersisted"}), Delete({})>>}
LostReplicaScript == {<<Update(<<A1, B2>>, {}, {}), Update(<<A1, B2>>, {}, {"lostinst"})>>}
RestoreServiceScript ==
    {<<Update(<<A1, A2>>, {"s"}, {}), Restore(<<A1, A2>>, {"s"}, {"n1"}, {})>>}

MCScripts == CreateScript \cup AddNodeScript \cup SystemdScript \cup VersionScript
                \cup RemoveNodeScript \cup RemoveHostScript \cup RestoreScript \cup DeleteScript
                \cup ForceScript \cup LossScript
                \cup LostResultScript \cup UnpersistedScript \cup RestoreServiceScript
=============================================================================
