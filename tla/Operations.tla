----------------------------- MODULE Operations ----------------------------
(***************************************************************************)
(* The planned operations (server/internal/database/operations) and the    *)
(* resources they are made of: which desired states an update, a delete    *)
(* and an in-place restore go through, and the phases of the plans between *)
(* them.                                                                   *)
(*                                                                         *)
(* A node of a database specification is a record                          *)
(*   [name, hosts, source, restored, ver, backup, conf]                    *)
(* with its instances, one per host, in order; source is "" for none,      *)
(* restored says that it has a restore configuration, ver stands for every *)
(* setting an instance is generated from, backup that it has a backup      *)
(* configuration, conf that its orchestrator is systemd, which writes each *)
(* instance a pg_service.conf with the addresses of all nodes.  An         *)
(* instance is a pair <<node name, host>>.                                 *)
(***************************************************************************)
EXTENDS Resources

(***************************************************************************)
(* Identifiers.                                                            *)
(***************************************************************************)
NetId == <<"net">>
OrchId(i) == <<"orch", i>>
RestoreId(i) == <<"restore", i>>
InstId(i) == <<"inst", i>>
MonId(i) == <<"mon", i>>
ConfId(i) == <<"conf", i>>
NodeId(n) == <<"node", n>>
StanzaId(n) == <<"stanza", n>>
JobId(n) == <<"job", n>>
DbId(n) == <<"db", n>>
DumpId(n) == <<"dump", n>>
RolesId(n) == <<"roles", n>>
ServiceId(s) == <<"service", s>>
SlotId(p, s) == <<"slot", p, s>>
SubId(p, s) == <<"sub", p, s>>
SlotCreateId(p, s) == <<"slotcreate", p, s>>
SyncEventId(p, s) == <<"syncevent", p, s>>
WaitSyncId(p, s) == <<"waitsync", p, s>>
CatchupId(src, peer) == <<"catchup", src, peer>>
LagId(o, r) == <<"lag", o, r>>
SlotAdvId(p, s) == <<"slotadv", p, s>>
OriginAdvId(p, s) == <<"originadv", p, s>>

NoInstance == << >>
NoLSN == 0

Instances(node) == {<<node.name, node.hosts[k]>> : k \in DOMAIN node.hosts}
Names(nodes) == {nodes[k].name : k \in DOMAIN nodes}

(***************************************************************************)
(* Resources of an instance.  What an orchestrator generates for one (the  *)
(* directories, certificates, configuration files, Patroni records, the    *)
(* service) is one resource, as is the chain that scales the service down, *)
(* restores its data directory and scales it up again.                     *)
(***************************************************************************)
NetData == Data("net", {}, {}, ManagerExecutor, NoLSN)
OrchData(node, i) ==
    Data([ver |-> node.ver, backup |-> node.backup], {NetId}, {}, HostExecutor(i[2]), NoLSN)
InstData(node, i, extra) ==
    Data(node.ver, {OrchId(i)} \cup extra, {}, HostExecutor(i[2]), NoInstance)
RestoreData(i) == Data("restore", {OrchId(i)}, {}, HostExecutor(i[2]), NoLSN)

InstanceDependencies(node, i) == (NetId :> NetData) @@ (OrchId(i) :> OrchData(node, i))
InstanceState(node, i) == InstanceDependencies(node, i) @@ (InstId(i) :> InstData(node, i, {}))

\* GenerateInstanceRestoreResources: the instance waits for its restore.
RestoreInstanceState(node, i) ==
    InstanceDependencies(node, i) @@ (RestoreId(i) :> RestoreData(i))
        @@ (InstId(i) :> InstData(node, i, {RestoreId(i)}))

MonData(i) == Data("mon", {InstId(i)}, {}, HostExecutor(i[2]), NoLSN)

(***************************************************************************)
(* Resources of a node and of its database.                                *)
(***************************************************************************)
NodeDependents(node) ==
    IF node.backup
    THEN (StanzaId(node.name) :>
            Data("stanza", {NodeId(node.name)}, {}, PrimaryExecutor(node.name), NoLSN))
         @@ (JobId(node.name) :> Data("job", {StanzaId(node.name)}, {}, AnyExecutor, NoLSN))
    ELSE NewState

NodeData(node) == Data("node", {InstId(i) : i \in Instances(node)}, {}, AnyExecutor, NoInstance)

NodeResourceState(node) == NodeDependents(node) @@ (NodeId(node.name) :> NodeData(node))

\* PgServiceConf: depends on every resource of type node.
ConfData(i) == Data("conf", {OrchId(i), InstId(i)}, {"node"}, HostExecutor(i[2]), NoLSN)

\* instance.DatabaseDependencies: only systemd's orchestrator has any.
DatabaseDependencies(node) == IF node.conf THEN {ConfId(i) : i \in Instances(node)} ELSE {}

DbData(node) ==
    Data([restored |-> node.restored], {NodeId(node.name)} \cup DatabaseDependencies(node), {},
         PrimaryExecutor(node.name), NoLSN)

DatabaseResourceState(node) ==
    (DbId(node.name) :> DbData(node))
        @@ [id \in {MonId(i) : i \in Instances(node)} |-> MonData(id[2])]
        @@ [id \in DatabaseDependencies(node) |-> ConfData(id[2])]

(***************************************************************************)
(* Replication resources, p the provider and s the subscriber.             *)
(***************************************************************************)
SlotData(p, s) == Data("slot", {DbId(p)}, {}, PrimaryExecutor(p), NoLSN)
SubData(p, s, disabled, sync, extra) ==
    Data([disabled |-> disabled, sync |-> sync, needsUpdate |-> FALSE],
         {DbId(s), DbId(p), SlotId(p, s)} \cup extra, {}, PrimaryExecutor(s), NoLSN)
SlotCreateData(p, s) == Data("slotcreate", {DbId(p)}, {}, PrimaryExecutor(p), NoLSN)
SyncEventData(p, s, extra) ==
    Data("syncevent", {SubId(p, s)} \cup extra, {}, PrimaryExecutor(p), NoLSN)
WaitSyncData(p, s) == Data("waitsync", {SyncEventId(p, s)}, {}, PrimaryExecutor(s), NoLSN)
CatchupData(src, peer) ==
    Data("catchup", {SyncEventId(peer, src)}, {}, PrimaryExecutor(src), NoLSN)
LagData(o, r, extra) == Data("lag", {DbId(r), DbId(o)} \cup extra, {}, PrimaryExecutor(r), NoLSN)
SlotAdvData(p, s) ==
    Data("slotadv", {DbId(p), DbId(s), LagId(p, s)}, {}, PrimaryExecutor(p), NoLSN)
OriginAdvData(p, s) == Data("originadv", {SlotAdvId(p, s)}, {}, PrimaryExecutor(s), NoLSN)

DumpData(n) == Data("dump", {NodeId(n)}, {}, PrimaryExecutor(n), NoLSN)
RolesData(source) == Data("roles", {DumpId(source)}, {}, AnyExecutor, NoLSN)
ServiceData(s, n) == Data("service", {NetId, DbId(n)}, {}, ManagerExecutor, NoLSN)

(***************************************************************************)
(* EndState: the given nodes, each subscribed to all the others, and the   *)
(* services.                                                               *)
(***************************************************************************)
EndState(nodes, services) ==
    LET Node(k) == MergeAll(<<NodeResourceState(nodes[k]), DatabaseResourceState(nodes[k])>>
                     \o [j \in DOMAIN nodes[k].hosts |->
                           InstanceState(nodes[k], <<nodes[k].name, nodes[k].hosts[j]>>)])
        Pairs == {<<p, s>> \in Names(nodes) \X Names(nodes) : p # s}
        Replication == [id \in {SlotId(e[1], e[2]) : e \in Pairs} |-> SlotData(id[2], id[3])]
            @@ [id \in {SubId(e[1], e[2]) : e \in Pairs} |->
                    SubData(id[2], id[3], FALSE, FALSE, {})]
        Services == [id \in {NetId : s \in services} |-> NetData]
            @@ [id \in {ServiceId(s) : s \in services} |-> ServiceData(id[2], nodes[1].name)]
    IN  MergeAll([k \in DOMAIN nodes |-> Node(k)]) @@ Replication @@ Services

(***************************************************************************)
(* UpdateNode: existing replicas first, then the primary, then new         *)
(* replicas; the node's own resources come with the last of them.          *)
(***************************************************************************)
PrimaryOf(start, node) == start[NodeId(node.name)].out

UpdateOrder(start, node) ==
    LET ids == [k \in DOMAIN node.hosts |-> <<node.name, node.hosts[k]>>]
        primary == PrimaryOf(start, node)
        IsOld(i) == i # primary /\ InstId(i) \in DOMAIN start
        IsNew(i) == i # primary /\ InstId(i) \notin DOMAIN start
    IN  SelectSeq(ids, IsOld) \o <<primary>> \o SelectSeq(ids, IsNew)

\* UpdateNode returns no error.
UpdatableNode(start, node) ==
    /\ PrimaryOf(start, node) \in Instances(node)
    /\ InstId(PrimaryOf(start, node)) \in DOMAIN start

UpdateNode(start, node) ==
    LET order == UpdateOrder(start, node)
    IN  [k \in DOMAIN order |->
            IF k = Len(order)
            THEN Merge(InstanceState(node, order[k]), NodeResourceState(node))
            ELSE InstanceState(node, order[k])]

\* mergePartialStates runs the sequences of several nodes side by side.
MergePartialStates(seqs) ==
    LET longest == CHOOSE m \in {Len(seqs[k]) : k \in DOMAIN seqs} :
                       \A k \in DOMAIN seqs : Len(seqs[k]) <= m
        At(i) == SelectSeq(seqs, LAMBDA s : i <= Len(s))
    IN  [i \in 1..longest |-> MergeAll([k \in DOMAIN At(i) |-> At(i)[k][i]])]

Flatten(seqs) ==
    LET F[k \in 0..Len(seqs)] == IF k = 0 THEN << >> ELSE F[k - 1] \o seqs[k]
    IN  F[Len(seqs)]

\* Mutant of RollingUpdateNodes: the nodes are updated side by side.
MutRollingUpdateNodes(start, nodes) ==
    IF nodes = << >> THEN << >>
    ELSE MergePartialStates([k \in DOMAIN nodes |-> UpdateNode(start, nodes[k])])

RollingUpdateNodes(start, nodes) ==
    Flatten([k \in DOMAIN nodes |-> UpdateNode(start, nodes[k])])

(***************************************************************************)
(* AddNode: the first instance, then all replicas.                         *)
(***************************************************************************)
AddNode(node) ==
    LET State(k) == InstanceState(node, <<node.name, node.hosts[k]>>)
        replicas == MergeAll([k \in 1..(Len(node.hosts) - 1) |-> State(k + 1)])
    IN  IF Len(node.hosts) = 1
        THEN <<Merge(State(1), NodeResourceState(node))>>
        ELSE <<State(1), Merge(replicas, NodeResourceState(node))>>

AddNodes(adds) == MergePartialStates([k \in DOMAIN adds |-> AddNode(adds[k])])

(***************************************************************************)
(* PopulateNode: what brings a new node to its source's data.  A slot on   *)
(* every other peer keeps what the peer commits from then on; the source   *)
(* must have applied everything up to there before it is copied; the slot  *)
(* and the new node's origin are then advanced past what the copy held.    *)
(***************************************************************************)
\* Mutant of PeerResources: the lag is read without waiting for the copy.
MutPeerResources(peer, source, new) ==
    (SlotId(peer, new) :> SlotData(peer, new))
    @@ (SubId(peer, new) :> SubData(peer, new, TRUE, FALSE, {}))
    @@ (SlotCreateId(peer, new) :> SlotCreateData(peer, new))
    @@ (SyncEventId(peer, source) :> SyncEventData(peer, source, {SlotCreateId(peer, new)}))
    @@ (WaitSyncId(peer, source) :> WaitSyncData(peer, source))
    @@ (CatchupId(source, peer) :> CatchupData(source, peer))
    @@ (LagId(peer, new) :> LagData(peer, new, {}))
    @@ (SlotAdvId(peer, new) :> SlotAdvData(peer, new))
    @@ (OriginAdvId(peer, new) :> OriginAdvData(peer, new))

PeerResources(peer, source, new) ==
    (SlotId(peer, new) :> SlotData(peer, new))
    @@ (SubId(peer, new) :> SubData(peer, new, TRUE, FALSE, {}))
    @@ (SlotCreateId(peer, new) :> SlotCreateData(peer, new))
    @@ (SyncEventId(peer, source) :> SyncEventData(peer, source, {SlotCreateId(peer, new)}))
    @@ (WaitSyncId(peer, source) :> WaitSyncData(peer, source))
    @@ (CatchupId(source, peer) :> CatchupData(source, peer))
    @@ (LagId(peer, new) :> LagData(peer, new, {WaitSyncId(source, new)}))
    @@ (SlotAdvId(peer, new) :> SlotAdvData(peer, new))
    @@ (OriginAdvId(peer, new) :> OriginAdvData(peer, new))

\* Mutants of SyncResources: the copy does not wait for the peers; the
\* subscription is created disabled, as those to the peers are.
MutSyncNoWait(peerWaitForSync, source, new) ==
    (SlotId(source, new) :> SlotData(source, new))
    @@ (SubId(source, new) :> SubData(source, new, FALSE, TRUE, {}))
    @@ (SyncEventId(source, new) :> SyncEventData(source, new, {}))
    @@ (WaitSyncId(source, new) :> WaitSyncData(source, new))

MutSyncDisabled(peerWaitForSync, source, new) ==
    (SlotId(source, new) :> SlotData(source, new))
    @@ (SubId(source, new) :> SubData(source, new, TRUE, TRUE, peerWaitForSync))
    @@ (SyncEventId(source, new) :> SyncEventData(source, new, {}))
    @@ (WaitSyncId(source, new) :> WaitSyncData(source, new))

SyncResources(peerWaitForSync, source, new) ==
    (SlotId(source, new) :> SlotData(source, new))
    @@ (SubId(source, new) :> SubData(source, new, FALSE, TRUE, peerWaitForSync))
    @@ (SyncEventId(source, new) :> SyncEventData(source, new, {}))
    @@ (WaitSyncId(source, new) :> WaitSyncData(source, new))

PopulateNode(node, existing) ==
    LET peers == SelectSeq(existing, LAMBDA n : n # node.name /\ n # node.source)
        waits == UNION {{WaitSyncId(peers[k], node.source), CatchupId(node.source, peers[k])} :
                            k \in DOMAIN peers}
    IN  MergeAll(<<DatabaseResourceState(node)>>
                 \o [k \in DOMAIN peers |-> PeerResources(peers[k], node.source, node.name)]
                 \o <<SyncResources(waits, node.source, node.name)>>)

(***************************************************************************)
(* addNodesStates: a new node without a source or a restore configuration  *)
(* takes the first existing node; the roles of the sources are dumped, the *)
(* nodes added, then populated.                                            *)
(***************************************************************************)
WithSource(updates, adds) ==
    [k \in DOMAIN adds |->
        IF adds[k].source = "" /\ ~adds[k].restored /\ updates # << >>
        THEN [adds[k] EXCEPT !.source = updates[1].name] ELSE adds[k]]

Sourced(adds) == SelectSeq(adds, LAMBDA n : n.source # "")

\* validateSourceNodes returns no error.
ValidSources(updates, adds) ==
    \A k \in DOMAIN adds :
        ~adds[k].restored => WithSource(updates, adds)[k].source \notin Names(adds)

SourceNodeRoleDumps(adds) ==
    [id \in {DumpId(adds[k].source) : k \in DOMAIN adds} |-> DumpData(id[2])]
    @@ [id \in {RolesId(adds[k].name) : k \in DOMAIN adds} |->
            RolesData(adds[CHOOSE k \in DOMAIN adds : adds[k].name = id[2]].source)]

AddNodesStates(updates, adds0) ==
    LET adds == WithSource(updates, adds0)
        sourced == Sourced(adds)
        existing == [k \in DOMAIN updates |-> updates[k].name]
        dumps == SelectSeq(sourced, LAMBDA n : ~n.restored)
    IN  (IF dumps = << >> THEN << >> ELSE <<SourceNodeRoleDumps(dumps)>>)
        \o AddNodes(adds)
        \o (IF sourced = << >> THEN << >>
            ELSE <<MergeAll([k \in DOMAIN sourced |-> PopulateNode(sourced[k], existing)])>>)

(***************************************************************************)
(* UpdateDatabase.  partitionNodes: a node found in the current state is   *)
(* updated, any other one is added.                                        *)
(***************************************************************************)
Updates(start, nodes) == SelectSeq(nodes, LAMBDA n : Found(start, NodeId(n.name)))
Adds(start, nodes) == SelectSeq(nodes, LAMBDA n : ~Found(start, NodeId(n.name)))

UpdateStates(start, nodes, services) ==
    LET updates == Updates(start, nodes)
        adds == Adds(start, nodes)
        end == EndState(nodes, services)
        prepared == PreparePendingDeletesAndRecreates(start, end)
        diffs == RollingUpdateNodes(start, updates)
                 \o (IF adds = << >> THEN << >> ELSE AddNodesStates(updates, adds))
    IN  [k \in DOMAIN diffs |-> MergeAll(<<prepared>> \o SubSeq(diffs, 1, k))] \o <<end>>

\* UpdateDatabase returns no error.
UpdatePlannable(start, nodes, services) ==
    /\ \A k \in DOMAIN nodes : ~(nodes[k].restored /\ nodes[k].source # "")
    /\ \A k \in DOMAIN Updates(start, nodes) : UpdatableNode(start, Updates(start, nodes)[k])
    /\ ValidSources(Updates(start, nodes), Adds(start, nodes))
    /\ PlannableAll(PreparePendingDeletesAndRecreates(start, EndState(nodes, services)),
                    UpdateStates(start, nodes, services))

UpdateDatabase(start, nodes, services, force) ==
    PlanAll(PreparePendingDeletesAndRecreates(start, EndState(nodes, services)),
            UpdateStates(start, nodes, services), force)

(***************************************************************************)
(* RestoreDatabase.  getOrPickPrimary chooses the instance that is         *)
(* restored; the node, its database and its replicas are deleted first.    *)
(***************************************************************************)
RestorePrimary(start, node) ==
    LET existing == {k \in DOMAIN node.hosts : InstId(<<node.name, node.hosts[k]>>) \in DOMAIN start}
        first == IF existing = {} THEN 1 ELSE CHOOSE k \in existing : \A j \in existing : k <= j
    IN  IF Found(start, NodeId(node.name)) /\ PrimaryOf(start, node) # NoInstance
        THEN PrimaryOf(start, node)
        ELSE <<node.name, node.hosts[first]>>

RestoreNode(node, primary) ==
    <<InstanceDependencies(node, primary),
      RestoreInstanceState(node, primary),
      MergeAll([k \in DOMAIN node.hosts |-> InstanceState(node, <<node.name, node.hosts[k]>>)])
        @@ (NodeId(node.name) :> NodeData(node))>>

\* The restore configuration of the request is part of the target nodes.
WithRestoreConfig(nodes, targets) ==
    [k \in DOMAIN nodes |-> [nodes[k] EXCEPT !.restored = @ \/ nodes[k].name \in targets]]

RestoreStates(start, nodes, targets) ==
    LET others == SelectSeq(nodes, LAMBDA n : n.name \notin targets)
        restored == SelectSeq(WithRestoreConfig(nodes, targets), LAMBDA n : n.name \in targets)
        steps == MergePartialStates(
                    [k \in DOMAIN restored |->
                        RestoreNode(restored[k], RestorePrimary(start, restored[k]))])
        base == EndState(others, {})
    IN  [k \in DOMAIN steps |-> Merge(base, steps[k])] \o <<EndState(others \o restored, {})>>

RestoreDatabase(start, nodes, targets) ==
    PlanAll(start, RestoreStates(start, nodes, targets), FALSE)
=============================================================================
