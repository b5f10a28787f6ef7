----------------------------- MODULE Provision -----------------------------
(***************************************************************************)
(* How the update, delete and restore workflows drive one database: the    *)
(* persisted resource state is refreshed, an operation is planned, its     *)
(* phases are applied on the hosts, and the state is persisted again.  The *)
(* module composes the planner (Operations) with what it acts on: Postgres *)
(* instances and Spock replication, which are external and modelled by     *)
(* what the resources in server/internal/database use of them.             *)
(*                                                                         *)
(* The events of a phase run concurrently and the workflow awaits all of   *)
(* them; a phase is one step, taken when the last of its waits is over.    *)
(***************************************************************************)
EXTENDS Operations, Integers, FiniteSetsExt

CONSTANTS
    Nodes,       \* the names of the nodes
    Writers,     \* bound: the nodes that clients write to
    Scripts,     \* set of sequences of requests, see Request below
    MaxTx,       \* bound: transactions committed on each node
    MaxFaults,   \* bound: faults in a behaviour
    MaxRetries   \* bound: retries of a failed request

VARIABLES
    asks,     \* requests still to come
    op,       \* the request of the running or the last operation
    pc,       \* "idle", "refresh", "plan" or "apply"
    outcome,  \* of the last operation: "none", "ok" or "failed"
    kept,     \* the persisted resource state
    cur,      \* the workflow's copy of it, empty when idle
    todo,     \* phases of the current plans still to apply
    pg,       \* Postgres and Spock
    live,     \* nodes that clients use: those of the last successful operation
    forgot,   \* history: something was done and its result never recorded
    clean,    \* no operation has failed so far and no fault has occurred
    faults, retries

vars == <<asks, op, pc, outcome, kept, cur, todo, pg, live, clean, forgot, faults, retries>>

(***************************************************************************)
(* A request: the kind of operation, the specification, its options, and   *)
(* as a bound on the behaviours what may strike before it (lostsub,        *)
(* lostinst, upgrade) and during it (fail, partial, lost, dropped,         *)
(* unpersisted).                                                           *)
(***************************************************************************)
Request(kind, nodes, services, force, removeHosts, targets, strikes) ==
    [kind |-> kind, nodes |-> nodes, services |-> services, force |-> force,
     removeHosts |-> removeHosts, targets |-> targets, strikes |-> strikes]

NoRequest == Request("none", << >>, {}, FALSE, {}, {}, {})

Pairs == {<<p, s>> \in Nodes \X Nodes : p # s}
Txs == Nodes \X (1..MaxTx)
NoSlot == -1

(***************************************************************************)
(* Postgres and Spock (external).  A transaction is <<origin, number>>; a  *)
(* position of a slot or an origin is the number of transactions it has    *)
(* passed, an LSN one more, so that 0 is none.                             *)
(***************************************************************************)
PgInit ==
    [up |-> {}, leader |-> [n \in Nodes |-> NoInstance], dbs |-> {},
     log |-> [n \in Nodes |-> 0], has |-> [n \in Nodes |-> {}], twice |-> FALSE,
     slot |-> [e \in Pairs |-> NoSlot], origin |-> [e \in Pairs |-> 0],
     sub |-> [e \in Pairs |-> "none"]]

Start(g, i) ==
    [g EXCEPT !.up = @ \cup {i},
              !.leader[i[1]] = IF @ = NoInstance THEN i ELSE @]

\* The node's data go with its last instance; Patroni promotes another one before that.
Stop(g, i) ==
    LET n == i[1]
        rest == {j \in g.up \ {i} : j[1] = n}
        stopped == [g EXCEPT !.up = @ \ {i},
                             !.leader[n] = IF @ # i THEN @
                                           ELSE IF rest = {} THEN NoInstance
                                           ELSE CHOOSE j \in rest : TRUE]
    IN  IF rest # {} THEN stopped
        ELSE [stopped EXCEPT
                !.dbs = @ \ {n},
                !.has[n] = {},
                !.sub = [e \in Pairs |-> IF e[2] = n THEN "none" ELSE @[e]],
                !.origin = [e \in Pairs |-> IF e[2] = n THEN 0 ELSE @[e]],
                !.slot = [e \in Pairs |-> IF e[1] = n THEN NoSlot ELSE @[e]]]

Position(g, e) == IF g.slot[e] > g.origin[e] THEN g.slot[e] ELSE g.origin[e]

\* What the subscriber knows of the provider's transactions (spock.lag_tracker).
LastKnown(g, p, s) ==
    LET ks == {t[2] : t \in {u \in g.has[s] : u[1] = p}}
    IN  IF ks = {} THEN 0 ELSE CHOOSE k \in ks : \A j \in ks : j <= k

EnsureSlot(g, e) == IF g.slot[e] = NoSlot THEN [g EXCEPT !.slot[e] = g.log[e[1]]] ELSE g

\* sub_create, unless the subscription exists; a copy of the data starts later.
CreateSubscription(g, e, attr) ==
    IF g.sub[e] # "none" THEN g
    ELSE IF attr.disabled THEN [g EXCEPT !.sub[e] = "disabled"]
    ELSE IF attr.sync THEN [g EXCEPT !.sub[e] = "init"]
    ELSE [EnsureSlot(g, e) EXCEPT !.sub[e] = "enabled"]

\* Mutant of EnableSubscription: Update only looks at the DSN.
MutEnableSubscription(g, e, attr) == g

EnableSubscription(g, e, attr) ==
    IF ~attr.disabled /\ g.sub[e] = "disabled"
    THEN [EnsureSlot(g, e) EXCEPT !.sub[e] = "enabled"] ELSE g

(***************************************************************************)
(* What creating, updating and deleting a resource does to Postgres and    *)
(* Spock.  st is the state the activity was given.                         *)
(***************************************************************************)
AdvanceTo(g, st, e) ==
    LET ts == st[LagId(e[1], e[2])].out
    IN  IF ts = 0 \/ g.sub[e] = "enabled" \/ ts <= g.slot[e] THEN NoLSN ELSE ts

CreateEffect(g, st, ev) ==
    LET id == ev.id
        ty == TypeOf(id)
    IN  CASE ty = "orch" -> Start(g, id[2])
          [] ty = "restore" -> [g EXCEPT !.has[id[2][1]] = {}]
          [] ty = "db" /\ id[2] \in g.dbs -> g
          [] ty = "db" /\ id[2] \notin g.dbs -> [g EXCEPT !.dbs = @ \cup {id[2]}]
          [] ty = "slotcreate" -> EnsureSlot(g, <<id[2], id[3]>>)
          [] ty = "sub" /\ ev.type = "create" ->
                CreateSubscription(g, <<id[2], id[3]>>, ev.data.attr)
          [] ty = "sub" /\ ev.type = "update" ->
                EnableSubscription(CreateSubscription(g, <<id[2], id[3]>>, ev.data.attr),
                                   <<id[2], id[3]>>, ev.data.attr)
          [] ty = "slotadv" ->
                IF AdvanceTo(g, st, <<id[2], id[3]>>) = NoLSN THEN g
                ELSE [g EXCEPT !.slot[<<id[2], id[3]>>] = AdvanceTo(g, st, <<id[2], id[3]>>)]
          [] ty = "originadv" ->
                IF st[SlotAdvId(id[2], id[3])].out = NoLSN THEN g
                ELSE [g EXCEPT !.origin[<<id[2], id[3]>>] = st[SlotAdvId(id[2], id[3])].out]
          [] OTHER -> g

DeleteEffect(g, ev) ==
    LET id == ev.id
        ty == TypeOf(id)
    IN  CASE ty = "orch" -> IF id[2] \in g.up THEN Stop(g, id[2]) ELSE g
          [] ty = "sub" -> [g EXCEPT !.sub[<<id[2], id[3]>>] = "none",
                                     !.origin[<<id[2], id[3]>>] = 0]
          [] ty = "slot" -> [g EXCEPT !.slot[<<id[2], id[3]>>] = NoSlot]
          [] OTHER -> g

Effect(g, st, ev) ==
    CASE ev.type \in {"create", "update"} -> CreateEffect(g, st, ev)
      [] ev.type = "delete" -> DeleteEffect(g, ev)
      [] OTHER -> g

(***************************************************************************)
(* WaitForSyncEvent and PeerCatchup return only when the subscriber has    *)
(* passed the sync event; without one they report that it is not there.    *)
(***************************************************************************)
SyncEventOf(id) == IF TypeOf(id) = "catchup" THEN SyncEventId(id[3], id[2])
                                             ELSE SyncEventId(id[2], id[3])

NoSyncEvent(st, id) == ~Found(st, SyncEventOf(id)) \/ st[SyncEventOf(id)].out = NoLSN

IsWait(ev) == TypeOf(ev.id) \in {"waitsync", "catchup"} /\ ev.type \in {"create", "refresh"}

\* The event can complete now.
Ready(g, st, ev) ==
    IsWait(ev) /\ ~NoSyncEvent(st, ev.id) =>
        LET sync == SyncEventOf(ev.id)
            e == <<sync[2], sync[3]>>
        IN  g.sub[e] = "enabled" /\ Position(g, e) + 1 >= st[sync].out

(***************************************************************************)
(* initializeInstance: a primary takes its roles from the dump that its    *)
(* node's roles source names; a replica waits, but not for ever, for the   *)
(* slots of all subscriptions to its node.                                 *)
(***************************************************************************)
InitializeFails(g, st, i) ==
    IF i = g.leader[i[1]]
    THEN Found(st, RolesId(i[1])) /\ \E d \in st[RolesId(i[1])].deps : ~Found(st, d)
    ELSE \E id \in DOMAIN st : /\ TypeOf(id) = "sub" /\ id[2] = i[1]
                               /\ g.slot[<<id[2], id[3]>>] = NoSlot

\* ReplicationSlotAdvanceFromCTS: no lag tracker, or no slot to advance.
AdvanceFails(g, st, e) ==
    \/ ~Found(st, LagId(e[1], e[2]))
    \/ st[LagId(e[1], e[2])].out # 0 /\ g.slot[e] = NoSlot

\* PgServiceConf: it needs its directory and, to be written, its own instance and
\* every instance of every node.
ConfFails(st, ev) ==
    \/ ~Found(st, OrchId(ev.id[2]))
    \/ /\ ev.type \in {"create", "update"}
       /\ \/ ~Found(st, InstId(ev.id[2]))
          \/ \E id \in DOMAIN st : TypeOf(id) = "node" /\ \E d \in st[id].deps : ~Found(st, d)

\* The lifecycle method fails by itself: something it needs is not there.
Fails(g, st, ev) ==
    CASE TypeOf(ev.id) \in {"waitsync", "catchup"} ->
            ev.type = "create" /\ NoSyncEvent(st, ev.id)
      [] TypeOf(ev.id) = "slotadv" ->
            ev.type \in {"create", "update"} /\ AdvanceFails(g, st, <<ev.id[2], ev.id[3]>>)
      [] TypeOf(ev.id) = "inst" ->
            ev.type \in {"create", "update"} /\ InitializeFails(g, st, ev.id[2])
      [] TypeOf(ev.id) = "conf" ->
            ev.type # "refresh" /\ ConfFails(st, ev)
      [] OTHER -> FALSE

(***************************************************************************)
(* What a resource records: the primary it finds, the LSN of the event it  *)
(* sends, the last transaction it knows of, the position it advanced to.   *)
(* An update records the desired data: a sync event loses its LSN.         *)
(***************************************************************************)
NodePrimary(st, d) ==
    LET known == {i \in d.deps : Found(st, i) /\ st[i].out # NoInstance}
        reports == {st[i].out : i \in known}
        running == {r \in reports : InstId(r) \in known}
    IN  IF reports = {} THEN NoInstance
        ELSE IF running # {} THEN CHOOSE r \in running : TRUE
        ELSE CHOOSE r \in reports : TRUE

Learned(g, st, ev) ==
    LET id == ev.id
        ty == TypeOf(id)
    IN  CASE ty = "inst" -> IF id[2] \in g.up THEN g.leader[id[2][1]] ELSE ev.data.out
          [] ty = "node" -> NodePrimary(st, ev.data)
          [] ty = "syncevent" -> IF ev.type = "update" THEN ev.data.out ELSE g.log[id[2]] + 1
          [] ty = "lag" -> LastKnown(g, id[2], id[3])
          [] ty = "slotadv" -> IF ev.type = "refresh" THEN ev.data.out
                               ELSE IF Fails(g, st, ev) THEN NoLSN
                               ELSE AdvanceTo(g, st, <<id[2], id[3]>>)
          [] OTHER -> ev.data.out

\* Refresh returns ErrNotFound, itself or from something it looks up.
Missing(g, st, ev) ==
    LET id == ev.id
        ty == TypeOf(id)
    IN  CASE ty = "orch" -> id[2] \notin g.up
          [] ty = "inst" -> id[2] \notin g.up
          [] ty = "conf" -> ~Found(st, OrchId(id[2]))
          [] ty = "db" -> id[2] \notin g.dbs
          [] ty = "slotcreate" -> g.slot[<<id[2], id[3]>>] = NoSlot
          [] ty = "sub" ->
                \/ g.sub[<<id[2], id[3]>>] = "none"
                \/ ~Found(st, NodeId(id[2]))
                \/ \E i \in st[NodeId(id[2])].deps : ~Found(st, i)
          [] ty \in {"waitsync", "catchup"} -> NoSyncEvent(st, id)
          [] OTHER -> FALSE

NeedsEnable(g, id, attr) == ~attr.disabled /\ g.sub[<<id[2], id[3]>>] = "disabled"

(***************************************************************************)
(* Event.Apply: the resource data that is recorded in the state.  Every    *)
(* event turns the resource into data again (ToResourceData), so that they *)
(* have the resource version of this build.                                *)
(***************************************************************************)
Refreshed(g, st, ev) ==
    LET d == [ev.data EXCEPT !.out = Learned(g, st, ev),
                             !.version = ResourceVersion,
                             !.recreate = @ \/ Missing(g, st, ev)]
    IN  IF TypeOf(ev.id) = "sub" /\ ~Missing(g, st, ev)
        THEN [d EXCEPT !.attr.needsUpdate = NeedsEnable(g, ev.id, ev.data.attr)]
        ELSE d

Applied(g, st, ev, failed) ==
    IF ev.type = "refresh" THEN Refreshed(g, st, ev)
    ELSE [ev.data EXCEPT !.out = IF failed THEN @ ELSE Learned(g, st, ev),
                         !.error = failed,
                         !.recreate = failed /\ ev.type = "create",
                         !.pending = FALSE]

(***************************************************************************)
(* ResolveExecutor and the check for removed hosts.                        *)
(***************************************************************************)
Resolve(st, exec) ==
    IF exec.on = "host" THEN [status |-> "ok", host |-> exec.at]
    ELSE IF exec.on # "primary" THEN [status |-> "ok", host |-> ""]
    ELSE IF ~Found(st, NodeId(exec.at)) THEN [status |-> "notfound", host |-> ""]
    ELSE LET primary == st[NodeId(exec.at)].out
         IN  IF primary = NoInstance THEN [status |-> "error", host |-> ""]
             ELSE IF ~Found(st, InstId(primary)) THEN [status |-> "notfound", host |-> ""]
             ELSE [status |-> "ok", host |-> primary[2]]

OnRemovedHost(st, ev) == /\ Resolve(st, ev.data.exec).status = "ok"
                         /\ Resolve(st, ev.data.exec).host \in op.removeHosts

\* Events that are not queued but only removed from the state.
Dropped(st, phase) ==
    {ev \in phase : \/ Resolve(st, ev.data.exec).status = "notfound"
                    \/ OnRemovedHost(st, ev) /\ ev.type = "delete"}

\* Events that cannot be queued and end the operation at once.
Unqueueable(st, phase) ==
    {ev \in phase : \/ Resolve(st, ev.data.exec).status = "error"
                    \/ OnRemovedHost(st, ev) /\ ev.type \in {"create", "update"}}

Queued(st, phase) ==
    {ev \in phase : Resolve(st, ev.data.exec).status = "ok" /\ ~OnRemovedHost(st, ev)}

(***************************************************************************)
(* Faults of one event of a phase.  fail: the method fails before it has   *)
(* an effect.  partial: it fails after it.  lost, dropped: the activity    *)
(* fails after or before its effect and nothing is recorded.  A delete     *)
(* and a refresh that fail record nothing.                                 *)
(***************************************************************************)
NoFault == [event |-> {}, kind |-> "none"]

FaultsOf(phase) ==
    IF faults = MaxFaults THEN {NoFault}
    ELSE {NoFault} \cup
         {[event |-> {ev}, kind |-> k] :
             ev \in phase, k \in op.strikes \cap {"fail", "partial", "lost", "dropped"}}

Possible(f) == \A ev \in f.event :
    /\ ev.type = "refresh" => f.kind = "dropped"
    /\ ev.type = "delete" => f.kind \in {"lost", "dropped"}

HasEffect(ev, f) == ev \notin f.event \/ f.kind \in {"partial", "lost"}
IsRecorded(ev, f) == ev \notin f.event \/ f.kind \in {"fail", "partial"}

\* The state and Postgres after the queued events of a phase.
StateAfter(g, st, phase, f) ==
    LET queued == Queued(st, phase)
        written == {ev \in queued : IsRecorded(ev, f) /\ ev.type # "delete"}
        deleted == {ev.id : ev \in {e \in queued : /\ IsRecorded(e, f) /\ e.type = "delete"
                                                    /\ ~Fails(g, st, e)}}
        Written(id) == CHOOSE ev \in written : ev.id = id
        Failed(ev) == ev \in f.event \/ Fails(g, st, ev)
    IN  Without([id \in {ev.id : ev \in written} |->
                    Applied(g, st, Written(id), Failed(Written(id)))] @@ st,
                deleted \cup {ev.id : ev \in Dropped(st, phase)})

PgAfter(g, st, phase, f) ==
    FoldSet(LAMBDA ev, h : Effect(h, st, ev), g,
            {ev \in Queued(st, phase) : HasEffect(ev, f) /\ ~Fails(g, st, ev)})

PhaseFails(g, st, phase, f) ==
    f # NoFault \/ \E ev \in Queued(st, phase) : ev.type # "refresh" /\ Fails(g, st, ev)

----------------------------------------------------------------------------
(***************************************************************************)
(* The workflows.                                                          *)
(***************************************************************************)
Begin(r) ==
    /\ op' = r
    /\ pc' = "refresh" /\ outcome' = "none"
    /\ cur' = kept
    /\ todo' = PlanRefresh(kept)
    /\ pg' = LET dead == {i \in pg.up : i[2] \in r.removeHosts}
             IN  FoldSet(LAMBDA i, g : Stop(g, i), pg, dead)
    /\ clean' = (clean /\ r.kind # "restore" /\ r.removeHosts = {})
    /\ live' = live \cap Names(r.nodes) \cap pg'.dbs
    /\ UNCHANGED <<kept, forgot, faults>>

Accept ==
    /\ pc = "idle" /\ asks # << >>
    /\ Begin(Head(asks))
    /\ asks' = Tail(asks) /\ retries' = 0

Retry ==
    /\ pc = "idle" /\ outcome = "failed" /\ retries < MaxRetries
    /\ Begin(op)
    /\ retries' = retries + 1 /\ UNCHANGED asks

End(result, state, nodes, isClean) ==
    /\ pc' = "idle" /\ outcome' = result
    /\ kept' = state
    /\ cur' = NewState /\ todo' = << >>
    /\ live' = nodes /\ clean' = isClean

\* applyEvents, one phase of it; only an applied plan is persisted.
Phase ==
    /\ pc \in {"refresh", "apply"} /\ todo # << >>
    /\ Unqueueable(cur, Head(todo)) = {}
    /\ \E f \in FaultsOf(Queued(cur, Head(todo))) :
         /\ Possible(f)
         /\ \A ev \in Queued(cur, Head(todo)) \ f.event : Ready(pg, cur, ev)
         /\ pg' = PgAfter(pg, cur, Head(todo), f)
         /\ faults' = IF f = NoFault THEN faults ELSE faults + 1
         /\ forgot' = (forgot \/ f.kind = "lost")
         /\ IF PhaseFails(pg, cur, Head(todo), f)
            THEN End("failed",
                     IF pc = "apply" THEN StateAfter(pg, cur, Head(todo), f) ELSE kept,
                     live, FALSE)
            ELSE /\ cur' = StateAfter(pg, cur, Head(todo), f)
                 /\ todo' = Tail(todo)
                 /\ UNCHANGED <<pc, outcome, kept, live, clean>>
    /\ UNCHANGED <<asks, op, retries>>

\* An event cannot be queued: the operation ends while the others may have been started.
Unqueued ==
    /\ pc \in {"refresh", "apply"} /\ todo # << >>
    /\ Unqueueable(cur, Head(todo)) # {}
    /\ \E started \in {{}, Queued(cur, Head(todo))} :
         /\ pg' = FoldSet(LAMBDA ev, h : Effect(h, cur, ev), pg,
                          {ev \in started : ~Fails(pg, cur, ev) /\ ~IsWait(ev)})
         /\ forgot' = (forgot \/ started # {})
    /\ End("failed", IF pc = "apply" THEN cur ELSE kept, live, FALSE)
    /\ UNCHANGED <<asks, op, faults, retries>>

Plannable ==
    CASE op.kind = "update" -> UpdatePlannable(cur, op.nodes, op.services)
      [] op.kind = "delete" -> UpdatePlannable(cur, << >>, {})
      [] op.kind = "restore" -> PlannableAll(cur, RestoreStates(cur, op.nodes, op.targets))

Planned ==
    CASE op.kind = "update" -> UpdateDatabase(cur, op.nodes, op.services, op.force)
      [] op.kind = "delete" -> UpdateDatabase(cur, << >>, {}, FALSE)
      [] op.kind = "restore" -> RestoreDatabase(cur, op.nodes, op.targets)

PlanOperation ==
    /\ pc = "refresh" /\ todo = << >>
    /\ Plannable
    /\ pc' = "apply" /\ todo' = Planned
    /\ UNCHANGED <<asks, op, outcome, kept, cur, pg, live, clean, forgot, faults, retries>>

PlanFails ==
    /\ pc = "refresh" /\ todo = << >>
    /\ ~Plannable
    /\ End("failed", kept, live, FALSE)
    /\ UNCHANGED <<asks, op, pg, forgot, faults, retries>>

\* An error of PersistState is only logged.
Finish ==
    /\ pc = "apply" /\ todo = << >>
    /\ \/ End("ok", cur, Names(op.nodes) \cap pg.dbs, clean) /\ UNCHANGED <<forgot, faults>>
       \/ /\ "unpersisted" \in op.strikes /\ faults < MaxFaults
          /\ End("ok", kept, Names(op.nodes) \cap pg.dbs, FALSE)
          /\ forgot' = TRUE /\ faults' = faults + 1
    /\ UNCHANGED <<asks, op, pg, retries>>

----------------------------------------------------------------------------
(***************************************************************************)
(* Clients commit, Spock copies and replicates, things vanish (external).  *)
(***************************************************************************)
Commit(n) ==
    /\ n \in live \cap pg.dbs /\ pg.log[n] < MaxTx
    /\ pg' = [pg EXCEPT !.log[n] = @ + 1, !.has[n] = @ \cup {<<n, pg.log[n] + 1>>}]
    /\ UNCHANGED <<asks, op, pc, outcome, kept, cur, todo, live, clean, forgot, faults, retries>>

CopyData(e) ==
    /\ pg.sub[e] = "init" /\ e[1] \in pg.dbs
    /\ pg' = [pg EXCEPT !.has[e[2]] = @ \cup pg.has[e[1]],
                        !.slot[e] = pg.log[e[1]], !.origin[e] = pg.log[e[1]],
                        !.sub[e] = "enabled"]
    /\ UNCHANGED <<asks, op, pc, outcome, kept, cur, todo, live, clean, forgot, faults, retries>>

Replicate(e) ==
    /\ pg.sub[e] = "enabled" /\ pg.slot[e] # NoSlot /\ e[1] \in pg.dbs
    /\ Position(pg, e) < pg.log[e[1]]
    /\ LET tx == <<e[1], Position(pg, e) + 1>>
       IN  pg' = [pg EXCEPT !.has[e[2]] = @ \cup {tx},
                            !.twice = @ \/ tx \in pg.has[e[2]],
                            !.slot[e] = tx[2], !.origin[e] = tx[2]]
    /\ UNCHANGED <<asks, op, pc, outcome, kept, cur, todo, live, clean, forgot, faults, retries>>

Lose ==
    /\ pc = "idle" /\ asks # << >> /\ faults < MaxFaults
    /\ \/ /\ "lostsub" \in Head(asks).strikes
          /\ \E e \in Pairs : /\ pg.sub[e] # "none"
                              /\ pg' = [pg EXCEPT !.sub[e] = "none", !.origin[e] = 0]
       \/ /\ "lostinst" \in Head(asks).strikes
          /\ \E i \in pg.up : pg' = Stop(pg, i)
    /\ faults' = faults + 1 /\ clean' = FALSE
    /\ UNCHANGED <<asks, op, pc, outcome, kept, cur, todo, live, forgot, retries>>

\* The control plane is upgraded to this build, which has new resource versions.
Upgrade ==
    /\ pc = "idle" /\ asks # << >> /\ "upgrade" \in Head(asks).strikes
    /\ faults < MaxFaults
    /\ kept' = [id \in DOMAIN kept |-> [kept[id] EXCEPT !.version = ResourceVersion - 1]]
    /\ faults' = faults + 1
    /\ UNCHANGED <<asks, op, pc, outcome, cur, todo, pg, live, clean, forgot, retries>>

Init ==
    /\ asks \in Scripts
    /\ op = NoRequest /\ pc = "idle" /\ outcome = "none"
    /\ kept = NewState /\ cur = NewState /\ todo = << >>
    /\ pg = PgInit
    /\ live = {} /\ clean = TRUE /\ forgot = FALSE /\ faults = 0 /\ retries = 0

Next ==
    \/ Accept \/ Retry
    \/ Phase \/ Unqueued \/ PlanOperation \/ PlanFails \/ Finish
    \/ \E n \in Writers : Commit(n)
    \/ \E e \in Pairs : CopyData(e) \/ Replicate(e)
    \/ Lose \/ Upgrade

Spec == Init /\ [][Next]_vars

(***************************************************************************)
(* The worker keeps executing a workflow that can move, Spock copies and   *)
(* replicates; requests, retries, commits and faults are not forced.  The  *)
(* fairness of the workflow spells out when it can move without a fault:   *)
(* it never has to fail an event that is still waiting.                    *)
(***************************************************************************)
CanMove ==
    /\ pc # "idle"
    /\ todo # << >> /\ Unqueueable(cur, Head(todo)) = {} =>
         \A ev \in Queued(cur, Head(todo)) : Ready(pg, cur, ev)

\* Every step of the workflow, and no other step, changes one of these.
Moves == pc # "idle" /\ <<pc, cur, todo>>' # <<pc, cur, todo>>

FairSpec ==
    /\ Spec
    /\ <>[]CanMove => []<><<Moves>>_vars
    /\ \A e \in Pairs : WF_vars(CopyData(e)) /\ WF_vars(Replicate(e))

----------------------------------------------------------------------------
(***************************************************************************)
(* Properties.                                                             *)
(***************************************************************************)
Events == IF pc = "apply" /\ todo # << >> THEN Head(todo) ELSE {}

\* The resources that the specification of the last operation asks for.  A
\* restore plans its database without its services.
EndOf(o) == EndState(WithRestoreConfig(o.nodes, o.targets),
                     IF o.kind = "restore" THEN {} ELSE o.services)

\* The recorded state is the end state, with nothing left to do.
Recorded(end) ==
    /\ DOMAIN kept = DOMAIN end
    /\ \A id \in DOMAIN kept :
         /\ ~kept[id].recreate /\ ~kept[id].error /\ ~kept[id].pending
         /\ kept[id].attr = end[id].attr /\ kept[id].deps = end[id].deps

\* Postgres and Spock are what the specification asks for.
Running(end, nodes) ==
    /\ pg.up = {id[2] : id \in {d \in DOMAIN end : TypeOf(d) = "inst"}}
    /\ pg.dbs = Names(nodes)
    /\ \A e \in Pairs :
         IF {e[1], e[2]} \subseteq Names(nodes)
         THEN IF clean THEN pg.sub[e] = "enabled" /\ pg.slot[e] # NoSlot
                       ELSE pg.sub[e] # "none"
         ELSE pg.sub[e] = "none" /\ pg.slot[e] = NoSlot

(***************************************************************************)
(* Type invariant of the workflow's variables: resource flags, slots and   *)
(* origins stay in their ranges whatever fails.                            *)
(***************************************************************************)
TypeOK ==
    /\ pc \in {"idle", "refresh", "apply"}
    /\ outcome \in {"none", "ok", "failed"}
    /\ \A st \in {kept, cur} : \A id \in DOMAIN st :
         {st[id].recreate, st[id].error, st[id].pending} \subseteq BOOLEAN
    /\ live \subseteq Nodes /\ pg.dbs \subseteq Nodes
    /\ \A e \in Pairs :
         /\ pg.slot[e] \in NoSlot..MaxTx /\ pg.origin[e] \in 0..MaxTx
         /\ pg.sub[e] \in {"none", "disabled", "init", "enabled"}
    /\ \A n \in Nodes : pg.has[n] \subseteq Txs /\ pg.log[n] \in 0..MaxTx
    /\ faults \in 0..MaxFaults /\ retries \in 0..MaxRetries

(***************************************************************************)
(* A resource is created or updated only when everything it depends on is  *)
(* there and nothing of that, and nothing of a type it depends on, is      *)
(* created or changed in the same phase (planCreates, layeredTopoSort),    *)
(* whatever state an earlier failure or a loss has left behind.  Resources *)
(* that only an earlier, failed addition of a node needed are pending      *)
(* deletion and skipped: they are excepted.                                *)
(***************************************************************************)
DependenciesFirst ==
    \A ev \in Events : ev.type \in {"create", "update"} =>
        /\ \A d \in ev.data.deps :
              Found(cur, d) \/ d \in DOMAIN kept \ DOMAIN EndState(op.nodes, op.services)
        /\ \A other \in Events : /\ other.id \notin ev.data.deps
                                 /\ TypeOf(other.id) \notin ev.data.tdeps

(***************************************************************************)
(* A resource is deleted only when no resource that is left, or deleted    *)
(* together with it, depends on it (planDeletes); one that depends on its  *)
(* type is not deleted after it.                                           *)
(***************************************************************************)
DependentsFirst ==
    \A ev \in Events : ev.type = "delete" =>
        \A id \in DOMAIN cur :
            /\ ev.id \notin cur[id].deps
            /\ TypeOf(ev.id) \in cur[id].tdeps =>
                 \A k \in DOMAIN todo : \A later \in todo[k] :
                    ~(later.id = id /\ later.type = "delete")

(***************************************************************************)
(* Every phase of every plan respects the dependency graph, in both        *)
(* directions (CreationOrdered, DeletionOrdered).                          *)
(***************************************************************************)
DependencyOrder == DependenciesFirst /\ DependentsFirst

(***************************************************************************)
(* An operation that reports success has recorded exactly the resources of *)
(* the desired end state, with their settings and none of them marked,     *)
(* unless its state was not persisted (PersistState failing is only        *)
(* logged); and Postgres runs exactly their instances and databases, with  *)
(* subscriptions between every two nodes, unless the result of something   *)
(* was forgotten on the way: an activity that failed after its effect      *)
(* (logResourceEvent), a state that was not persisted.  So an earlier      *)
(* partial operation, a lost instance or subscription, an upgrade in       *)
(* between is not masked; a forgotten result is.  After a failure a        *)
(* subscription may still be disabled or copying: the operation after that *)
(* enables it.  A restore succeeds without the services (RestoreDatabase   *)
(* plans none), which this property accepts.                               *)
(***************************************************************************)
SuccessMeansDesired ==
    [][pc = "apply" /\ pc' = "idle" /\ outcome' = "ok" =>
         /\ kept' = cur => Recorded(EndOf(op))'
         /\ ~forgot' => Running(EndOf(op), op.nodes)']_vars

(***************************************************************************)
(* What the request asks for, without the exceptions: a success leaves no  *)
(* instance, database or replication that was not asked for, nor drops a   *)
(* service that was.                                                       *)
(***************************************************************************)
SuccessAlwaysDesired ==
    [][pc = "apply" /\ pc' = "idle" /\ outcome' = "ok" =>
         /\ \A s \in op.services : ServiceId(s) \in DOMAIN kept'
         /\ Running(EndOf(op), op.nodes)']_vars

(***************************************************************************)
(* An update touches the existing instances of a database one at a time,   *)
(* and a primary only after all replicas of its node.                      *)
(***************************************************************************)
Touched == {ev.id[2] : ev \in {e \in Events : /\ TypeOf(e.id) = "orch" /\ e.type = "update"
                                              /\ e.id[2] \in pg.up}}

PrimaryLast(i) ==
    i = cur[NodeId(i[1])].out =>
        \A k \in 2..Len(todo) : \A ev \in todo[k] :
            ~(TypeOf(ev.id) = "orch" /\ ev.type = "update" /\ ev.id[2][1] = i[1])

Rolling ==
    op.kind = "update" /\ ~op.force /\ clean =>
        /\ Cardinality(Touched) <= 1
        /\ \A i \in Touched : PrimaryLast(i)

(***************************************************************************)
(* When a node is added to a running database, it has every transaction of *)
(* another node that is not still ahead of it in that node's slot: nothing *)
(* committed while it was copied falls between the copy and the slot       *)
(* (PopulateNodes).                                                        *)
(***************************************************************************)
Whole ==
    \A e \in Pairs : pg.sub[e] = "enabled" /\ e[1] \in pg.dbs =>
        \A k \in 1..Position(pg, e) : <<e[1], k>> \in pg.has[e[2]]

AddedWhole == clean => Whole

(***************************************************************************)
(* No transaction is applied on a node a second time: the slot and the     *)
(* origin of an added node are past what the copy brought                  *)
(* (ReplicationSlotAdvanceFromCTS, ReplicationOriginAdvance).              *)
(***************************************************************************)
NoReplay == clean => ~pg.twice

(***************************************************************************)
(* An operation that starts also ends: no phase waits for ever for an      *)
(* event of replication that cannot come.                                  *)
(***************************************************************************)
Settles == pc # "idle" ~> pc = "idle"
(***************************************************************************)
(* What the documentation promises: a failed operation may be retried, and *)
(* once it succeeds every node has what the others committed.              *)
(***************************************************************************)
SafeRetry ==
    [][pc = "apply" /\ pc' = "idle" /\ outcome' = "ok" => Whole']_vars

(***************************************************************************)
(* The same promise: when nothing goes wrong the second time, a retried    *)
(* operation does not fail again (at most one fault, while the first       *)
(* attempt runs).                                                          *)
(***************************************************************************)
RetrySucceeds == ~(pc = "idle" /\ outcome = "failed" /\ retries > 0)

(***************************************************************************)
(* A resource that has to be recreated is planned in the phase where it is *)
(* normally created: it never makes the operation unplannable.             *)
(***************************************************************************)
AlwaysPlannable == pc = "refresh" /\ todo = << >> => Plannable

(***************************************************************************)
(* Downtime is limited to a single node also when updates are forced.      *)
(***************************************************************************)
RollingWhenForced == op.kind = "update" /\ clean => Cardinality(Touched) <= 1
=============================================================================
