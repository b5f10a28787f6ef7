----------------------------- MODULE Resources -----------------------------
(***************************************************************************)
(* The resource planner (server/internal/resource).  A state is a function *)
(* from identifiers to resource data; a plan is a sequence of phases, each *)
(* a set of events that are applied concurrently.                          *)
(*                                                                         *)
(* An identifier is a tuple whose first element is the resource type.  The *)
(* attributes of a resource are abstracted to attr (everything the planner *)
(* compares and no property looks into) and out (what the resource learns  *)
(* while it is applied: a primary instance, an LSN, a timestamp).          *)
(***************************************************************************)
EXTENDS Naturals, Sequences, FiniteSets, TLC

TypeOf(id) == id[1]

\* Resource types whose DiffIgnore() names the attribute modelled by out.  The lag
\* tracker and the slot advance name theirs without the leading "/", to no effect.
OutIgnored == {"inst", "node"}

\* ResourceVersion() of this build; data of an earlier build may have a lower one.
ResourceVersion == 2

(***************************************************************************)
(* ToResourceData: a resource as its constructor and Dependencies(),       *)
(* TypeDependencies(), Executor() and ResourceVersion() describe it.       *)
(***************************************************************************)
Data(attr, deps, tdeps, exec, out) ==
    [attr |-> attr, deps |-> deps, tdeps |-> tdeps, exec |-> exec, out |-> out,
     version |-> ResourceVersion, recreate |-> FALSE, error |-> FALSE, pending |-> FALSE]

HostExecutor(h) == [on |-> "host", at |-> h]
ManagerExecutor == [on |-> "manager", at |-> ""]
AnyExecutor == [on |-> "any", at |-> ""]
PrimaryExecutor(n) == [on |-> "primary", at |-> n]

NewState == [id \in {} |-> {}]

\* State.Merge: the data of other wins.
Merge(st, other) == other @@ st

MergeAll(states) ==
    LET M[i \in 0..Len(states)] ==
            IF i = 0 THEN NewState ELSE Merge(M[i - 1], states[i])
    IN  M[Len(states)]

Without(st, ids) == [id \in DOMAIN st \ ids |-> st[id]]

\* FromState: a resource that needs to be recreated counts as absent.
Found(st, id) == id \in DOMAIN st /\ ~st[id].recreate

(***************************************************************************)
(* PreparePendingDeletesAndRecreates.                                      *)
(***************************************************************************)
PreparePendingDeletesAndRecreates(st, end) ==
    [id \in {i \in DOMAIN st : i \in DOMAIN end => ~st[i].recreate} |->
        [st[id] EXCEPT !.pending = @ \/ id \notin DOMAIN end]]

(***************************************************************************)
(* The dependency graph and its layered topological sort.  The layer after *)
(* the first k holds every resource whose predecessors are all in them.    *)
(***************************************************************************)
Dependencies(st, id) ==
    (st[id].deps \cap DOMAIN st) \cup {d \in DOMAIN st : TypeOf(d) \in st[id].tdeps}

\* Edges <<a, b>>: b comes before a.
\* Mutant of CreationEdges: from and to are swapped.
MutCreationEdges(st) == UNION {{<<d, id>> : d \in Dependencies(st, id)} : id \in DOMAIN st}

CreationEdges(st) == UNION {{<<id, d>> : d \in Dependencies(st, id)} : id \in DOMAIN st}

DeletionEdges(st) == {<<e[2], e[1]>> : e \in CreationEdges(st)}

LayeredTopoSort(ids, edges) ==
    LET L[done \in SUBSET ids] ==
            LET blocked == {e[1] : e \in {x \in edges : x[2] \notin done}}
                ready == ids \ (done \cup blocked)
            IN  IF ready = {} THEN << >> ELSE <<ready>> \o L[done \cup ready]
    IN  L[{}]

CreationOrdered(st) == LayeredTopoSort(DOMAIN st, CreationEdges(st))
DeletionOrdered(st) == LayeredTopoSort(DOMAIN st, DeletionEdges(st))

Acyclic(st) ==
    LET layers == CreationOrdered(st)
    IN  DOMAIN st = UNION {layers[i] : i \in DOMAIN layers}

\* graph() and layeredTopoSort() return no error.
GraphOK(st, ignoreMissingDeps) ==
    /\ \A id \in DOMAIN st : /\ id \notin st[id].deps
                             /\ TypeOf(id) \notin st[id].tdeps
                             /\ ~ignoreMissingDeps => st[id].deps \subseteq DOMAIN st
    /\ Acyclic(st)

(***************************************************************************)
(* Plans.                                                                  *)
(***************************************************************************)
Event(type, id, data) == [type |-> type, id |-> id, data |-> data]

NonEmpty(phases) == SelectSeq(phases, LAMBDA p : p # {})

PlanRefresh(st) ==
    LET layers == CreationOrdered(st)
    IN  [k \in DOMAIN layers |-> {Event("refresh", id, st[id]) : id \in layers[k]}]

\* Data of another resource version are not compared: there is no difference.
Diff(id, old, new) ==
    /\ old.version = new.version
    /\ \/ old.attr # new.attr
       \/ old.deps # new.deps
       \/ TypeOf(id) \notin OutIgnored /\ old.out # new.out

\* The event planCreates chooses for a desired resource; "skip" is none.
CreateEventType(st, id, new, force, modified) ==
    IF id \notin DOMAIN st THEN "create"
    ELSE LET old == st[id] IN
         IF old.pending THEN "skip"
         ELSE IF old.recreate THEN "create"
         ELSE IF \/ old.error
                 \/ force
                 \/ new.deps \cap modified # {}
                 \/ \E m \in modified : TypeOf(m) \in new.tdeps
                 \/ Diff(id, old, new)
              THEN "update"
         ELSE "skip"

PlanCreates(st, desired, force) ==
    LET layers == CreationOrdered(desired)
        P[k \in 0..Len(layers)] ==
            IF k = 0 THEN [plan |-> << >>, modified |-> {}]
            ELSE LET prev == P[k - 1]
                     type == [id \in layers[k] |->
                                CreateEventType(st, id, desired[id], force, prev.modified)]
                     ids == {id \in layers[k] : type[id] # "skip"}
                 IN  [plan |-> Append(prev.plan, {Event(type[id], id, desired[id]) : id \in ids}),
                      modified |-> prev.modified \cup ids]
    IN  NonEmpty(P[Len(layers)].plan)

PlanDeletes(st, desired) ==
    LET layers == DeletionOrdered(st)
    IN  NonEmpty([k \in DOMAIN layers |->
            {Event("delete", id, st[id]) : id \in layers[k] \ DOMAIN desired}])

Plan(st, desired, force) == PlanCreates(st, desired, force) \o PlanDeletes(st, desired)

\* PlanAll returns no error.
PlannableAll(st, states) ==
    /\ \A i \in DOMAIN states : GraphOK(states[i], FALSE)
    /\ GraphOK(st, TRUE)

(***************************************************************************)
(* PlanAll chains the states and forces updates only in the last plan.     *)
(* Plans are applied one after another and each phase is awaited, so a     *)
(* sequence of plans is the sequence of their phases.                      *)
(***************************************************************************)
PlanAll(st, states, force) ==
    LET From(i) == IF i = 1 THEN st ELSE states[i - 1]
        A[i \in 0..Len(states)] ==
            IF i = 0 THEN << >>
            ELSE A[i - 1] \o Plan(From(i), states[i], force /\ i = Len(states))
    IN  A[Len(states)]
=============================================================================
