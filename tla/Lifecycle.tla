------------------------------- MODULE Lifecycle -------------------------------
(***************************************************************************)
(* The life of one database: the API handlers that accept an operation     *)
(* (server/internal/api/apiv1/post_init_handlers.go), the records they     *)
(* change (server/internal/database/service.go), the task and the workflow *)
(* they create (server/internal/workflows/service.go) and the workflow     *)
(* that carries the operation out (update_database.go, delete_database.go, *)
(* pgbackrest_restore.go, common.go).                                      *)
(*                                                                         *)
(* A specification is the set of operations whose changes it contains.     *)
(* Requests that are refused before they change anything are left out,     *)
(* except the refusal "not modifiable".                                    *)
(***************************************************************************)
EXTENDS Naturals, FiniteSets

CONSTANTS
    Op,         \* the operations that are requested
    Base,       \* the specification of a database that exists at the start
    Kinds,      \* the kinds of operation that are requested
    MayFail,    \* the steps whose requests or activities may fail
    MaxFaults,  \* bound: failed steps
    ForceFlag,  \* TRUE: requests may carry the force flag
    Cancels,    \* the kinds of operation whose tasks may be canceled
    Recreate    \* TRUE: a deleted database may be created again

AllKinds == {"create", "update", "upgrade", "restore", "delete"}

FailingSteps ==
    {"crash", "task", "workflow", "link", "rollback",
     "start", "refresh", "plan", "planDelete", "apply", "persist", "finish",
     "complete", "failed"}

ASSUME OpsAreFinite      == IsFiniteSet(Op)
ASSUME BaseIsNoOp        == Base \notin Op
ASSUME KindsAreKnown     == Kinds \cup Cancels \subseteq AllKinds
ASSUME MayFailIsKnown    == MayFail \subseteq FailingSteps
ASSUME MaxFaultsIsNat    == MaxFaults \in Nat
ASSUME SwitchesAreBoolean == {ForceFlag, Recreate} \subseteq BOOLEAN

VARIABLES
    state,     \* StoredDatabase.State, or "absent"
    spec,      \* StoredSpec
    actual,    \* the resources as they are
    known,     \* the resources as the persisted resource.State has them
    kind,      \* the kind of each operation, or "none"
    pc,        \* the step of each handler
    fresh,     \* operations whose copies of spec and database are current
    saw,       \* what a handler has read: the state, the specification its own
               \* is built from and, as base, the one it is to replace
    task,      \* operations whose task record exists
    wf,        \* the step of each workflow
    input,     \* UpdateDatabaseInput.Spec
    ok,        \* FALSE: applyPlans has returned an error
    canceled,  \* ctx.Err() is Canceled
    settled,   \* how often each workflow has set the state (history)
    faults     \* the steps that have failed, with their operations

database == <<state, spec>>
handler  == <<kind, pc, fresh, saw>>
workflow == <<wf, input, ok, canceled, settled>>
vars     == <<database, actual, known, handler, task, workflow, faults>>

Specs     == SUBSET (Op \cup {Base})
Resources == [spec : Specs, whole : BOOLEAN]
Nothing   == [spec |-> {}, whole |-> TRUE]

\* The states that database.go knows; "degraded" is never stored.
InProgress == {"creating", "modifying", "deleting", "restoring"}

States == InProgress \cup {"available", "failed", "absent"}

HandlerSteps ==
    {"idle", "fetched", "read", "stored", "tasked", "started", "rollback",
     "done", "refused", "error", "crashed", "notModifiable"}

WorkflowSteps ==
    {"none", "start", "refresh", "plan", "apply", "applying", "persist", "finish",
     "complete", "failed", "exit", "done"}

TypeOK ==
    /\ state \in States
    /\ spec \in Specs
    /\ actual \in Resources
    /\ known \in Resources
    /\ kind \in [Op -> Kinds \cup {"none"}]
    /\ pc \in [Op -> HandlerSteps]
    /\ fresh \in SUBSET Op
    /\ saw \in [Op -> [state : States, spec : Specs, base : Specs]]
    /\ task \in SUBSET Op
    /\ wf \in [Op -> WorkflowSteps]
    /\ input \in [Op -> Specs]
    /\ ok \in [Op -> BOOLEAN]
    /\ canceled \in [Op -> BOOLEAN]
    /\ settled \in [Op -> Nat]
    /\ faults \in SUBSET (Op \X FailingSteps)

Init ==
    /\ \/ state = "absent" /\ spec = {} /\ actual = Nothing
       \/ state = "available" /\ spec = {Base} /\ actual = [spec |-> {Base}, whole |-> TRUE]
    /\ known = actual
    /\ kind = [o \in Op |-> "none"]
    /\ pc = [o \in Op |-> "idle"]
    /\ fresh = {}
    /\ saw = [o \in Op |-> [state |-> "absent", spec |-> {}, base |-> {}]]
    /\ task = {}
    /\ wf = [o \in Op |-> "none"]
    /\ input = [o \in Op |-> {}]
    /\ ok = [o \in Op |-> TRUE]
    /\ canceled = [o \in Op |-> FALSE]
    /\ settled = [o \in Op |-> 0]
    /\ faults = {}

Goto(o, s) == pc' = [pc EXCEPT ![o] = s]
Step(o, s) == wf' = [wf EXCEPT ![o] = s]

\* A step of the given name fails.
Fails(o, step) ==
    /\ step \in MayFail
    /\ Cardinality(faults) < MaxFaults
    /\ faults' = faults \cup {<<o, step>>}

-----------------------------------------------------------------------------
(***************************************************************************)
(* The handlers: the change of the records                                 *)
(***************************************************************************)

\* Mutant of DatabaseStateModifiable: a database that is being modified may
\* be modified.
MutDatabaseStateModifiable(s) == s \in {"available", "failed", "modifying"}

DatabaseStateModifiable(s) == s \in {"available", "failed"}

\* Every write of the database record makes the copies of it stale.
SetState(s) == state' = s /\ fresh' = {}

CreateDatabase(o) ==
    /\ pc[o] = "idle" /\ "create" \in Kinds
    /\ state = "absent"
    /\ Recreate \/ \A p \in Op : kind[p] # "delete"
    /\ SetState("creating")
    /\ spec' = {o}
    /\ kind' = [kind EXCEPT ![o] = "create"]
    /\ input' = [input EXCEPT ![o] = {o}]
    /\ Goto(o, "stored")
    /\ UNCHANGED <<actual, known, saw, task, wf, ok, canceled, settled, faults>>

\* UpdateDatabase and RestoreDatabase build the new specification from a read
\* of their own, before the checks of the specification; only a restore looks
\* at the state.
FetchDatabase(o, k) ==
    /\ pc[o] = "idle" /\ k \in Kinds
    /\ state # "absent"
    /\ k = "restore" => DatabaseStateModifiable(state) \/ ForceFlag
    /\ kind' = [kind EXCEPT ![o] = k]
    /\ saw' = [saw EXCEPT ![o] = [state |-> state, spec |-> spec, base |-> {}]]
    /\ Goto(o, "fetched")
    /\ UNCHANGED <<database, actual, known, fresh, task, workflow, faults>>

\* The read of Service.UpdateDatabase or Service.ApplyUpgrade, whatever the
\* force flag.  An upgrade has no earlier one.
ReadDatabase(o, k) ==
    /\ k \in Kinds
    /\ \/ k = "upgrade" /\ pc[o] = "idle"
       \/ k \in {"update", "restore"} /\ kind[o] = k /\ pc[o] = "fetched"
    /\ state # "absent"
    /\ kind' = [kind EXCEPT ![o] = k]
    /\ IF DatabaseStateModifiable(state)
       THEN /\ Goto(o, "read")
            /\ fresh' = fresh \cup {o}
            /\ saw' = [saw EXCEPT ![o] =
                         IF k = "upgrade" THEN [state |-> state, spec |-> spec, base |-> spec]
                         ELSE [@ EXCEPT !.base = spec]]
       ELSE Goto(o, "notModifiable") /\ UNCHANGED <<fresh, saw>>
    /\ UNCHANGED <<database, actual, known, task, workflow, faults>>

\* DefaultOptionalFieldsFrom: an update brings its specification and keeps, of
\* the one it has fetched, the version that an upgrade has set.
Defaulted(o) == {o} \cup {p \in Op : p \in saw[o].spec /\ kind[p] = "upgrade"}

\* An upgrade changes the current specification and a restore the fetched one.
NewSpec(o) ==
    CASE kind[o] = "update"  -> Defaulted(o)
      [] kind[o] = "upgrade" -> spec \cup {o}
      [] kind[o] = "restore" -> saw[o].spec \cup {o}

\* Mutant of CopyIsCurrent: the transaction does not compare versions.
MutCopyIsCurrent(o) == state # "absent"

\* The version check of the transaction.
CopyIsCurrent(o) == o \in fresh

StateFor(o) == IF kind[o] = "restore" THEN "restoring" ELSE "modifying"

ApplySpecUpdate(o) ==
    /\ pc[o] = "read" /\ kind[o] # "delete"
    /\ IF CopyIsCurrent(o)
       THEN /\ SetState(StateFor(o))
            /\ spec' = NewSpec(o)
            /\ input' = [input EXCEPT ![o] = NewSpec(o)]
            /\ Goto(o, "stored")
       ELSE /\ Goto(o, "refused")
            /\ UNCHANGED <<database, fresh, input>>
    /\ UNCHANGED <<actual, known, kind, saw, task, wf, ok, canceled, settled, faults>>

ReadForDelete(o) ==
    /\ pc[o] = "idle" /\ "delete" \in Kinds
    /\ state # "absent"
    /\ kind' = [kind EXCEPT ![o] = "delete"]
    /\ saw' = [saw EXCEPT ![o] = [state |-> state, spec |-> spec, base |-> {}]]
    /\ Goto(o, IF ForceFlag \/ DatabaseStateModifiable(state) THEN "read" ELSE "notModifiable")
    /\ UNCHANGED <<database, actual, known, fresh, task, workflow, faults>>

\* The guard of UpdateDatabaseState, which reads the record again.
StateIs(o) == state = saw[o].state

SetDeleting(o) ==
    /\ pc[o] = "read" /\ kind[o] = "delete"
    /\ IF StateIs(o)
       THEN SetState("deleting") /\ Goto(o, "stored")
       ELSE Goto(o, "refused") /\ UNCHANGED <<state, fresh>>
    /\ UNCHANGED <<spec, actual, known, kind, saw, task, workflow, faults>>

-----------------------------------------------------------------------------
(***************************************************************************)
(* The handlers: task and workflow                                         *)
(***************************************************************************)

\* CreateDatabase deletes the tasks of an earlier database of that name.
CreateTask(o) ==
    /\ pc[o] = "stored"
    /\ \/ /\ task' = IF kind[o] = "create" THEN {o} ELSE task \cup {o}
          /\ Goto(o, "tasked")
          /\ UNCHANGED faults
       \/ Fails(o, "task") /\ Goto(o, "rollback") /\ UNCHANGED task
    /\ UNCHANGED <<database, actual, known, kind, fresh, saw, workflow>>

\* A task whose workflow cannot be created is deleted (abortTasks).
CreateWorkflow(o) ==
    /\ pc[o] = "tasked"
    /\ \/ Step(o, "start") /\ Goto(o, "started") /\ UNCHANGED <<task, faults>>
       \/ /\ Fails(o, "workflow")
          /\ task' = task \ {o}
          /\ Goto(o, "rollback")
          /\ UNCHANGED wf
    /\ UNCHANGED <<database, actual, known, kind, fresh, saw, input, ok, canceled, settled>>

\* createWorkflow writes the workflow's ID into the task; when that fails
\* the handler takes it for a workflow that has not started.
LinkTask(o) ==
    /\ pc[o] = "started"
    /\ \/ o \in task /\ Goto(o, "done") /\ UNCHANGED faults
       \/ o \notin task /\ Goto(o, "rollback") /\ UNCHANGED faults
       \/ Fails(o, "link") /\ Goto(o, "rollback")
    /\ UNCHANGED <<database, actual, known, kind, fresh, saw, task, workflow>>

\* CreateDatabase has no way back; UpdateDatabase and RestoreDatabase put
\* back the state that they have set themselves.
Rollback(o) ==
    /\ pc[o] = "rollback"
    /\ Goto(o, "error")
    /\ \/ /\ CASE kind[o] = "create" -> UNCHANGED <<database, fresh>>
               [] kind[o] \in {"update", "restore"} ->
                    /\ fresh' = IF state \in {"modifying", "restoring"} THEN {} ELSE fresh
                    /\ UNCHANGED database
               [] kind[o] = "upgrade" ->
                    IF state = "absent" THEN UNCHANGED <<database, fresh>>
                    ELSE SetState(saw[o].state) /\ spec' = saw[o].spec
               [] kind[o] = "delete" ->
                    /\ IF state = "deleting" THEN SetState(saw[o].state)
                       ELSE UNCHANGED <<state, fresh>>
                    /\ UNCHANGED spec
          /\ UNCHANGED faults
       \/ Fails(o, "rollback") /\ UNCHANGED <<database, fresh>>
    /\ UNCHANGED <<actual, known, kind, saw, task, workflow>>

\* The control plane stops while a handler runs; nobody goes on with it.  To
\* stop before the rollback is to fail in it.
Crash(o) ==
    /\ pc[o] \in {"fetched", "read", "stored", "tasked", "started"}
    /\ Fails(o, "crash")
    /\ Goto(o, IF pc[o] \in {"fetched", "read"} THEN "refused" ELSE "crashed")
    /\ fresh' = fresh \ {o}
    /\ UNCHANGED <<database, actual, known, kind, saw, task, workflow>>

-----------------------------------------------------------------------------
(***************************************************************************)
(* The workflows.  An activity of a canceled workflow is not started and   *)
(* returns an error.                                                       *)
(***************************************************************************)

\* An activity that changes nothing here: it takes the workflow from one
\* step to the next or to handleError.
Activity(o, step, next, error) ==
    /\ wf[o] = step
    /\ \/ ~canceled[o] /\ Step(o, next) /\ UNCHANGED faults
       \/ canceled[o] /\ Step(o, error) /\ UNCHANGED faults
       \/ Fails(o, step) /\ Step(o, error)
    /\ UNCHANGED <<database, actual, known, handler, task, input, ok, canceled, settled>>

\* The task is read and written back: it must exist.
UpdateTask(o, step, next) ==
    /\ wf[o] = step
    /\ \/ o \in task /\ ~canceled[o] /\ Step(o, next) /\ UNCHANGED faults
       \/ (o \notin task \/ canceled[o]) /\ Step(o, "failed") /\ UNCHANGED faults
       \/ Fails(o, step) /\ Step(o, "failed")
    /\ UNCHANGED <<database, actual, known, handler, task, input, ok, canceled, settled>>

Start(o) == UpdateTask(o, "start", "refresh")

RefreshCurrentState(o) == Activity(o, "refresh", "plan", "failed")

Plan(o) == Activity(o, "plan", "apply", "failed")

\* DeleteDatabase plans by itself and returns an error of the plan as it is.
PlanDeleteFails(o) ==
    /\ wf[o] = "plan" /\ kind[o] = "delete"
    /\ Fails(o, "planDelete")
    /\ Step(o, "exit")
    /\ UNCHANGED <<database, actual, known, handler, task, input, ok, canceled, settled>>

ApplyFirst(o) ==
    /\ wf[o] = "apply"
    /\ IF canceled[o]
       THEN Step(o, "persist") /\ ok' = [ok EXCEPT ![o] = FALSE] /\ UNCHANGED actual
       ELSE /\ Step(o, "applying")
            /\ actual' = [spec |-> input[o], whole |-> FALSE]
            /\ UNCHANGED ok
    /\ UNCHANGED <<database, known, handler, task, input, canceled, settled, faults>>

\* Applying runs to its end or stops at an event that fails.
ApplyLast(o) ==
    /\ wf[o] = "applying"
    /\ Step(o, "persist")
    /\ \/ /\ ~canceled[o]
          /\ actual' = [spec |-> input[o], whole |-> TRUE]
          /\ UNCHANGED <<ok, faults>>
       \/ /\ (canceled[o] /\ UNCHANGED faults) \/ Fails(o, "apply")
          /\ ok' = [ok EXCEPT ![o] = FALSE]
          /\ UNCHANGED actual
    /\ UNCHANGED <<database, known, handler, task, input, canceled, settled>>

\* Mutant of Persists: only a plan that was applied to its end is persisted.
MutPersists(o) == ~canceled[o] /\ ok[o]

\* The deferred PersistState is an activity of the workflow's own context.
Persists(o) == ~canceled[o]

\* Mutant of AfterPlans: an error of applyPlans is only logged.
MutAfterPlans(o) == "finish"

AfterPlans(o) == IF ok[o] THEN "finish" ELSE "failed"

PersistState(o) ==
    /\ wf[o] = "persist"
    /\ Step(o, AfterPlans(o))
    /\ \/ /\ known' = IF Persists(o) THEN actual ELSE known
          /\ UNCHANGED faults
       \/ Fails(o, "persist") /\ UNCHANGED known
    /\ UNCHANGED <<database, actual, handler, task, input, ok, canceled, settled>>

\* UpdateDbState, without a condition on the state that it replaces.
Settle(o, s) == SetState(s) /\ settled' = [settled EXCEPT ![o] = @ + 1]

\* UpdateDbState(available) or DeleteDbEntities.
Finish(o) ==
    /\ wf[o] = "finish"
    /\ \/ /\ ~canceled[o] /\ kind[o] # "delete" /\ state # "absent"
          /\ Settle(o, "available")
          /\ Step(o, "complete")
          /\ UNCHANGED <<spec, known, faults>>
       \/ /\ ~canceled[o] /\ kind[o] = "delete"
          /\ Settle(o, "absent")
          /\ spec' = {}
          /\ known' = Nothing
          /\ Step(o, "complete")
          /\ UNCHANGED faults
       \/ /\ canceled[o] \/ (kind[o] # "delete" /\ state = "absent")
          /\ Step(o, "failed")
          /\ UNCHANGED <<database, known, fresh, settled, faults>>
       \/ /\ Fails(o, "finish") /\ Step(o, "failed")
          /\ known' \in IF kind[o] = "delete" THEN {known, Nothing} ELSE {known}
          /\ UNCHANGED <<database, fresh, settled>>
    /\ UNCHANGED <<actual, kind, pc, saw, task, input, ok, canceled>>

\* handleDatabaseSucceeded and the last update of the task.
Complete(o) == UpdateTask(o, "complete", "exit")

\* Mutant of Failed: handleError only updates the task.
MutFailed(o) == Activity(o, "failed", "exit", "exit")

\* handleError: the state is set whatever it is.
Failed(o) ==
    /\ wf[o] = "failed"
    /\ Step(o, "exit")
    /\ \/ /\ IF canceled[o] \/ state = "absent" THEN UNCHANGED <<state, fresh, settled>>
             ELSE Settle(o, "failed")
          /\ UNCHANGED faults
       \/ Fails(o, "failed") /\ UNCHANGED <<state, fresh, settled>>
    /\ UNCHANGED <<spec, actual, known, kind, pc, saw, task, input, ok, canceled>>

\* Mutant of CleansUp: no kind of workflow sets the state when it is canceled.
MutCleansUp(o) == FALSE

\* The deferred function of a canceled workflow; the one of a restore only
\* updates the task.
CleansUp(o) == canceled[o] /\ kind[o] # "restore"

Exit(o) ==
    /\ wf[o] = "exit"
    /\ Step(o, "done")
    /\ \/ /\ IF CleansUp(o) /\ state # "absent" THEN Settle(o, "failed")
             ELSE UNCHANGED <<state, fresh, settled>>
          /\ UNCHANGED faults
       \/ CleansUp(o) /\ Fails(o, "failed") /\ UNCHANGED <<state, fresh, settled>>
    /\ UNCHANGED <<spec, actual, known, kind, pc, saw, task, input, ok, canceled>>

\* CancelDatabaseTask: the task must exist and know its workflow.
CancelTask(o) ==
    /\ kind[o] \in Cancels
    /\ pc[o] = "done" /\ o \in task
    /\ wf[o] \notin {"none", "done"} /\ ~canceled[o]
    /\ canceled' = [canceled EXCEPT ![o] = TRUE]
    /\ UNCHANGED <<database, actual, known, handler, task, wf, input, ok, settled, faults>>

-----------------------------------------------------------------------------

Request(o) ==
    \/ CreateDatabase(o) \/ ReadForDelete(o) \/ ReadDatabase(o, "upgrade")
    \/ \E k \in {"update", "restore"} : FetchDatabase(o, k)

Handle(o) ==
    \/ \E k \in {"update", "restore"} : ReadDatabase(o, k)
    \/ ApplySpecUpdate(o) \/ SetDeleting(o)
    \/ CreateTask(o) \/ CreateWorkflow(o) \/ LinkTask(o) \/ Rollback(o)

Work(o) ==
    \/ Start(o) \/ RefreshCurrentState(o) \/ Plan(o) \/ PlanDeleteFails(o)
    \/ ApplyFirst(o) \/ ApplyLast(o) \/ PersistState(o)
    \/ Finish(o) \/ Complete(o) \/ Failed(o) \/ Exit(o)

Next == \E o \in Op : Request(o) \/ Handle(o) \/ Work(o) \/ CancelTask(o) \/ Crash(o)

Spec == Init /\ [][Next]_vars

\* A handler runs to its end unless its process stops (Crash), after which
\* nothing is assumed of it.  Workflows are durable: the engine drives each of
\* them to its end (WorkflowTasks, ActivityTasks).
FairSpec == Spec /\ \A o \in Op : WF_vars(Handle(o)) /\ WF_vars(Work(o))

-----------------------------------------------------------------------------
(***************************************************************************)
(* Properties                                                              *)
(***************************************************************************)

\* The workflow has not come to its result.
Busy(o) == wf[o] \notin {"none", "complete", "failed", "exit", "done"}

\* The handler has changed the state and has not given up.
Handling(o) == pc[o] \in {"stored", "tasked", "started", "rollback"}

(***************************************************************************)
(* Failures that the code does not recover from, which README.md discusses *)
(* one by one.  Each property is required as long as none of the kind that *)
(* matters to it has happened.                                             *)
(***************************************************************************)

\* The database stays in progress: the handlers of create, update and restore
\* do not undo their change, one stops before it has created the workflow, the
\* error handling itself fails, or a restore was canceled.
Stranded ==
    \/ \E f \in faults :
         \/ f[2] \in {"rollback", "planDelete", "failed"}
         \/ f[2] \in {"task", "workflow"} /\ kind[f[1]] \notin {"upgrade", "delete"}
    \/ \E o \in Op : pc[o] = "crashed" /\ wf[o] = "none"
    \/ \E o \in Op : canceled[o] /\ kind[o] = "restore"

\* The handler takes back its change while its workflow runs: the task could
\* not be linked.
Undone ==
    \E o \in Op : /\ kind[o] \in {"upgrade", "delete"} /\ wf[o] # "none"
                  /\ pc[o] \in {"rollback", "error"}

\* A workflow that had set the state already has set it again: its task could
\* not be completed, or it was canceled then.
Overwritten == \E o \in Op : settled[o] > 1

\* PersistState has failed, which is only logged.
Unrecorded == \E f \in faults : f[2] = "persist"

\* At most one workflow at a time works on the database: the state keeps
\* every other request out until the workflow has set it again
\* (DatabaseStateModifiable, applySpecUpdate, UpdateDatabaseState).
OneOperationAlways == \A o, p \in Op : Busy(o) /\ Busy(p) => o = p

\* The same, unless a failure was not recovered from.
OneOperation == Undone \/ Overwritten \/ OneOperationAlways

\* A database that is shown as available has its whole specification applied
\* and the persisted resource.State says so (UpdateDatabase, lines 119-133).
SpecAppliedAlways ==
    state = "available" /\ (\A o \in Op : ~Busy(o) /\ ~Handling(o))
        => actual = [spec |-> spec, whole |-> TRUE] /\ known = actual

\* The same, unless a failure was not recovered from.
SpecApplied == Undone \/ Overwritten \/ Unrecorded \/ SpecAppliedAlways

\* A database is shown as in progress only while somebody is at work on it
\* who will set the state again; otherwise no request would be accepted any
\* more (the rollbacks of the handlers, handleError, the deferred functions).
NoOrphanAlways ==
    state \in InProgress => \E o \in Op : Handling(o) \/ wf[o] \notin {"none", "done"}

\* The same, unless a failure was not recovered from.
NoOrphan == Stranded \/ NoOrphanAlways

\* Between plans the persisted resource.State describes the resources that
\* exist, also after plans that have failed (the deferred PersistState of
\* applyPlans): the next plan is derived from it.  Not so after a workflow
\* was canceled, whose PersistState is not started.
KnownIsActual ==
    \/ Undone \/ Overwritten \/ Unrecorded
    \/ \E o \in Op : wf[o] \in {"applying", "persist"} \/ canceled[o]
    \/ known = actual

\* Every operation comes to its end, whatever fails and is recovered from, also
\* when the process that has accepted it stops after it has created the
\* workflow: a database does not stay in progress (the handlers' rollbacks,
\* handleError, the deferred functions of the workflows).
Settles == (state \in InProgress) ~> (state \notin InProgress \/ Stranded)

\* A request is accepted only in a modifiable state, and the specification it
\* replaces is the one it was checked against (ValidateChangedSpec) or, for an
\* upgrade, derived from, although it reads and writes in two steps
\* (Service.UpdateDatabase, Service.ApplyUpgrade).  What an update or a restore
\* takes over comes from the handler's earlier read, of which this says nothing.
AcceptedOnCurrent ==
    [][\A o \in Op :
        pc[o] = "read" /\ pc'[o] = "stored" /\ kind[o] # "delete" =>
            /\ DatabaseStateModifiable(state)
            /\ saw[o].base = spec
            /\ kind[o] = "upgrade" => spec' = saw[o].spec \cup {o}]_vars

\* An update that sets no version keeps the one the database has
\* (UpdateDatabase, lines 396-398).
UpdateKeepsVersion ==
    [][\A o \in Op :
        kind[o] = "update" /\ pc[o] = "read" /\ pc'[o] = "stored"
            => {p \in spec \cap Op : kind[p] = "upgrade"} \subseteq spec']_vars

\* A restore only takes the backup configuration out of the specification: no
\* change made meanwhile gets lost (RestoreDatabase, lines 851-861).
RestoreKeepsSpec ==
    [][\A o \in Op :
        kind[o] = "restore" /\ pc[o] = "read" /\ pc'[o] = "stored"
            => spec \subseteq spec']_vars

\* A forced restore is not refused for the state of the database
\* (RestoreDatabase, line 837).
ForcedRestoreAccepted ==
    \A o \in Op : ForceFlag /\ kind[o] = "restore" => pc[o] # "notModifiable"

=============================================================================
