---------------------------- MODULE LifecycleProofs ----------------------------
(***************************************************************************)
(* What holds for any number of operations, whichever steps fail, with     *)
(* cancellation and re-creation.  A request that is accepted was checked    *)
(* against the records it replaces, with or without force.  Without it the *)
(* state of the record is a lock: one workflow works on the database, the  *)
(* state is set again in the end, and an available database is what the    *)
(* specification and the persisted resource.State say.                     *)
(*                                                                         *)
(* The invariants are layers: IInv, StepInv, HoldInv, PendInv, SpecInv,    *)
(* each proved with the help of the ones before it.                        *)
(***************************************************************************)
EXTENDS Lifecycle, TLAPS

\* A handler that has begun knows its kind, and only the kinds that read the
\* records are ever at "read".
KindIsSet ==
    \A o \in Op : pc[o] # "idle" =>
        /\ kind[o] \in AllKinds
        /\ pc[o] = "read" => kind[o] # "create"

\* A copy that is current has been read in the state the database is still in.
CopiesAreCurrent ==
    \A o \in fresh :
        /\ pc[o] = "read" /\ kind[o] # "delete"
        /\ DatabaseStateModifiable(state)
        /\ saw[o].base = spec
        /\ kind[o] = "upgrade" => saw[o].spec = spec /\ saw[o].state = state

IInv == TypeOK /\ KindIsSet /\ CopiesAreCurrent

\* A record of a specification and a flag describes resources.
LEMMA ResourcesType ==
    ASSUME NEW s \in Specs, NEW w \in BOOLEAN
    PROVE  [spec |-> s, whole |-> w] \in Resources
  BY DEF Resources

\* The initial states satisfy the invariant.
LEMMA InitIInv == Init => IInv
<1> SUFFICES ASSUME Init PROVE IInv
  OBVIOUS
<1>0. {} \in Specs /\ {Base} \in Specs
  BY DEF Specs
<1>1. state \in States /\ spec \in Specs /\ actual \in Resources
  BY <1>0, ResourcesType DEF Init, States, Nothing
<1>2. /\ kind \in [Op -> Kinds \cup {"none"}]
      /\ pc \in [Op -> HandlerSteps]
      /\ saw \in [Op -> [state : States, spec : Specs, base : Specs]]
      /\ wf \in [Op -> WorkflowSteps]
  BY DEF Init, HandlerSteps, WorkflowSteps, States, Specs
<1>3. /\ input \in [Op -> Specs]
      /\ ok \in [Op -> BOOLEAN]
      /\ canceled \in [Op -> BOOLEAN]
      /\ settled \in [Op -> Nat]
      /\ faults \in SUBSET (Op \X FailingSteps)
  BY DEF Init, Specs
<1>4. KindIsSet /\ CopiesAreCurrent
  BY DEF Init, KindIsSet, CopiesAreCurrent
<1> QED  BY <1>1, <1>2, <1>3, <1>4 DEF Init, IInv, TypeOK

\* A new specification is a specification.
LEMMA NewSpecType ==
    ASSUME IInv, NEW o \in Op, pc[o] = "read", kind[o] # "delete"
    PROVE  NewSpec(o) \in Specs
<1>1. kind[o] \in {"update", "upgrade", "restore"}
  BY DEF IInv, KindIsSet, AllKinds
<1>2. spec \in Specs /\ saw[o].spec \in Specs
  BY DEF IInv, TypeOK
<1> QED  BY <1>1, <1>2 DEF NewSpec, Defaulted, Specs

\* A step of a workflow or of a handler that has stored its change keeps the
\* invariant when it keeps the types and, with the records, the copies.
LEMMA CopiesKept ==
    ASSUME IInv, TypeOK',
           UNCHANGED <<kind, saw>>,
           \A o \in Op : pc'[o] # pc[o] => pc[o] \notin {"idle", "read"} /\ pc'[o] # "read",
           fresh' = {} \/ UNCHANGED <<fresh, database>>
    PROVE  IInv'
<1>1. KindIsSet'
  BY DEF IInv, KindIsSet
<1>2. CopiesAreCurrent'
  BY DEF IInv, TypeOK, CopiesAreCurrent, database, DatabaseStateModifiable
<1> QED  BY <1>1, <1>2 DEF IInv

-----------------------------------------------------------------------------
(***************************************************************************)
(* The handlers                                                            *)
(***************************************************************************)

\* The first step of a request keeps the invariant.
LEMMA RequestIInv ==
    ASSUME IInv, NEW o \in Op, Request(o)
    PROVE  IInv'
<1> USE KindsAreKnown DEF AllKinds
<1>1. CASE CreateDatabase(o)
  <2>1. TypeOK'
    BY <1>1 DEF CreateDatabase, SetState, Goto, IInv, TypeOK, States, InProgress, Specs,
                HandlerSteps
  <2>2. KindIsSet' /\ CopiesAreCurrent'
    BY <1>1 DEF CreateDatabase, SetState, Goto, IInv, TypeOK, KindIsSet, CopiesAreCurrent
  <2> QED  BY <2>1, <2>2 DEF IInv
<1>2. ASSUME NEW k \in {"update", "restore"}, FetchDatabase(o, k)
      PROVE  IInv'
  <2>1. TypeOK'
    BY <1>2 DEF FetchDatabase, Goto, Specs, IInv, TypeOK, HandlerSteps, database, workflow
  <2>2. KindIsSet' /\ CopiesAreCurrent'
    BY <1>2 DEF FetchDatabase, Goto, IInv, TypeOK, KindIsSet, CopiesAreCurrent,
                database, DatabaseStateModifiable
  <2> QED  BY <2>1, <2>2 DEF IInv
<1>3. CASE ReadForDelete(o)
  <2>1. TypeOK'
    BY <1>3 DEF ReadForDelete, Goto, IInv, TypeOK, HandlerSteps, database, workflow, Specs
  <2>2. KindIsSet' /\ CopiesAreCurrent'
    BY <1>3 DEF ReadForDelete, Goto, IInv, TypeOK, KindIsSet, CopiesAreCurrent,
                database, DatabaseStateModifiable
  <2> QED  BY <2>1, <2>2 DEF IInv
<1>4. ASSUME ReadDatabase(o, "upgrade")
      PROVE  IInv'
  <2>1. saw' \in [Op -> [state : States, spec : Specs, base : Specs]]
    BY <1>4 DEF ReadDatabase, IInv, TypeOK
  <2>2. pc' \in [Op -> HandlerSteps] /\ fresh' \in SUBSET Op
    <3>1. pc' \in [Op -> HandlerSteps]
      BY <1>4 DEF ReadDatabase, Goto, IInv, TypeOK, HandlerSteps
    <3>2. fresh' \in SUBSET Op
      BY <1>4 DEF ReadDatabase, IInv, TypeOK
    <3> QED  BY <3>1, <3>2
  <2>3. TypeOK'
    BY <1>4, <2>1, <2>2 DEF ReadDatabase, IInv, TypeOK, database, workflow
  <2>4. KindIsSet' /\ CopiesAreCurrent'
    BY <1>4 DEF ReadDatabase, Goto, IInv, TypeOK, KindIsSet, CopiesAreCurrent,
                database, DatabaseStateModifiable
  <2> QED  BY <2>3, <2>4 DEF IInv
<1> QED  BY <1>1, <1>2, <1>3, <1>4 DEF Request

\* The later steps of a handler keep the invariant.
LEMMA HandleIInv ==
    ASSUME IInv, NEW o \in Op, Handle(o)
    PROVE  IInv'
<1> USE KindsAreKnown, MayFailIsKnown DEF AllKinds
<1>1. ASSUME NEW k \in {"update", "restore"}, ReadDatabase(o, k) PROVE IInv'
  <2>0. /\ pc' \in [Op -> HandlerSteps] /\ fresh' \in SUBSET Op
        /\ saw' \in [Op -> [state : States, spec : Specs, base : Specs]]
    <3>1. pc' \in [Op -> HandlerSteps]
      BY <1>1 DEF ReadDatabase, Goto, IInv, TypeOK, HandlerSteps
    <3>2. fresh' \in SUBSET Op
      BY <1>1 DEF ReadDatabase, IInv, TypeOK
    <3>3. saw[o] \in [state : States, spec : Specs, base : Specs] /\ spec \in Specs
      BY DEF IInv, TypeOK
    <3>4. saw' = saw \/ saw' = [saw EXCEPT ![o] = [saw[o] EXCEPT !.base = spec]]
      BY <1>1 DEF ReadDatabase
    <3>5. saw' \in [Op -> [state : States, spec : Specs, base : Specs]]
      BY <3>3, <3>4 DEF IInv, TypeOK
    <3> QED  BY <3>1, <3>2, <3>5
  <2>1. TypeOK'
    BY <1>1, <2>0 DEF ReadDatabase, IInv, TypeOK, database, workflow
  <2>2. KindIsSet' /\ CopiesAreCurrent'
    BY <1>1 DEF ReadDatabase, Goto, IInv, TypeOK, KindIsSet, CopiesAreCurrent,
                database, DatabaseStateModifiable
  <2> QED  BY <2>1, <2>2 DEF IInv
<1>2. CASE ApplySpecUpdate(o)
  <2>1. NewSpec(o) \in Specs
    BY <1>2, NewSpecType DEF ApplySpecUpdate
  <2>2. state' \in States /\ spec' \in Specs /\ fresh' \in SUBSET Op
    BY <1>2, <2>1 DEF ApplySpecUpdate, SetState, StateFor, IInv, TypeOK, States, InProgress,
                      database
  <2>3. input' \in [Op -> Specs]
    BY <1>2, <2>1 DEF ApplySpecUpdate, IInv, TypeOK
  <2>4. pc' \in [Op -> HandlerSteps]
    BY <1>2 DEF ApplySpecUpdate, Goto, IInv, TypeOK, HandlerSteps
  <2>5. TypeOK'
    BY <1>2, <2>2, <2>3, <2>4 DEF ApplySpecUpdate, IInv, TypeOK
  <2>6. KindIsSet' /\ CopiesAreCurrent'
    BY <1>2 DEF ApplySpecUpdate, SetState, CopyIsCurrent, Goto, IInv, TypeOK, KindIsSet,
                CopiesAreCurrent, database, DatabaseStateModifiable
  <2> QED  BY <2>5, <2>6 DEF IInv
<1>3. CASE SetDeleting(o)
  <2>1. TypeOK'
    BY <1>3 DEF SetDeleting, SetState, Goto, IInv, TypeOK, States, InProgress,
                HandlerSteps, workflow
  <2>2. fresh' = {} \/ UNCHANGED <<fresh, database>>
    BY <1>3 DEF SetDeleting, SetState, database
  <2>3. KindIsSet'
    BY <1>3 DEF SetDeleting, Goto, IInv, TypeOK, KindIsSet
  <2>4. CopiesAreCurrent'
    BY <1>3, <2>2 DEF SetDeleting, Goto, IInv, TypeOK, CopiesAreCurrent, database,
                      DatabaseStateModifiable
  <2> QED  BY <2>1, <2>3, <2>4 DEF IInv
<1>4. CASE CreateTask(o)
  <2>1. TypeOK'
    BY <1>4 DEF CreateTask, Fails, Goto, IInv, TypeOK, HandlerSteps, database, workflow
  <2> QED  BY <1>4, <2>1, CopiesKept DEF CreateTask, Goto, IInv, TypeOK
<1>5. CASE CreateWorkflow(o)
  <2>1. TypeOK'
    BY <1>5 DEF CreateWorkflow, Fails, Goto, Step, IInv, TypeOK, HandlerSteps,
                WorkflowSteps, database
  <2> QED  BY <1>5, <2>1, CopiesKept DEF CreateWorkflow, Goto, IInv, TypeOK
<1>6. CASE LinkTask(o)
  <2>1. TypeOK'
    BY <1>6 DEF LinkTask, Fails, Goto, IInv, TypeOK, HandlerSteps, database, workflow
  <2> QED  BY <1>6, <2>1, CopiesKept DEF LinkTask, Goto, IInv, TypeOK
<1>7. CASE Rollback(o)
  <2>1. kind[o] \in AllKinds
    BY <1>7 DEF Rollback, IInv, KindIsSet
  <2>2. /\ saw[o].state \in States /\ saw[o].spec \in Specs
        /\ state \in States /\ spec \in Specs
    BY DEF IInv, TypeOK
  <2>3. /\ state' \in States /\ spec' \in Specs
        /\ fresh' = {} \/ UNCHANGED <<fresh, database>>
    BY <1>7, <2>1, <2>2 DEF Rollback, SetState, database
  <2>4. faults' = faults \/ Fails(o, "rollback")
    BY <1>7 DEF Rollback
  <2>5. faults' \in SUBSET (Op \X FailingSteps) /\ fresh' \in SUBSET Op
    BY <2>4, <2>3 DEF Fails, IInv, TypeOK
  <2>6. pc' \in [Op -> HandlerSteps]
    BY <1>7 DEF Rollback, Goto, IInv, TypeOK, HandlerSteps
  <2>7. TypeOK'
    BY <1>7, <2>3, <2>6, <2>5 DEF Rollback, IInv, TypeOK, workflow
  <2> QED  BY <1>7, <2>3, <2>7, CopiesKept DEF Rollback, Goto, IInv, TypeOK
<1> QED  BY <1>1, <1>2, <1>3, <1>4, <1>5, <1>6, <1>7 DEF Handle

-----------------------------------------------------------------------------
(***************************************************************************)
(* The workflows                                                           *)
(***************************************************************************)

\* An activity without an effect on the records keeps the invariant.
LEMMA ActivityIInv ==
    ASSUME IInv, NEW o \in Op,
           NEW step \in WorkflowSteps, NEW next \in WorkflowSteps, NEW error \in WorkflowSteps,
           Activity(o, step, next, error)
    PROVE  IInv'
<1>1. TypeOK'
  BY MayFailIsKnown DEF Activity, Fails, Step, IInv, TypeOK, database, handler
<1> QED  BY <1>1, CopiesKept DEF Activity, handler

\* So does an update of the task.
LEMMA UpdateTaskIInv ==
    ASSUME IInv, NEW o \in Op, NEW step \in WorkflowSteps, NEW next \in WorkflowSteps,
           UpdateTask(o, step, next)
    PROVE  IInv'
<1>1. TypeOK'
  BY MayFailIsKnown DEF UpdateTask, Fails, Step, IInv, TypeOK, database, handler, WorkflowSteps
<1> QED  BY <1>1, CopiesKept DEF UpdateTask, handler

\* Every step of a workflow keeps the invariant.
LEMMA WorkIInv ==
    ASSUME IInv, NEW o \in Op, Work(o)
    PROVE  IInv'
<1> USE MayFailIsKnown
<1>1. CASE Start(o) \/ Complete(o)
  BY <1>1, UpdateTaskIInv DEF Start, Complete, WorkflowSteps
<1>2. CASE RefreshCurrentState(o) \/ Plan(o)
  BY <1>2, ActivityIInv DEF RefreshCurrentState, Plan, WorkflowSteps
<1>3. CASE PlanDeleteFails(o)
  <2>1. TypeOK'
    BY <1>3 DEF PlanDeleteFails, Fails, Step, IInv, TypeOK, database, handler, WorkflowSteps
  <2> QED  BY <1>3, <2>1, CopiesKept DEF PlanDeleteFails, handler
<1>4. CASE ApplyFirst(o)
  <2>1. input[o] \in Specs
    BY DEF IInv, TypeOK
  <2>2. actual' \in Resources
    BY <1>4, <2>1, ResourcesType DEF ApplyFirst, IInv, TypeOK
  <2>3. TypeOK'
    BY <1>4, <2>2 DEF ApplyFirst, Step, IInv, TypeOK, database, handler, WorkflowSteps
  <2> QED  BY <1>4, <2>3, CopiesKept DEF ApplyFirst, handler
<1>5. CASE ApplyLast(o)
  <2>1. input[o] \in Specs
    BY DEF IInv, TypeOK
  <2>2. actual' \in Resources
    BY <1>5, <2>1, ResourcesType DEF ApplyLast, IInv, TypeOK
  <2>3. UNCHANGED faults \/ Fails(o, "apply")
    BY <1>5 DEF ApplyLast
  <2>4. UNCHANGED ok \/ ok' = [ok EXCEPT ![o] = FALSE]
    BY <1>5 DEF ApplyLast
  <2>5. faults' \in SUBSET (Op \X FailingSteps)
    BY <2>3 DEF Fails, IInv, TypeOK
  <2>6. ok' \in [Op -> BOOLEAN]
    BY <2>4 DEF IInv, TypeOK
  <2>7. wf' \in [Op -> WorkflowSteps]
    BY <1>5 DEF ApplyLast, Step, IInv, TypeOK, WorkflowSteps
  <2>8. TypeOK'
    BY <1>5, <2>2, <2>7, <2>5, <2>6 DEF ApplyLast, IInv, TypeOK, database, handler
  <2> QED  BY <1>5, <2>8, CopiesKept DEF ApplyLast, handler
<1>6. CASE PersistState(o)
  <2>1. TypeOK'
    BY <1>6 DEF PersistState, AfterPlans, Fails, Step, IInv, TypeOK, database, handler,
                WorkflowSteps
  <2> QED  BY <1>6, <2>1, CopiesKept DEF PersistState, handler
<1>7. CASE Finish(o)
  <2>1. {} \in Specs /\ Nothing \in Resources
    BY ResourcesType DEF Specs, Nothing
  <2>2. state' \in States /\ spec' \in Specs /\ known' \in Resources
    BY <1>7, <2>1 DEF Finish, Settle, SetState, IInv, TypeOK, States, database
  <2>3. fresh' = {} \/ UNCHANGED <<fresh, database>>
    BY <1>7 DEF Finish, Settle, SetState, database
  <2>4. wf' \in [Op -> WorkflowSteps] /\ fresh' \in SUBSET Op
    BY <1>7, <2>3 DEF Finish, Step, IInv, TypeOK, WorkflowSteps
  <2>5. settled' \in [Op -> Nat]
    <3>1. settled' = settled \/ settled' = [settled EXCEPT ![o] = settled[o] + 1]
      BY <1>7 DEF Finish, Settle
    <3>2. settled \in [Op -> Nat]
      BY DEF IInv, TypeOK
    <3> QED  BY <3>1, <3>2
  <2>6. faults' \in SUBSET (Op \X FailingSteps)
    BY <1>7 DEF Finish, Fails, IInv, TypeOK
  <2>7. TypeOK'
    BY <1>7, <2>2, <2>4, <2>5, <2>6 DEF Finish, IInv, TypeOK
  <2> QED  BY <1>7, <2>3, <2>7, CopiesKept DEF Finish
<1>8. CASE Failed(o) \/ Exit(o)
  <2>1. state' \in States /\ spec' = spec /\ (fresh' = {} \/ UNCHANGED <<fresh, database>>)
    BY <1>8 DEF Failed, Exit, Settle, SetState, IInv, TypeOK, States, database
  <2>2. wf' \in [Op -> WorkflowSteps] /\ fresh' \in SUBSET Op
    BY <1>8, <2>1 DEF Failed, Exit, Step, IInv, TypeOK, WorkflowSteps
  <2>3. settled' \in [Op -> Nat]
    <3>1. settled' = settled \/ settled' = [settled EXCEPT ![o] = settled[o] + 1]
      BY <1>8 DEF Failed, Exit, Settle
    <3>2. settled \in [Op -> Nat]
      BY DEF IInv, TypeOK
    <3> QED  BY <3>1, <3>2
  <2>4. faults' \in SUBSET (Op \X FailingSteps)
    BY <1>8 DEF Failed, Exit, Fails, IInv, TypeOK
  <2>5. TypeOK'
    BY <1>8, <2>1, <2>2, <2>3, <2>4 DEF Failed, Exit, IInv, TypeOK
  <2> QED  BY <1>8, <2>1, <2>5, CopiesKept DEF Failed, Exit
<1> QED  BY <1>1, <1>2, <1>3, <1>4, <1>5, <1>6, <1>7, <1>8 DEF Work

-----------------------------------------------------------------------------

\* IInv is inductive.
LEMMA NextIInv == IInv /\ [Next]_vars => IInv'
<1> SUFFICES ASSUME IInv, [Next]_vars PROVE IInv'
  OBVIOUS
<1>1. CASE UNCHANGED vars
  BY <1>1 DEF vars, database, handler, workflow, IInv, TypeOK, KindIsSet, CopiesAreCurrent,
              DatabaseStateModifiable
<1>2. ASSUME NEW o \in Op, CancelTask(o) PROVE IInv'
  <2>1. TypeOK'
    BY <1>2 DEF CancelTask, IInv, TypeOK, database, handler
  <2> QED  BY <1>2, <2>1, CopiesKept DEF CancelTask, handler
<1>3. ASSUME NEW o \in Op, Crash(o) PROVE IInv'
  <2>1. TypeOK'
    BY <1>3, MayFailIsKnown DEF Crash, Fails, Goto, IInv, TypeOK, HandlerSteps, database, workflow
  <2>2. KindIsSet' /\ CopiesAreCurrent'
    BY <1>3 DEF Crash, Goto, IInv, TypeOK, KindIsSet, CopiesAreCurrent, database,
                DatabaseStateModifiable
  <2> QED  BY <2>1, <2>2 DEF IInv
<1> QED  BY <1>1, <1>2, <1>3, RequestIInv, HandleIInv, WorkIInv DEF Next

\* Every variable keeps its type, whatever fails.
THEOREM LifecycleTypeCorrect == Spec => []TypeOK
<1>1. IInv => TypeOK
  BY DEF IInv
<1> QED  BY <1>1, InitIInv, NextIInv, PTL DEF Spec

\* For any number of concurrent requests and whatever fails, is forced,
\* canceled or created again: a request is accepted only in a modifiable
\* state, it replaces the very specification it was checked against, and an
\* upgrade adds its change to that one (Service.UpdateDatabase, ApplyUpgrade and
\* the versioned transaction of applySpecUpdate).
THEOREM AcceptedOnCurrentHolds == Spec => AcceptedOnCurrent
<1>1. ASSUME IInv, [Next]_vars, NEW o \in Op,
             pc[o] = "read", pc'[o] = "stored", kind[o] # "delete"
      PROVE  /\ DatabaseStateModifiable(state)
             /\ saw[o].base = spec
             /\ kind[o] = "upgrade" => spec' = saw[o].spec \cup {o}
  <2>1. o \in fresh /\ ApplySpecUpdate(o)
    <3> USE <1>1 DEF IInv, TypeOK
    <3>1. ~UNCHANGED pc
      OBVIOUS
    <3>2. PICK p \in Op : Request(p) \/ Handle(p) \/ Work(p) \/ CancelTask(p) \/ Crash(p)
      BY <3>1 DEF Next, vars, handler
    <3>3. ~Work(p) /\ ~CancelTask(p)
      BY <3>1 DEF Work, CancelTask, Start, Complete, UpdateTask, RefreshCurrentState, Plan,
                  Activity, PlanDeleteFails, ApplyFirst, ApplyLast, PersistState, Finish,
                  Failed, Exit, handler
    <3>4. ~Request(p) /\ ~Crash(p)
      BY DEF Crash, Request, CreateDatabase, FetchDatabase, ReadForDelete, ReadDatabase, Goto,
             HandlerSteps
    <3>5. CASE ApplySpecUpdate(p)
      BY <3>5 DEF ApplySpecUpdate, CopyIsCurrent, Goto
    <3>6. ~(\E k \in {"update", "restore"} : ReadDatabase(p, k)) /\ ~SetDeleting(p)
      BY DEF ReadDatabase, SetDeleting, Goto
    <3>7. ~CreateTask(p) /\ ~CreateWorkflow(p) /\ ~LinkTask(p) /\ ~Rollback(p)
      BY DEF CreateTask, CreateWorkflow, LinkTask, Rollback, Goto
    <3> QED  BY <3>2, <3>3, <3>4, <3>5, <3>6, <3>7 DEF Handle
  <2>2. kind[o] = "upgrade" => spec' = spec \cup {o}
    BY <2>1 DEF ApplySpecUpdate, CopyIsCurrent, NewSpec
  <2> QED  BY <2>1, <2>2, <1>1 DEF IInv, CopiesAreCurrent
<1>2. IInv /\ [Next]_vars =>
        [\A o \in Op :
            pc[o] = "read" /\ pc'[o] = "stored" /\ kind[o] # "delete" =>
                /\ DatabaseStateModifiable(state)
                /\ saw[o].base = spec
                /\ kind[o] = "upgrade" => spec' = saw[o].spec \cup {o}]_vars
  BY <1>1
<1> QED  BY <1>2, InitIInv, NextIInv, PTL DEF Spec, AcceptedOnCurrent

-----------------------------------------------------------------------------
(***************************************************************************)
(* One operation at a time.  The handlers and workflows of an operation    *)
(* hold the database from the change of its state until the workflow has   *)
(* set the state again.                                                    *)
(***************************************************************************)

BeforeWorkflow == {"idle", "fetched", "read", "stored", "tasked", "refused", "notModifiable"}

\* How far handler and workflow of one operation can be.
InStep ==
    /\ \A o \in Op :
        /\ pc[o] = "idle" => kind[o] = "none"
        /\ kind[o] \in {"none", "delete"} => input[o] = {}
        /\ pc[o] \in BeforeWorkflow => wf[o] = "none"
        /\ pc[o] \in {"started", "done"} => wf[o] # "none"
        /\ wf[o] = "none" \/ Busy(o) => settled[o] = 0
        /\ canceled[o] => pc[o] = "done"
    /\ \A f \in faults : pc[f[1]] # "idle"

StepInv == IInv /\ InStep

LEMMA InitStepInv == Init => StepInv
<1> SUFFICES ASSUME Init PROVE InStep
  BY InitIInv DEF StepInv
<1> QED  BY DEF Init, InStep, Busy

\* A failure is one of the operation that fails.
LEMMA FailsAt ==
    ASSUME StepInv, NEW o \in Op, pc'[o] # "idle",
           \A p \in Op : pc[p] # "idle" => pc'[p] # "idle",
           faults' = faults \/ \E step \in FailingSteps : Fails(o, step)
    PROVE  \A f \in faults' : pc'[f[1]] # "idle"
<1>1. \A f \in faults : f[1] \in Op /\ pc[f[1]] # "idle"
  BY DEF StepInv, InStep, IInv, TypeOK
<1> QED  BY <1>1 DEF Fails

\* The first steps of a request.
LEMMA RequestInStep ==
    ASSUME StepInv, NEW o \in Op, Request(o)
    PROVE  InStep'
<1> USE DEF StepInv, IInv, TypeOK
<1>1. pc[o] = "idle" /\ UNCHANGED <<wf, ok, canceled, settled, faults>>
  BY DEF Request, CreateDatabase, FetchDatabase, ReadForDelete, ReadDatabase, workflow
<1>2. \A p \in Op : p # o => pc'[p] = pc[p] /\ kind'[p] = kind[p] /\ input'[p] = input[p]
  BY DEF Request, CreateDatabase, FetchDatabase, ReadForDelete, ReadDatabase, workflow, Goto
<1>3. /\ pc'[o] \in {"stored", "fetched", "read", "notModifiable"}
      /\ kind'[o] = "create" \/ (kind'[o] # "none" /\ input'[o] = input[o])
  <2>1. ASSUME CreateDatabase(o) PROVE pc'[o] = "stored" /\ kind'[o] = "create"
    BY <2>1 DEF CreateDatabase, Goto
  <2>2. CASE ReadForDelete(o) \/ \E k \in {"update", "restore"} : FetchDatabase(o, k)
    BY <2>2 DEF FetchDatabase, ReadForDelete, workflow, Goto
  <2>3. ASSUME ReadDatabase(o, "upgrade")
        PROVE  pc'[o] \in {"read", "notModifiable"} /\ kind'[o] # "none" /\ input'[o] = input[o]
    BY <2>3 DEF ReadDatabase, workflow, Goto
  <2> QED  BY <2>1, <2>2, <2>3 DEF Request
<1>4. kind[o] = "none" /\ input[o] = {} /\ wf[o] = "none" /\ ~canceled[o] /\ settled[o] = 0
  BY <1>1 DEF InStep, BeforeWorkflow
<1>5. \A f \in faults : pc'[f[1]] # "idle"
  BY <1>1, <1>2, <1>3 DEF InStep
<1>6. kind'[o] \in {"none", "delete"} => input'[o] = {}
  BY <1>3, <1>4
<1>7. ASSUME NEW p \in Op
      PROVE  /\ pc'[p] = "idle" => kind'[p] = "none"
             /\ kind'[p] \in {"none", "delete"} => input'[p] = {}
             /\ pc'[p] \in BeforeWorkflow => wf'[p] = "none"
             /\ pc'[p] \in {"started", "done"} => wf'[p] # "none"
             /\ wf'[p] = "none" \/ Busy(p)' => settled'[p] = 0
             /\ canceled'[p] => pc'[p] = "done"
  <2>1. CASE p = o
    BY <1>1, <1>3, <1>4, <1>6, <2>1 DEF Busy
  <2>2. CASE p # o
    BY <1>1, <1>2, <2>2 DEF InStep, Busy
  <2> QED  BY <2>1, <2>2
<1> QED  BY <1>1, <1>5, <1>7 DEF InStep

\* The later steps of a handler.
LEMMA HandleInStep ==
    ASSUME StepInv, NEW o \in Op, Handle(o)
    PROVE  InStep'
<1> USE DEF StepInv, IInv, TypeOK
<1>1. /\ pc[o] \in {"fetched", "read", "stored", "tasked", "started", "rollback"}
      /\ UNCHANGED <<ok, canceled, settled>>
      /\ pc'[o] # "idle" /\ pc'[o] # "fetched"
      /\ \A p \in Op : p # o => pc'[p] = pc[p] /\ wf'[p] = wf[p] /\ input'[p] = input[p]
  <2>1. CASE \E k \in {"update", "restore"} : ReadDatabase(o, k)
    BY <2>1 DEF ReadDatabase, workflow, Goto
  <2>2. CASE ApplySpecUpdate(o) \/ SetDeleting(o)
    BY <2>2 DEF ApplySpecUpdate, SetDeleting, workflow, Goto
  <2>3. CASE CreateTask(o) \/ CreateWorkflow(o) \/ LinkTask(o) \/ Rollback(o)
    BY <2>3 DEF CreateTask, CreateWorkflow, LinkTask, Rollback, workflow, Goto, Step
  <2> QED  BY <2>1, <2>2, <2>3 DEF Handle
<1>2. \A p \in Op : kind'[p] = kind[p]
  BY DEF Handle, ReadDatabase, ApplySpecUpdate, SetDeleting, CreateTask, CreateWorkflow,
         LinkTask, Rollback, workflow
<1>3. input'[o] = input[o] \/ kind[o] \notin {"delete", "none"}
  BY DEF Handle, ReadDatabase, ApplySpecUpdate, SetDeleting, CreateTask, CreateWorkflow,
         LinkTask, Rollback, workflow, KindIsSet, AllKinds
<1>4. \/ wf'[o] = wf[o] /\ pc[o] \in {"fetched", "read", "stored"}
         /\ pc'[o] \in {"read", "notModifiable", "stored", "refused", "tasked", "rollback"}
      \/ pc[o] = "tasked" /\ wf'[o] = wf[o] /\ pc'[o] = "rollback"
      \/ pc[o] = "tasked" /\ wf'[o] = "start" /\ pc'[o] = "started"
      \/ wf'[o] = wf[o] /\ pc[o] = "started" /\ pc'[o] \in {"done", "rollback"}
      \/ wf'[o] = wf[o] /\ pc[o] = "rollback" /\ pc'[o] = "error"
  <2>1. CASE \E k \in {"update", "restore"} : ReadDatabase(o, k)
    BY <2>1 DEF ReadDatabase, workflow, Goto
  <2>2. CASE ApplySpecUpdate(o) \/ SetDeleting(o)
    BY <2>2 DEF ApplySpecUpdate, SetDeleting, workflow, Goto
  <2>3. CASE CreateTask(o) \/ CreateWorkflow(o)
    BY <2>3 DEF CreateTask, CreateWorkflow, workflow, Goto, Step
  <2>4. CASE LinkTask(o) \/ Rollback(o)
    BY <2>4 DEF LinkTask, Rollback, workflow, Goto
  <2> QED  BY <2>1, <2>2, <2>3, <2>4 DEF Handle
<1>5. faults' = faults \/ \E step \in FailingSteps : Fails(o, step)
  BY DEF Handle, ReadDatabase, ApplySpecUpdate, SetDeleting, CreateTask, CreateWorkflow,
         LinkTask, Rollback, FailingSteps
<1>6. \A f \in faults' : pc'[f[1]] # "idle"
  BY <1>1, <1>5, FailsAt
<1>7. ASSUME NEW p \in Op
      PROVE  /\ pc'[p] = "idle" => kind'[p] = "none"
             /\ kind'[p] \in {"none", "delete"} => input'[p] = {}
             /\ pc'[p] \in BeforeWorkflow => wf'[p] = "none"
             /\ pc'[p] \in {"started", "done"} => wf'[p] # "none"
             /\ wf'[p] = "none" \/ Busy(p)' => settled'[p] = 0
             /\ canceled'[p] => pc'[p] = "done"
  <2>1. CASE p = o
    <3>1. /\ pc[o] \in {"fetched", "read", "stored", "tasked"} => wf[o] = "none"
          /\ pc[o] = "started" => wf[o] # "none"
          /\ wf[o] = "none" \/ Busy(o) => settled[o] = 0
          /\ ~canceled[o]
      BY <1>1 DEF InStep, BeforeWorkflow
    <3>2. kind'[o] \in {"none", "delete"} => input'[o] = {}
      BY <1>2, <1>3 DEF InStep
    <3> QED  BY <1>1, <1>4, <2>1, <3>1, <3>2 DEF Busy, BeforeWorkflow
  <2>2. CASE p # o
    BY <1>1, <1>2, <2>2 DEF InStep, Busy
  <2> QED  BY <2>1, <2>2
<1> QED  BY <1>6, <1>7 DEF InStep

\* What a step of a workflow does to the workflow.
LEMMA WorkSteps ==
    ASSUME StepInv, NEW o \in Op, Work(o)
    PROVE  /\ UNCHANGED <<kind, pc, saw, task, input, canceled>>
           /\ wf[o] \notin {"none", "done"} /\ wf'[o] # "none"
           /\ \A p \in Op : p # o => wf'[p] = wf[p] /\ settled'[p] = settled[p]
           /\ Busy(o)' => Busy(o) /\ settled'[o] = settled[o]
           /\ settled'[o] = settled[o] \/ settled'[o] = settled[o] + 1
           /\ faults' = faults \/ \E step \in FailingSteps : Fails(o, step)
<1> USE DEF StepInv, IInv, TypeOK
<1>1. CASE Start(o) \/ Complete(o) \/ RefreshCurrentState(o) \/ Plan(o) \/ PlanDeleteFails(o)
  BY <1>1 DEF Start, Complete, UpdateTask, RefreshCurrentState, Plan, Activity, PlanDeleteFails,
     Step, handler, Busy, FailingSteps
<1>2. CASE ApplyFirst(o) \/ ApplyLast(o)
  BY <1>2 DEF ApplyFirst, ApplyLast, Step, handler, Busy, FailingSteps
<1>3. CASE PersistState(o)
  BY <1>3 DEF PersistState, AfterPlans, Step, handler, Busy, FailingSteps
<1>4. CASE Finish(o)
  BY <1>4 DEF Finish, Settle, Step, Busy, FailingSteps
<1>5. CASE Failed(o) \/ Exit(o)
  BY <1>5 DEF Failed, Exit, Settle, Step, Busy, FailingSteps
<1> QED  BY <1>1, <1>2, <1>3, <1>4, <1>5 DEF Work

LEMMA WorkInStep ==
    ASSUME StepInv, NEW o \in Op, Work(o)
    PROVE  InStep'
<1> USE DEF StepInv, IInv, TypeOK
<1>1. /\ UNCHANGED <<kind, pc, saw, task, input, canceled>>
      /\ wf[o] \notin {"none", "done"} /\ wf'[o] # "none"
      /\ \A p \in Op : p # o => wf'[p] = wf[p] /\ settled'[p] = settled[p]
      /\ Busy(o)' => Busy(o) /\ settled'[o] = settled[o]
      /\ faults' = faults \/ \E step \in FailingSteps : Fails(o, step)
  BY WorkSteps
<1>2. pc[o] \notin BeforeWorkflow
  BY <1>1 DEF InStep
<1>3. \A f \in faults' : pc'[f[1]] # "idle"
  BY <1>1, <1>2, FailsAt DEF BeforeWorkflow
<1>4. ASSUME NEW p \in Op
      PROVE  /\ pc'[p] = "idle" => kind'[p] = "none"
             /\ kind'[p] \in {"none", "delete"} => input'[p] = {}
             /\ pc'[p] \in BeforeWorkflow => wf'[p] = "none"
             /\ pc'[p] \in {"started", "done"} => wf'[p] # "none"
             /\ wf'[p] = "none" \/ Busy(p)' => settled'[p] = 0
             /\ canceled'[p] => pc'[p] = "done"
  <2>1. CASE p = o
    BY <1>1, <1>2, <2>1 DEF InStep
  <2>2. CASE p # o
    BY <1>1, <2>2 DEF InStep, Busy
  <2> QED  BY <2>1, <2>2
<1> QED  BY <1>3, <1>4 DEF InStep

\* What a handler leaves behind that stops.
LEMMA CrashSteps ==
    ASSUME StepInv, NEW o \in Op, Crash(o)
    PROVE  /\ UNCHANGED <<state, spec, actual, known, kind, saw, task, workflow>>
           /\ \A p \in Op : p # o => pc'[p] = pc[p]
           /\ \/ pc[o] \in {"fetched", "read"} /\ pc'[o] = "refused"
              \/ pc[o] \in {"stored", "tasked", "started"} /\ pc'[o] = "crashed"
           /\ Fails(o, "crash")
  BY DEF Crash, Goto, database, StepInv, IInv, TypeOK

LEMMA CrashInStep ==
    ASSUME StepInv, NEW o \in Op, Crash(o)
    PROVE  InStep'
<1>1. /\ UNCHANGED <<state, spec, actual, known, kind, saw, task, workflow>>
      /\ \A p \in Op : p # o => pc'[p] = pc[p]
      /\ \/ pc[o] \in {"fetched", "read"} /\ pc'[o] = "refused"
         \/ pc[o] \in {"stored", "tasked", "started"} /\ pc'[o] = "crashed"
      /\ Fails(o, "crash")
  BY CrashSteps
<1>2. \A f \in faults' : pc'[f[1]] # "idle"
  BY <1>1, FailsAt DEF FailingSteps
<1> QED  BY <1>1, <1>2 DEF StepInv, InStep, BeforeWorkflow, Busy, workflow

\* InStep is inductive.
LEMMA NextStepInv ==
    ASSUME StepInv, [Next]_vars
    PROVE  StepInv'
<1>0. IInv'
  BY NextIInv DEF StepInv
<1>1. CASE UNCHANGED vars
  BY <1>0, <1>1 DEF vars, database, handler, workflow, StepInv, InStep, Busy
<1>2. ASSUME NEW o \in Op, CancelTask(o) PROVE InStep'
  BY <1>2 DEF CancelTask, handler, database, StepInv, InStep, IInv, TypeOK, Busy
<1> QED  BY <1>0, <1>1, <1>2, RequestInStep, HandleInStep, WorkInStep, CrashInStep
            DEF Next, StepInv

-----------------------------------------------------------------------------

\* What cannot be taken back: the kind of an operation, the failures and the
\* number of times a workflow has set the state.
LEMMA Steady ==
    ASSUME StepInv, [Next]_vars
    PROVE  /\ faults \subseteq faults'
           /\ \A o \in Op :
                /\ pc[o] # "idle" => kind'[o] = kind[o]
                /\ wf[o] # "none" => wf'[o] # "none"
                /\ pc[o] \in {"rollback", "error"} => pc'[o] \in {"rollback", "error"}
                /\ pc[o] = "crashed" /\ wf[o] = "none" => pc'[o] = "crashed" /\ wf'[o] = "none"
                /\ settled[o] <= settled'[o]
                /\ canceled[o] => canceled'[o]
<1> USE DEF StepInv, IInv, TypeOK
<1>1. ASSUME NEW o \in Op, Request(o)
      PROVE  /\ UNCHANGED <<wf, settled, canceled, faults>> /\ pc[o] = "idle"
             /\ \A p \in Op : p # o => kind'[p] = kind[p] /\ pc'[p] = pc[p]
  BY <1>1 DEF Request, CreateDatabase, FetchDatabase, ReadForDelete, ReadDatabase, workflow, Goto
<1>2. ASSUME NEW o \in Op, Handle(o)
      PROVE  /\ UNCHANGED <<settled, canceled>> /\ \A p \in Op : kind'[p] = kind[p]
             /\ \A p \in Op : p # o => pc'[p] = pc[p]
             /\ pc[o] \notin {"error", "crashed"} /\ (pc[o] = "rollback" => pc'[o] = "error")
  BY <1>2 DEF Handle, ReadDatabase, ApplySpecUpdate, SetDeleting, CreateTask, CreateWorkflow,
         LinkTask, Rollback, workflow, Goto, Step
<1>3. ASSUME NEW o \in Op, Handle(o)
      PROVE  /\ faults \subseteq faults' /\ \A p \in Op : wf[p] # "none" => wf'[p] # "none"
             /\ \A p \in Op : p # o => wf'[p] = wf[p]
  BY <1>3 DEF Handle, ReadDatabase, ApplySpecUpdate, SetDeleting, CreateTask, CreateWorkflow,
         LinkTask, Rollback, workflow, Step, Fails
<1>4. ASSUME NEW o \in Op, Work(o)
      PROVE  /\ UNCHANGED <<kind, pc, canceled>> /\ faults \subseteq faults'
             /\ \A p \in Op : wf[p] = "none" <=> wf'[p] = "none"
             /\ \A p \in Op : settled[p] <= settled'[p]
  <2>1. /\ UNCHANGED <<kind, pc, canceled>>
        /\ wf[o] # "none" /\ wf'[o] # "none"
        /\ \A p \in Op : p # o => wf'[p] = wf[p] /\ settled'[p] = settled[p]
        /\ settled'[o] = settled[o] \/ settled'[o] = settled[o] + 1
        /\ faults' = faults \/ \E step \in FailingSteps : Fails(o, step)
    BY <1>4, WorkSteps
  <2>2. \A p \in Op : settled[p] <= settled'[p]
    BY <2>1
  <2> QED  BY <2>1, <2>2 DEF Fails
<1>5. ASSUME NEW o \in Op, CancelTask(o)
      PROVE  /\ UNCHANGED <<kind, pc, wf, settled, faults>>
             /\ \A p \in Op : canceled[p] => canceled'[p]
  <2>1. UNCHANGED <<kind, pc, wf, settled, faults>>
    BY <1>5 DEF CancelTask, handler
  <2>2. canceled' = [canceled EXCEPT ![o] = TRUE]
    BY <1>5 DEF CancelTask
  <2>3. canceled'[o] = TRUE /\ \A p \in Op : p # o => canceled'[p] = canceled[p]
    BY <2>2
  <2> QED  BY <2>1, <2>3, Zenon
<1>6. CASE UNCHANGED vars
  BY <1>6 DEF vars, handler, workflow
<1>7. ASSUME NEW o \in Op, Request(o) \/ Handle(o) \/ Work(o) \/ CancelTask(o) \/ Crash(o)
      PROVE  /\ faults \subseteq faults'
             /\ \A p \in Op :
                  /\ pc[p] # "idle" => kind'[p] = kind[p]
                  /\ wf[p] # "none" => wf'[p] # "none"
                  /\ pc[p] \in {"rollback", "error"} => pc'[p] \in {"rollback", "error"}
                  /\ pc[p] = "crashed" /\ wf[p] = "none" => pc'[p] = "crashed" /\ wf'[p] = "none"
                  /\ settled[p] <= settled'[p]
                  /\ canceled[p] => canceled'[p]
  <2>1. CASE Request(o)
    BY <1>1, <2>1
  <2>2. CASE Handle(o)
    BY <1>2, <1>3, <2>2
  <2>3. CASE Work(o)
    BY <1>4, <2>3
  <2>4. CASE CancelTask(o)
    BY <1>5, <2>4
  <2>5. CASE Crash(o)
    BY <2>5, CrashSteps DEF workflow, Fails
  <2> QED  BY <1>7, <2>1, <2>2, <2>3, <2>4, <2>5
<1> QED  BY <1>6, <1>7 DEF Next

\* The failures that the properties exempt stay.
LEMMA ExemptStays ==
    ASSUME StepInv, [Next]_vars
    PROVE  /\ Undone => Undone'
           /\ Overwritten => Overwritten'
           /\ Unrecorded => Unrecorded'
           /\ Stranded => Stranded'
<1>1. /\ faults \subseteq faults'
      /\ \A o \in Op :
           /\ pc[o] # "idle" => kind'[o] = kind[o]
           /\ wf[o] # "none" => wf'[o] # "none"
           /\ pc[o] \in {"rollback", "error"} => pc'[o] \in {"rollback", "error"}
           /\ pc[o] = "crashed" /\ wf[o] = "none" => pc'[o] = "crashed" /\ wf'[o] = "none"
           /\ settled[o] <= settled'[o]
           /\ canceled[o] => canceled'[o]
  BY Steady
<1>2. \A o \in Op : settled[o] \in Nat /\ settled'[o] \in Nat
  BY NextStepInv DEF StepInv, IInv, TypeOK
<1>3. \A o \in Op : canceled[o] => pc[o] # "idle"
  BY DEF StepInv, InStep
<1>4. \A f \in faults : f[1] \in Op /\ pc[f[1]] # "idle"
  BY DEF StepInv, InStep, IInv, TypeOK
<1>5. Undone => Undone'
  BY <1>1 DEF Undone
<1>6. Overwritten => Overwritten'
  BY <1>1, <1>2 DEF Overwritten
<1>7. Unrecorded => Unrecorded'
  BY <1>1 DEF Unrecorded
<1>8. Stranded => Stranded'
  BY <1>1, <1>3, <1>4 DEF Stranded
<1> QED  BY <1>5, <1>6, <1>7, <1>8

-----------------------------------------------------------------------------

\* No request carries the force flag, which lets a delete in at any time.
NotForced == ~ForceFlag

\* A handler that may put back the state it has read puts back a state in
\* which the database can be modified.
SawModifiable ==
    \A o \in Op :
        kind[o] \in {"upgrade", "delete"} /\ pc[o] \notin {"idle", "notModifiable"}
            => DatabaseStateModifiable(saw[o].state)

\* The operation has changed the state and has not set it again.
Holds(o) ==
    \/ pc[o] \in {"stored", "tasked"}
    \/ pc[o] = "rollback" /\ wf[o] = "none"
    \/ wf[o] # "none" /\ settled[o] = 0

\* The state keeps everybody else out as long as somebody holds the database.
OneHolder ==
    /\ \A o \in Op : Holds(o) => state \in InProgress
    /\ \A o, p \in Op : Holds(o) /\ Holds(p) => o = p

HoldInv == StepInv /\ SawModifiable /\ (Undone \/ Overwritten \/ OneHolder)

LEMMA InitHoldInv == Init => HoldInv
<1> SUFFICES ASSUME Init PROVE HoldInv
  OBVIOUS
<1>1. SawModifiable
  BY DEF Init, SawModifiable
<1>2. OneHolder
  BY DEF Init, OneHolder, Holds
<1> QED  BY <1>1, <1>2, InitStepInv DEF HoldInv

LEMMA NextSawModifiable ==
    ASSUME NotForced, StepInv, SawModifiable, [Next]_vars
    PROVE  SawModifiable'
<1> USE DEF StepInv, IInv, TypeOK
<1>1. ASSUME NEW o \in Op, Request(o) PROVE SawModifiable'
  <2>0. /\ pc[o] = "idle"
        /\ \A p \in Op : p # o => pc'[p] = pc[p] /\ kind'[p] = kind[p] /\ saw'[p] = saw[p]
    BY <1>1 DEF Request, CreateDatabase, FetchDatabase, ReadForDelete, ReadDatabase, Goto
  <2>1. kind'[o] \in {"upgrade", "delete"} /\ pc'[o] # "notModifiable"
            => DatabaseStateModifiable(saw'[o].state)
    <3>1. CASE CreateDatabase(o) \/ \E k \in {"update", "restore"} : FetchDatabase(o, k)
      BY <3>1 DEF CreateDatabase, FetchDatabase
    <3>2. CASE ReadForDelete(o)
      BY <3>2 DEF ReadForDelete, NotForced, Goto
    <3>3. ASSUME ReadDatabase(o, "upgrade")
          PROVE  pc'[o] # "notModifiable" => DatabaseStateModifiable(saw'[o].state)
      BY <3>3 DEF ReadDatabase, Goto
    <3> QED  BY <1>1, <3>1, <3>2, <3>3 DEF Request
  <2> QED  BY <2>0, <2>1 DEF SawModifiable
<1>2. ASSUME NEW o \in Op, Handle(o) PROVE SawModifiable'
  BY <1>2 DEF Handle, ReadDatabase, ApplySpecUpdate, SetDeleting, CreateTask, CreateWorkflow,
         LinkTask, Rollback, Goto, SawModifiable
<1>3. ASSUME NEW o \in Op, Work(o) PROVE SawModifiable'
  BY <1>3, WorkSteps DEF SawModifiable
<1>4. ASSUME NEW o \in Op, CancelTask(o) PROVE SawModifiable'
  BY <1>4 DEF CancelTask, handler, SawModifiable
<1>5. ASSUME NEW o \in Op, Crash(o) PROVE SawModifiable'
  BY <1>5, CrashSteps DEF SawModifiable
<1>6. CASE UNCHANGED vars
  BY <1>6 DEF vars, handler, SawModifiable
<1> QED  BY <1>1, <1>2, <1>3, <1>4, <1>5, <1>6 DEF Next

\* Nobody comes to hold the database, and the state stays.
LEMMA HoldersKept ==
    ASSUME OneHolder, state' = state, \A p \in Op : Holds(p)' => Holds(p)
    PROVE  OneHolder'
  BY DEF OneHolder

\* The holder lets go of the database.
LEMMA HolderLeaves ==
    ASSUME OneHolder, NEW o \in Op, Holds(o), ~Holds(o)',
           \A p \in Op : p # o /\ Holds(p)' => Holds(p)
    PROVE  OneHolder'
<1>1. \A p \in Op : ~Holds(p)'
  BY DEF OneHolder
<1> QED  BY <1>1 DEF OneHolder

\* Somebody takes a database that nobody holds.
LEMMA HolderEnters ==
    ASSUME OneHolder, NEW o \in Op, state \notin InProgress, state' \in InProgress,
           \A p \in Op : p # o /\ Holds(p)' => Holds(p)
    PROVE  OneHolder'
<1>1. \A p \in Op : ~Holds(p)
  BY DEF OneHolder
<1> QED  BY <1>1 DEF OneHolder

LEMMA RequestHolder ==
    ASSUME StepInv, OneHolder, NEW o \in Op, Request(o)
    PROVE  OneHolder'
<1> USE DEF StepInv, IInv, TypeOK
<1>1. /\ pc[o] = "idle" /\ UNCHANGED <<wf, settled>>
      /\ \A p \in Op : p # o => pc'[p] = pc[p]
  BY DEF Request, CreateDatabase, FetchDatabase, ReadForDelete, ReadDatabase, workflow, Goto
<1>2. \A p \in Op : p # o /\ Holds(p)' => Holds(p)
  BY <1>1 DEF Holds
<1>3. wf[o] = "none"
  BY <1>1 DEF InStep, BeforeWorkflow
<1>4. CASE CreateDatabase(o)
  <2>1. state = "absent" /\ state' = "creating"
    BY <1>4 DEF CreateDatabase, SetState
  <2> QED  BY <1>2, <2>1, HolderEnters DEF InProgress
<1>5. CASE state' = state /\ pc'[o] \in {"fetched", "read", "notModifiable"}
  <2>1. ~Holds(o)'
    BY <1>1, <1>3, <1>5 DEF Holds
  <2> QED  BY <1>2, <1>5, <2>1, HoldersKept
<1>6. CASE ReadForDelete(o) \/ \E k \in {"update", "restore"} : FetchDatabase(o, k)
  BY <1>5, <1>6 DEF FetchDatabase, ReadForDelete, Goto, database
<1>7. ASSUME ReadDatabase(o, "upgrade")
      PROVE  OneHolder'
  BY <1>5, <1>7 DEF ReadDatabase, Goto, database
<1> QED  BY <1>4, <1>6, <1>7 DEF Request

LEMMA HandleHolder ==
    ASSUME StepInv, SawModifiable, OneHolder, ~Undone, NEW o \in Op, Handle(o)
    PROVE  OneHolder'
<1> USE DEF StepInv, IInv, TypeOK
<1>1. /\ UNCHANGED settled
      /\ \A p \in Op : p # o => pc'[p] = pc[p] /\ wf'[p] = wf[p]
  BY DEF Handle, ReadDatabase, ApplySpecUpdate, SetDeleting, CreateTask, CreateWorkflow,
         LinkTask, Rollback, workflow, Goto, Step
<1>2. \A p \in Op : p # o /\ Holds(p)' => Holds(p)
  BY <1>1 DEF Holds
<1>3. ASSUME state' = state, Holds(o)' => Holds(o)
      PROVE  OneHolder'
  BY <1>2, <1>3, HoldersKept
<1>4. CASE \E k \in {"update", "restore"} : ReadDatabase(o, k)
  BY <1>3, <1>4 DEF ReadDatabase, workflow, database, Goto, Holds, InStep, BeforeWorkflow
<1>5. CASE ApplySpecUpdate(o)
  <2>1. CASE CopyIsCurrent(o)
    <3>1. state \notin InProgress
      BY <2>1 DEF CopyIsCurrent, CopiesAreCurrent, DatabaseStateModifiable, InProgress
    <3>2. state' \in InProgress
      BY <1>5, <2>1 DEF ApplySpecUpdate, SetState, StateFor, InProgress
    <3> QED  BY <1>2, <3>1, <3>2, HolderEnters
  <2>2. CASE ~CopyIsCurrent(o)
    BY <1>3, <1>5, <2>2 DEF ApplySpecUpdate, database, Goto, Holds, InStep, BeforeWorkflow
  <2> QED  BY <2>1, <2>2
<1>6. CASE SetDeleting(o)
  <2>1. CASE StateIs(o)
    <3>1. state \notin InProgress
      BY <1>6, <2>1 DEF SetDeleting, StateIs, SawModifiable, DatabaseStateModifiable, InProgress
    <3>2. state' \in InProgress
      BY <1>6, <2>1 DEF SetDeleting, SetState, InProgress
    <3> QED  BY <1>2, <3>1, <3>2, HolderEnters
  <2>2. CASE ~StateIs(o)
    BY <1>3, <1>6, <2>2 DEF SetDeleting, workflow, Goto, Holds, InStep, BeforeWorkflow
  <2> QED  BY <2>1, <2>2
<1>7. CASE CreateTask(o) \/ CreateWorkflow(o) \/ LinkTask(o)
  <2>1. state' = state
    BY <1>7 DEF CreateTask, CreateWorkflow, LinkTask, database
  <2>2. Holds(o)' => Holds(o)
    BY <1>7 DEF CreateTask, CreateWorkflow, LinkTask, workflow, Goto, Step, Holds, InStep
  <2> QED  BY <1>3, <2>1, <2>2
<1>8. CASE Rollback(o)
  <2>1. pc[o] = "rollback" /\ pc'[o] = "error" /\ wf'[o] = wf[o]
    BY <1>8 DEF Rollback, Goto, workflow
  <2>2. CASE wf[o] = "none"
    BY <1>2, <2>1, <2>2, HolderLeaves DEF Holds
  <2>3. CASE wf[o] # "none"
    <3>1. kind[o] \notin {"upgrade", "delete"} /\ kind[o] \in AllKinds
      BY <2>1, <2>3 DEF Undone, KindIsSet
    <3>2. state' = state
      BY <1>8, <3>1 DEF Rollback, database, AllKinds
    <3> QED  BY <1>1, <1>3, <2>1, <3>2 DEF Holds
  <2> QED  BY <2>2, <2>3
<1> QED  BY <1>4, <1>5, <1>6, <1>7, <1>8 DEF Handle

\* A step of a workflow sets the state, and counts it, or leaves it.
LEMMA WorkSettles ==
    ASSUME StepInv, NEW o \in Op, Work(o)
    PROVE  \/ UNCHANGED <<state, settled>>
           \/ settled'[o] = settled[o] + 1 /\ state' \in {"available", "failed", "absent"}
<1> USE DEF StepInv, IInv, TypeOK
<1>1. CASE Start(o) \/ Complete(o) \/ RefreshCurrentState(o) \/ Plan(o) \/ PlanDeleteFails(o)
  BY <1>1 DEF Start, Complete, UpdateTask, RefreshCurrentState, Plan, Activity, PlanDeleteFails,
     database
<1>2. CASE ApplyFirst(o) \/ ApplyLast(o) \/ PersistState(o)
  BY <1>2 DEF ApplyFirst, ApplyLast, PersistState, database
<1>3. CASE Finish(o)
  BY <1>3 DEF Finish, Settle, SetState, database
<1>4. CASE Failed(o) \/ Exit(o)
  BY <1>4 DEF Failed, Exit, Settle, SetState
<1> QED  BY <1>1, <1>2, <1>3, <1>4 DEF Work

LEMMA WorkHolder ==
    ASSUME StepInv, OneHolder, NEW o \in Op, Work(o), ~Overwritten'
    PROVE  OneHolder'
<1> USE DEF StepInv, IInv, TypeOK
<1>1. /\ UNCHANGED pc
      /\ wf[o] \notin {"none", "done"} /\ wf'[o] # "none"
      /\ \A p \in Op : p # o => wf'[p] = wf[p] /\ settled'[p] = settled[p]
  BY WorkSteps
<1>2. \A p \in Op : p # o /\ Holds(p)' => Holds(p)
  BY <1>1 DEF Holds
<1>3. CASE UNCHANGED <<state, settled>>
  <2>1. Holds(o)' => Holds(o)
    BY <1>1, <1>3 DEF Holds
  <2> QED  BY <1>2, <1>3, <2>1, HoldersKept
<1>4. CASE settled'[o] = settled[o] + 1
  <2>1. settled[o] = 0 /\ settled'[o] = 1
    <3>1. ~(settled'[o] > 1)
      BY Zenon DEF Overwritten
    <3> QED  BY <1>4, <3>1
  <2>2. Holds(o) /\ ~Holds(o)'
    <3>1. pc[o] \notin BeforeWorkflow
      BY <1>1 DEF InStep
    <3> QED  BY <1>1, <2>1, <3>1 DEF Holds, BeforeWorkflow
  <2> QED  BY <1>2, <2>2, HolderLeaves
<1> QED  BY <1>3, <1>4, WorkSettles

\* The holder is the only one, unless a failure was not recovered from.
LEMMA NextHoldInv ==
    ASSUME NotForced, HoldInv, [Next]_vars
    PROVE  HoldInv'
<1>1. StepInv' /\ SawModifiable'
  BY NextStepInv, NextSawModifiable DEF HoldInv
<1>2. ASSUME ~Undone', ~Overwritten' PROVE OneHolder'
  <2>1. StepInv /\ SawModifiable /\ OneHolder /\ ~Undone
    BY <1>2, ExemptStays DEF HoldInv
  <2>2. ASSUME NEW o \in Op, CancelTask(o) PROVE OneHolder'
    BY <2>1, <2>2, HoldersKept DEF CancelTask, handler, database, Holds
  <2>4. ASSUME NEW o \in Op, Crash(o) PROVE OneHolder'
    BY <2>1, <2>4, CrashSteps, HoldersKept DEF workflow, Holds
  <2>3. CASE UNCHANGED vars
    BY <2>1, <2>3, HoldersKept DEF vars, handler, database, workflow, Holds
  <2> QED  BY <1>2, <2>1, <2>2, <2>3, <2>4, RequestHolder, HandleHolder, WorkHolder DEF Next
<1> QED  BY <1>1, <1>2 DEF HoldInv

LEMMA AlwaysHoldInv == NotForced /\ Spec => []HoldInv
<1> SUFFICES ASSUME NotForced PROVE Spec => []HoldInv
  OBVIOUS
<1>1. HoldInv /\ [Next]_vars => HoldInv'
  BY NextHoldInv
<1> QED  BY <1>1, InitHoldInv, PTL DEF Spec

\* For any number of operations and whatever fails or is canceled: no two
\* workflows work on the database at the same time, unless a handler has taken
\* its change back while its workflow runs or a workflow has set the state a
\* second time.  The state of the record is the only lock there is
\* (DatabaseStateModifiable, applySpecUpdate, UpdateDatabaseState).
THEOREM OneOperationHolds == NotForced /\ Spec => []OneOperation
<1>1. ASSUME HoldInv PROVE OneOperation
  <2>1. \A o \in Op : Busy(o) => Holds(o)
    BY <1>1 DEF HoldInv, StepInv, InStep, Busy, Holds
  <2> QED  BY <1>1, <2>1 DEF HoldInv, OneHolder, OneOperation, OneOperationAlways
<1> QED  BY <1>1, AlwaysHoldInv, PTL

-----------------------------------------------------------------------------
(***************************************************************************)
(* Nobody is left waiting for nobody: whoever has set a state in progress  *)
(* is going to set it again.                                               *)
(***************************************************************************)

\* The operation is going to set the state.
Pending(o) ==
    \/ pc[o] \in {"stored", "tasked"}
    \/ pc[o] = "rollback" /\ wf[o] = "none" /\ kind[o] \in {"upgrade", "delete"}
    \/ Busy(o) \/ wf[o] = "failed"
    \/ wf[o] = "exit" /\ canceled[o]

\* The kinds of operation that set a state.
SetterOf(s) ==
    CASE s = "creating" -> {"create"}
      [] s = "modifying" -> {"update", "upgrade"}
      [] s = "restoring" -> {"restore"}
      [] s = "deleting" -> {"delete"}

SetterIsPending ==
    state \in InProgress => \E o \in Op : kind[o] \in SetterOf(state) /\ Pending(o)

PendInv == StepInv /\ SawModifiable /\ (Stranded \/ SetterIsPending)

LEMMA InitPendInv == Init => PendInv
<1> SUFFICES ASSUME Init PROVE PendInv
  OBVIOUS
<1>1. SawModifiable
  BY DEF Init, SawModifiable
<1>2. SetterIsPending
  BY DEF Init, SetterIsPending, InProgress
<1> QED  BY <1>1, <1>2, InitStepInv DEF PendInv

\* A failure is recorded with its operation and its step.
LEMMA FailsIn ==
    ASSUME NEW o \in Op, NEW step, Fails(o, step)
    PROVE  \E f \in faults' : f[1] = o /\ f[2] = step
<1>1. <<o, step>> \in faults' /\ <<o, step>>[1] = o /\ <<o, step>>[2] = step
  BY DEF Fails
<1> QED  BY <1>1

\* Everybody who was going to set the state still is, and the state stays.
LEMMA PendingKept ==
    ASSUME SetterIsPending, state' = state,
           \A p \in Op : Pending(p) => Pending(p)' /\ kind'[p] = kind[p]
    PROVE  SetterIsPending'
  BY DEF SetterIsPending, SetterOf

LEMMA RequestPending ==
    ASSUME StepInv, SetterIsPending, NEW o \in Op, Request(o)
    PROVE  SetterIsPending'
<1> USE DEF StepInv, IInv, TypeOK
<1>1. /\ pc[o] = "idle" /\ UNCHANGED <<wf, canceled>>
      /\ \A p \in Op : p # o => pc'[p] = pc[p] /\ kind'[p] = kind[p]
  BY DEF Request, CreateDatabase, FetchDatabase, ReadForDelete, ReadDatabase, workflow, Goto
<1>2. wf[o] = "none"
  BY <1>1 DEF InStep, BeforeWorkflow
<1>3. \A p \in Op : Pending(p) => Pending(p)' /\ kind'[p] = kind[p]
  BY <1>1, <1>2 DEF Pending, Busy
<1>4. CASE state' = state
  BY <1>3, <1>4, PendingKept
<1>5. CASE CreateDatabase(o)
  <2>1. state' = "creating" /\ kind'[o] = "create" /\ pc'[o] = "stored"
    BY <1>5 DEF CreateDatabase, SetState, Goto
  <2> QED  BY <2>1 DEF SetterIsPending, SetterOf, Pending
<1> QED  BY <1>4, <1>5 DEF Request, FetchDatabase, ReadForDelete, ReadDatabase, database

LEMMA HandlePending ==
    ASSUME StepInv, SawModifiable, SetterIsPending, ~Stranded', NEW o \in Op, Handle(o)
    PROVE  SetterIsPending'
<1> USE DEF StepInv, IInv, TypeOK
<1>1. /\ UNCHANGED canceled /\ \A p \in Op : kind'[p] = kind[p]
      /\ \A p \in Op : p # o => pc'[p] = pc[p] /\ wf'[p] = wf[p]
  BY DEF Handle, ReadDatabase, ApplySpecUpdate, SetDeleting, CreateTask, CreateWorkflow,
         LinkTask, Rollback, workflow, Goto, Step
<1>2. \A p \in Op : p # o /\ Pending(p) => Pending(p)'
  BY <1>1 DEF Pending, Busy
<1>3. ASSUME state' = state, Pending(o) => Pending(o)'
      PROVE  SetterIsPending'
  BY <1>1, <1>2, <1>3, PendingKept
<1>4. CASE \E k \in {"update", "restore"} : ReadDatabase(o, k)
  BY <1>3, <1>4 DEF ReadDatabase, workflow, database, Goto, Pending, Busy, InStep, BeforeWorkflow
<1>5. CASE ApplySpecUpdate(o)
  <2>1. CASE CopyIsCurrent(o)
    <3>1. kind[o] \in {"update", "upgrade", "restore"}
      BY <1>5 DEF ApplySpecUpdate, KindIsSet, AllKinds
    <3>2. state' = StateFor(o) /\ pc'[o] = "stored"
      BY <1>5, <2>1 DEF ApplySpecUpdate, SetState, Goto
    <3> QED  BY <1>1, <3>1, <3>2 DEF SetterIsPending, SetterOf, StateFor, Pending
  <2>2. CASE ~CopyIsCurrent(o)
    BY <1>3, <1>5, <2>2 DEF ApplySpecUpdate, database, Goto, Pending, Busy, InStep, BeforeWorkflow
  <2> QED  BY <2>1, <2>2
<1>6. CASE SetDeleting(o)
  <2>1. CASE StateIs(o)
    <3>1. state' = "deleting" /\ pc'[o] = "stored" /\ kind'[o] = "delete"
      BY <1>1, <1>6, <2>1 DEF SetDeleting, SetState, Goto
    <3> QED  BY <3>1 DEF SetterIsPending, SetterOf, Pending
  <2>2. CASE ~StateIs(o)
    BY <1>3, <1>6, <2>2 DEF SetDeleting, workflow, Goto, Pending, Busy, InStep, BeforeWorkflow
  <2> QED  BY <2>1, <2>2
<1>7. CASE CreateTask(o) \/ CreateWorkflow(o) \/ LinkTask(o)
  <2>1. state' = state
    BY <1>7 DEF CreateTask, CreateWorkflow, LinkTask, database
  <2>2. CASE pc[o] \in {"stored", "tasked"} /\ wf'[o] = wf[o] /\ pc'[o] = "rollback"
    <3>1. Fails(o, "task") \/ Fails(o, "workflow")
      BY <1>7, <2>2 DEF CreateTask, CreateWorkflow, LinkTask, Goto
    <3>2. PICK f \in faults' : f[1] = o /\ f[2] \in {"task", "workflow"}
      BY <3>1, FailsIn
    <3>3. kind'[o] \in {"upgrade", "delete"}
      BY <3>2 DEF Stranded
    <3>4. wf[o] = "none"
      BY <2>2 DEF InStep, BeforeWorkflow
    <3> QED  BY <1>3, <2>1, <2>2, <3>3, <3>4 DEF Pending
  <2>3. CASE pc[o] \in {"stored", "tasked"} /\ ~(wf'[o] = wf[o] /\ pc'[o] = "rollback")
    <3>1. pc'[o] = "tasked" \/ wf'[o] = "start"
      BY <1>7, <2>3 DEF CreateTask, CreateWorkflow, LinkTask, Goto, Step, workflow
    <3> QED  BY <1>3, <2>1, <3>1 DEF Pending, Busy
  <2>4. CASE pc[o] = "started"
    <3>1. wf[o] # "none" /\ UNCHANGED wf
      BY <1>7, <2>4 DEF InStep, CreateTask, CreateWorkflow, LinkTask, workflow
    <3> QED  BY <1>1, <1>3, <2>1, <2>4, <3>1 DEF Pending, Busy
  <2> QED  BY <1>7, <2>2, <2>3, <2>4 DEF CreateTask, CreateWorkflow, LinkTask
<1>8. CASE Rollback(o)
  <2>1. pc[o] = "rollback" /\ pc'[o] = "error" /\ UNCHANGED <<wf, kind>> /\ kind[o] \in AllKinds
    BY <1>8 DEF Rollback, Goto, workflow, KindIsSet
  <2>2. \A f \in faults' : f[2] # "rollback"
    BY DEF Stranded
  <2>3. ~Fails(o, "rollback")
    BY <2>2, FailsIn
  <2>5. CASE kind[o] \in {"upgrade", "delete"}
    <3>1. DatabaseStateModifiable(saw[o].state)
      BY <2>1, <2>5 DEF SawModifiable
    <3>2. CASE state' = saw[o].state
      BY <3>1, <3>2 DEF SetterIsPending, DatabaseStateModifiable, InProgress
    <3>3. CASE state' = state /\ kind[o] = "delete" /\ state # "deleting"
      <4>1. \A p \in Op : kind[p] \in SetterOf(state) /\ state \in InProgress => p # o
        BY <3>3 DEF SetterOf, InProgress
      <4> QED  BY <1>1, <1>2, <3>3, <4>1 DEF SetterIsPending
    <3>4. CASE state' = state /\ state = "absent"
      BY <3>4 DEF SetterIsPending, InProgress
    <3> QED  BY <1>8, <2>3, <2>5, <3>2, <3>3, <3>4 DEF Rollback, SetState, database
  <2>6. CASE kind[o] \notin {"upgrade", "delete"}
    <3>1. state' = state
      BY <1>8, <2>1, <2>3, <2>6 DEF Rollback, database, AllKinds
    <3> QED  BY <1>1, <1>3, <2>1, <2>6, <3>1 DEF Pending, Busy
  <2> QED  BY <2>5, <2>6
<1> QED  BY <1>4, <1>5, <1>6, <1>7, <1>8 DEF Handle

LEMMA WorkPending ==
    ASSUME StepInv, SetterIsPending, ~Stranded', NEW o \in Op, Work(o)
    PROVE  SetterIsPending'
<1> USE DEF StepInv, IInv, TypeOK
<1>1. /\ UNCHANGED <<kind, pc, canceled>>
      /\ wf[o] \notin {"none", "done"} /\ wf'[o] # "none"
      /\ \A p \in Op : p # o => wf'[p] = wf[p]
  BY WorkSteps
<1>2. \A p \in Op : p # o /\ Pending(p) => Pending(p)'
  BY <1>1 DEF Pending, Busy
<1>3. ASSUME state' = state, Pending(o) => Pending(o)'
      PROVE  SetterIsPending'
  BY <1>1, <1>2, <1>3, PendingKept
<1>4. ASSUME state' \notin InProgress PROVE SetterIsPending'
  BY <1>4 DEF SetterIsPending
<1>5. \A step \in {"planDelete", "failed"} : ~Fails(o, step)
  BY FailsIn DEF Stranded
<1>6. canceled[o] => kind[o] # "restore"
  BY <1>1 DEF Stranded
<1>7. CASE Start(o) \/ RefreshCurrentState(o) \/ Plan(o)
  BY <1>3, <1>7 DEF Start, UpdateTask, RefreshCurrentState, Plan, Activity, Step, database, Pending,
     Busy
<1>8. CASE PlanDeleteFails(o)
  BY <1>5, <1>8 DEF PlanDeleteFails
<1>9. CASE ApplyFirst(o) \/ ApplyLast(o) \/ PersistState(o)
  BY <1>3, <1>9 DEF ApplyFirst, ApplyLast, PersistState, AfterPlans, Step, database, Pending, Busy
<1>10. CASE Finish(o)
  <2>1. CASE UNCHANGED state /\ wf'[o] = "failed"
    BY <1>3, <2>1 DEF Pending
  <2>2. CASE state' \in {"available", "absent"}
    BY <1>4, <2>2 DEF InProgress
  <2> QED  BY <1>10, <2>1, <2>2 DEF Finish, Settle, SetState, Step, database
<1>11. CASE Complete(o)
  <2>1. state' = state /\ wf[o] = "complete" /\ pc[o] \notin {"stored", "tasked"}
    BY <1>11 DEF Complete, UpdateTask, database, InStep, BeforeWorkflow
  <2> QED  BY <1>1, <1>3, <2>1 DEF Pending, Busy
<1>12. CASE Failed(o)
  <2>1. wf[o] = "failed" /\ wf'[o] = "exit"
    BY <1>12 DEF Failed, Step
  <2>2. CASE canceled[o] /\ state' = state
    BY <1>1, <1>3, <2>1, <2>2 DEF Pending
  <2>3. CASE state' \in {"failed", "absent"}
    BY <1>4, <2>3 DEF InProgress
  <2> QED  BY <1>5, <1>12, <2>2, <2>3 DEF Failed, Settle, SetState
<1>13. CASE Exit(o)
  <2>1. wf[o] = "exit" /\ wf'[o] = "done" /\ pc[o] \notin {"stored", "tasked"}
    BY <1>13 DEF Exit, Step, InStep, BeforeWorkflow
  <2>2. CASE ~canceled[o] /\ state' = state
    BY <1>3, <2>1, <2>2 DEF Pending, Busy
  <2>3. CASE state' \in {"failed", "absent"}
    BY <1>4, <2>3 DEF InProgress
  <2> QED  BY <1>5, <1>6, <1>13, <2>2, <2>3 DEF Exit, CleansUp, Settle, SetState
<1> QED  BY <1>7, <1>8, <1>9, <1>10, <1>11, <1>12, <1>13 DEF Work

LEMMA NextPendInv ==
    ASSUME NotForced, PendInv, [Next]_vars
    PROVE  PendInv'
<1>1. StepInv' /\ SawModifiable'
  BY NextStepInv, NextSawModifiable DEF PendInv
<1>2. ASSUME ~Stranded' PROVE SetterIsPending'
  <2>1. StepInv /\ SawModifiable /\ SetterIsPending
    BY <1>2, ExemptStays DEF PendInv
  <2>2. ASSUME NEW o \in Op, CancelTask(o) PROVE SetterIsPending'
    <3>1. /\ UNCHANGED <<state, pc, kind, wf>>
          /\ \A p \in Op : canceled[p] => canceled'[p]
      BY <2>1, <2>2, Steady DEF CancelTask, handler, database
    <3> QED  BY <2>1, <3>1, PendingKept DEF Pending, Busy
  <2>3. CASE UNCHANGED vars
    BY <2>1, <2>3, PendingKept DEF vars, handler, database, workflow, Pending, Busy
  <2>4. ASSUME NEW o \in Op, Crash(o) PROVE SetterIsPending'
    <3>1. /\ UNCHANGED <<state, kind, wf, canceled>>
          /\ \A p \in Op : p # o => pc'[p] = pc[p]
          /\ pc[o] \in {"stored", "tasked", "started"} => pc'[o] = "crashed"
          /\ pc[o] # "rollback"
      BY <2>1, <2>4, CrashSteps DEF workflow
    <3>2. Pending(o) => Pending(o)'
      <4>1. pc[o] \in {"stored", "tasked"} => wf[o] = "none"
        BY <2>1 DEF StepInv, InStep, BeforeWorkflow
      <4>2. ~(pc'[o] = "crashed" /\ wf'[o] = "none")
        BY <1>2 DEF Stranded
      <4>3. pc[o] \notin {"stored", "tasked"}
        BY <3>1, <4>1, <4>2
      <4> QED  BY <3>1, <4>3 DEF Pending, Busy
    <3>3. \A p \in Op : p # o /\ Pending(p) => Pending(p)'
      BY <3>1 DEF Pending, Busy
    <3> QED  BY <2>1, <3>1, <3>2, <3>3, PendingKept
  <2> QED  BY <1>2, <2>1, <2>2, <2>3, <2>4, RequestPending, HandlePending, WorkPending DEF Next
<1> QED  BY <1>1, <1>2 DEF PendInv

\* For any number of operations: a database is shown as in progress only while
\* an operation of the kind that set this state is going to set it again,
\* unless one of the failures happened that the code does not recover from.
\* It holds although states may be overwritten.
THEOREM NoOrphanHolds == NotForced /\ Spec => []NoOrphan
<1>1. ASSUME PendInv PROVE NoOrphan
  <2>1. \A o \in Op : Pending(o) => Handling(o) \/ wf[o] \notin {"none", "done"}
    BY DEF Pending, Handling, Busy
  <2> QED  BY <1>1, <2>1 DEF PendInv, SetterIsPending, NoOrphan, NoOrphanAlways
<1>2. NotForced /\ Spec => []PendInv
  <2> SUFFICES ASSUME NotForced PROVE Spec => []PendInv
    OBVIOUS
  <2>1. PendInv /\ [Next]_vars => PendInv'
    BY NextPendInv
  <2> QED  BY <2>1, InitPendInv, PTL DEF Spec
<1> QED  BY <1>1, <1>2, PTL

-----------------------------------------------------------------------------
(***************************************************************************)
(* What the holder does to the resources.                                  *)
(***************************************************************************)

Applied(s) == actual = [spec |-> s, whole |-> TRUE] /\ known = actual

\* The holder applies the stored specification, has applied it when it is to
\* set the state, and can put back what was applied before it began.
AppliesAt(o) ==
    /\ Holds(o) => input[o] = IF kind[o] = "delete" THEN {} ELSE spec
    /\ wf[o] = "persist" /\ ok[o] => actual = [spec |-> input[o], whole |-> TRUE]
    /\ wf[o] = "finish" => /\ actual = [spec |-> input[o], whole |-> TRUE]
                           /\ known = actual \/ canceled[o]
    /\ Holds(o) /\ wf[o] = "none" /\ saw[o].state = "available" =>
        /\ kind[o] = "upgrade" => Applied(saw[o].spec)
        /\ kind[o] = "delete" => Applied(spec)

HolderApplies ==
    /\ state = "available" => Applied(spec)
    /\ \A o \in Op : AppliesAt(o)

SpecInv == HoldInv /\ (Undone \/ Overwritten \/ Unrecorded \/ HolderApplies)

LEMMA InitSpecInv == Init => SpecInv
<1> SUFFICES ASSUME Init PROVE SpecInv
  OBVIOUS
<1>1. HolderApplies
  BY DEF Init, HolderApplies, AppliesAt, Applied, Holds
<1> QED  BY <1>1, InitHoldInv DEF SpecInv

\* A workflow at work belongs to the holder, and there is no other.
LEMMA BusyHolds ==
    ASSUME StepInv, OneHolder, NEW o \in Op, wf[o] \notin {"none", "done", "complete", "failed", "exit"}
    PROVE  Holds(o) /\ state \in InProgress /\ \A p \in Op : p # o => ~Holds(p)
<1>1. Holds(o)
  BY DEF StepInv, InStep, Busy, Holds
<1> QED  BY <1>1 DEF OneHolder

\* A step that leaves database and resources alone.
LEMMA AppliesKept ==
    ASSUME HolderApplies, UNCHANGED <<state, spec, actual, known>>,
           \A p \in Op :
             /\ Holds(p)' =>
                  /\ Holds(p) /\ input'[p] = input[p] /\ saw'[p] = saw[p] /\ kind'[p] = kind[p]
                  /\ wf'[p] = "none" => wf[p] = "none"
             /\ wf'[p] \in {"persist", "finish"} =>
                  wf'[p] = wf[p] /\ input'[p] = input[p] /\ ok'[p] = ok[p]
             /\ canceled[p] => canceled'[p]
    PROVE  HolderApplies'
<1>1. state' = "available" => Applied(spec)'
  BY DEF HolderApplies, Applied
<1>2. ASSUME NEW p \in Op PROVE AppliesAt(p)'
  <2>1. AppliesAt(p)
    BY DEF HolderApplies
  <2>2. Holds(p)' => input'[p] = IF kind'[p] = "delete" THEN {} ELSE spec'
    BY <2>1 DEF AppliesAt
  <2>3. wf'[p] = "persist" /\ ok'[p] => actual' = [spec |-> input'[p], whole |-> TRUE]
    BY <2>1 DEF AppliesAt
  <2>4. wf'[p] = "finish" => /\ actual' = [spec |-> input'[p], whole |-> TRUE]
                             /\ known' = actual' \/ canceled'[p]
    BY <2>1 DEF AppliesAt
  <2>5. Holds(p)' /\ wf'[p] = "none" /\ saw'[p].state = "available" =>
          /\ kind'[p] = "upgrade" => Applied(saw[p].spec)'
          /\ kind'[p] = "delete" => Applied(spec)'
    BY <2>1 DEF AppliesAt, Applied
  <2> QED  BY <2>2, <2>3, <2>4, <2>5 DEF AppliesAt
<1> QED  BY <1>1, <1>2 DEF HolderApplies

\* A step of the only one who may hold the database.
LEMMA AppliesAlone ==
    ASSUME NEW o \in Op, AppliesAt(o)', state' = "available" => Applied(spec)', StepInv',
           \A p \in Op : p # o => ~Holds(p)'
    PROVE  HolderApplies'
<1>1. ASSUME NEW p \in Op, p # o PROVE AppliesAt(p)'
  <2>1. ~Holds(p)'
    BY <1>1
  <2>2. wf'[p] \notin {"persist", "finish"}
    BY <2>1 DEF StepInv, InStep, Busy, Holds
  <2> QED  BY <2>1, <2>2 DEF AppliesAt
<1> QED  BY <1>1 DEF HolderApplies

LEMMA RequestApplies ==
    ASSUME StepInv, StepInv', OneHolder, HolderApplies, NEW o \in Op, Request(o)
    PROVE  HolderApplies'
<1> USE DEF StepInv, IInv, TypeOK
<1>1. /\ pc[o] = "idle" /\ UNCHANGED <<wf, settled, ok, canceled, actual, known>>
      /\ \A p \in Op : p # o => /\ pc'[p] = pc[p] /\ kind'[p] = kind[p]
                                /\ saw'[p] = saw[p] /\ input'[p] = input[p]
  BY DEF Request, CreateDatabase, FetchDatabase, ReadForDelete, ReadDatabase, workflow, Goto
<1>2. wf[o] = "none"
  BY <1>1 DEF InStep, BeforeWorkflow
<1>3. \A p \in Op : p # o /\ Holds(p)' => Holds(p)
  BY <1>1 DEF Holds
<1>4. CASE CreateDatabase(o)
  <2>1. /\ state = "absent" /\ state' = "creating" /\ spec' = {o}
        /\ input'[o] = {o} /\ kind'[o] = "create"
    BY <1>4 DEF CreateDatabase, SetState
  <2>2. \A p \in Op : p # o => ~Holds(p)'
    BY <1>3, <2>1 DEF OneHolder, InProgress
  <2>3. AppliesAt(o)'
    BY <1>1, <1>2, <2>1 DEF AppliesAt
  <2> QED  BY <2>1, <2>2, <2>3, AppliesAlone
<1>5. CASE UNCHANGED <<database, input>> /\ pc'[o] \in {"fetched", "read", "notModifiable"}
  <2>1. ~Holds(o)'
    BY <1>1, <1>2, <1>5 DEF Holds
  <2> QED  BY <1>1, <1>2, <1>3, <1>5, <2>1, AppliesKept DEF database
<1>6. CASE ReadForDelete(o) \/ \E k \in {"update", "restore"} : FetchDatabase(o, k)
  BY <1>5, <1>6 DEF FetchDatabase, ReadForDelete, Goto, database, workflow
<1>7. ASSUME ReadDatabase(o, "upgrade")
      PROVE  HolderApplies'
  BY <1>5, <1>7 DEF ReadDatabase, Goto, database, workflow
<1> QED  BY <1>4, <1>6, <1>7 DEF Request

LEMMA HandleApplies ==
    ASSUME StepInv, StepInv', SawModifiable, OneHolder, HolderApplies, ~Undone,
           NEW o \in Op, Handle(o)
    PROVE  HolderApplies'
<1> USE DEF StepInv, IInv, TypeOK
<1>1. /\ UNCHANGED <<settled, ok, canceled, actual, known>> /\ \A p \in Op : kind'[p] = kind[p]
      /\ \A p \in Op : p # o => pc'[p] = pc[p] /\ wf'[p] = wf[p] /\ input'[p] = input[p]
  <2>1. UNCHANGED <<settled, ok, canceled, actual, known>> /\ \A p \in Op : kind'[p] = kind[p]
    BY DEF Handle, ReadDatabase, ApplySpecUpdate, SetDeleting, CreateTask, CreateWorkflow,
           LinkTask, Rollback, workflow
  <2>2. \A p \in Op : p # o => pc'[p] = pc[p]
    <3>1. CASE \/ \E k \in {"update", "restore"} : ReadDatabase(o, k)
               \/ ApplySpecUpdate(o) \/ SetDeleting(o)
      BY <3>1 DEF ReadDatabase, ApplySpecUpdate, SetDeleting, Goto
    <3>2. CASE CreateTask(o) \/ CreateWorkflow(o) \/ LinkTask(o) \/ Rollback(o)
      BY <3>2 DEF CreateTask, CreateWorkflow, LinkTask, Rollback, Goto
    <3> QED  BY <3>1, <3>2 DEF Handle
  <2>3. \A p \in Op : p # o => wf'[p] = wf[p] /\ input'[p] = input[p]
    BY DEF Handle, ReadDatabase, ApplySpecUpdate, SetDeleting, CreateTask, CreateWorkflow,
           LinkTask, Rollback, workflow, Step
  <2> QED  BY <2>1, <2>2, <2>3
<1>2. \A p \in Op : Holds(p)' => saw'[p] = saw[p]
  <2>1. CASE \E k \in {"update", "restore"} : ReadDatabase(o, k)
    BY <2>1 DEF ReadDatabase, Goto, workflow, Holds, InStep, BeforeWorkflow
  <2>2. CASE ApplySpecUpdate(o) \/ SetDeleting(o)
    BY <2>2 DEF ApplySpecUpdate, SetDeleting
  <2>3. CASE CreateTask(o) \/ CreateWorkflow(o) \/ LinkTask(o) \/ Rollback(o)
    BY <2>3 DEF CreateTask, CreateWorkflow, LinkTask, Rollback
  <2> QED  BY <2>1, <2>2, <2>3 DEF Handle
<1>3. \A p \in Op : p # o /\ Holds(p)' => Holds(p)
  BY <1>1 DEF Holds
<1>4. ASSUME UNCHANGED <<state, spec>>, input'[o] = input[o],
             Holds(o)' => Holds(o) /\ (wf'[o] = "none" => wf[o] = "none"),
             wf'[o] \in {"persist", "finish"} => wf'[o] = wf[o]
      PROVE  HolderApplies'
  BY <1>1, <1>2, <1>3, <1>4, AppliesKept
<1>5. ASSUME state \notin InProgress, state' \in InProgress, wf'[o] = "none",
             input'[o] = IF kind[o] = "delete" THEN {} ELSE spec',
             kind[o] = "delete" => spec' = spec,
             kind[o] \in {"upgrade", "delete"} => saw[o].state = state,
             kind[o] = "upgrade" => saw[o].spec = spec
      PROVE  HolderApplies'
  <2>1. \A p \in Op : p # o => ~Holds(p)'
    BY <1>3, <1>5 DEF OneHolder
  <2>2. AppliesAt(o)'
    <3>1. kind[o] \in {"upgrade", "delete"} /\ saw[o].state = "available" => Applied(spec)
      BY <1>5 DEF HolderApplies
    <3>2. Holds(o)' =>
          /\ kind[o] = "upgrade" /\ saw[o].state = "available" => Applied(saw[o].spec)'
          /\ kind[o] = "delete" /\ saw[o].state = "available" => Applied(spec)'
      BY <1>1, <1>2, <1>5, <3>1 DEF Applied
    <3> QED  BY <1>1, <1>2, <1>5, <3>2 DEF AppliesAt
  <2> QED  BY <1>5, <2>1, <2>2, AppliesAlone DEF InProgress
<1>6. CASE \E k \in {"update", "restore"} : ReadDatabase(o, k)
  BY <1>4, <1>6 DEF ReadDatabase, workflow, database, Goto, Holds, InStep, BeforeWorkflow
<1>7. CASE ApplySpecUpdate(o)
  <2>0. wf'[o] = "none" /\ wf[o] = "none" /\ kind[o] # "delete"
    BY <1>7 DEF ApplySpecUpdate, InStep, BeforeWorkflow
  <2>1. CASE CopyIsCurrent(o)
    <3>1. state \notin InProgress
      BY <2>1 DEF CopyIsCurrent, CopiesAreCurrent, DatabaseStateModifiable, InProgress
    <3>2. state' \in InProgress
      BY <1>7, <2>1 DEF ApplySpecUpdate, SetState, StateFor, InProgress
    <3>3. input'[o] = spec'
      BY <1>7, <2>1 DEF ApplySpecUpdate
    <3>4. kind[o] = "upgrade" => saw[o].state = state /\ saw[o].spec = spec
      BY <2>1 DEF CopyIsCurrent, CopiesAreCurrent
    <3> QED  BY <1>5, <2>0, <3>1, <3>2, <3>3, <3>4
  <2>2. CASE ~CopyIsCurrent(o)
    BY <1>4, <1>7, <2>0, <2>2 DEF ApplySpecUpdate, database, Goto, Holds
  <2> QED  BY <2>1, <2>2
<1>8. CASE SetDeleting(o)
  <2>0. wf'[o] = "none" /\ wf[o] = "none" /\ kind[o] = "delete" /\ input'[o] = {} /\ spec' = spec
    BY <1>8 DEF SetDeleting, InStep, BeforeWorkflow, workflow
  <2>1. CASE StateIs(o)
    <3>1. state \notin InProgress
      BY <1>8, <2>1 DEF SetDeleting, StateIs, SawModifiable, DatabaseStateModifiable, InProgress
    <3>2. state' \in InProgress
      BY <1>8, <2>1 DEF SetDeleting, SetState, InProgress
    <3> QED  BY <1>5, <2>0, <2>1, <3>1, <3>2 DEF StateIs
  <2>2. CASE ~StateIs(o)
    BY <1>4, <1>8, <2>0, <2>2 DEF SetDeleting, workflow, Goto, Holds
  <2> QED  BY <2>1, <2>2
<1>9. CASE CreateTask(o) \/ CreateWorkflow(o) \/ LinkTask(o)
  <2>1. UNCHANGED <<state, spec, input>>
    BY <1>9 DEF CreateTask, CreateWorkflow, LinkTask, database, workflow
  <2>2. Holds(o)' => Holds(o) /\ (wf'[o] = "none" => wf[o] = "none")
    BY <1>9 DEF CreateTask, CreateWorkflow, LinkTask, workflow, Goto, Step, Holds, InStep
  <2>3. wf'[o] \in {"persist", "finish"} => wf'[o] = wf[o]
    BY <1>9 DEF CreateTask, CreateWorkflow, LinkTask, workflow, Step
  <2> QED  BY <1>4, <2>1, <2>2, <2>3
<1>10. CASE Rollback(o)
  <2>1. /\ pc[o] = "rollback" /\ pc'[o] = "error" /\ UNCHANGED <<wf, input>>
        /\ kind[o] \in AllKinds
    BY <1>10 DEF Rollback, Goto, workflow, KindIsSet
  <2>2. CASE wf[o] = "none"
    <3>1. Holds(o) /\ ~Holds(o)' /\ state \in InProgress
      BY <2>1, <2>2 DEF Holds, OneHolder
    <3>2. \A p \in Op : p # o => ~Holds(p)'
      BY <1>3, <3>1 DEF OneHolder
    <3>3. AppliesAt(o)'
      BY <2>1, <2>2, <3>1 DEF AppliesAt
    <3>4. /\ kind[o] = "upgrade" /\ saw[o].state = "available" => Applied(saw[o].spec)
          /\ kind[o] = "delete" /\ saw[o].state = "available" => Applied(spec)
      BY <2>2, <3>1 DEF HolderApplies, AppliesAt
    <3>5. \/ state' = state
          \/ kind[o] = "upgrade" /\ state' = saw[o].state /\ spec' = saw[o].spec
          \/ kind[o] = "delete" /\ state' = saw[o].state /\ spec' = spec
      BY <1>10, <2>1 DEF Rollback, SetState, database, AllKinds
    <3>6. state' = "available" => Applied(spec)'
      BY <1>1, <3>1, <3>4, <3>5 DEF Applied, InProgress
    <3> QED  BY <3>2, <3>3, <3>6, AppliesAlone
  <2>3. CASE wf[o] # "none"
    <3>1. kind[o] \notin {"upgrade", "delete"}
      BY <2>1, <2>3 DEF Undone
    <3>2. UNCHANGED <<state, spec>>
      BY <1>10, <2>1, <3>1 DEF Rollback, database, AllKinds
    <3> QED  BY <1>1, <1>4, <2>1, <3>2 DEF Holds
  <2> QED  BY <2>2, <2>3
<1> QED  BY <1>6, <1>7, <1>8, <1>9, <1>10 DEF Handle

LEMMA WorkApplies ==
    ASSUME StepInv, StepInv', OneHolder, HolderApplies, ~Overwritten', ~Unrecorded',
           NEW o \in Op, Work(o)
    PROVE  HolderApplies'
<1> USE DEF StepInv, IInv, TypeOK
<1>1. /\ UNCHANGED <<kind, pc, saw, input, canceled>>
      /\ wf[o] \notin {"none", "done"} /\ wf'[o] # "none"
      /\ \A p \in Op : p # o => wf'[p] = wf[p] /\ settled'[p] = settled[p]
      /\ settled'[o] = settled[o] \/ settled'[o] = settled[o] + 1
  BY WorkSteps
<1>2. /\ \A p \in Op : p # o /\ Holds(p)' => Holds(p)
      /\ Holds(o)' => Holds(o)
  BY <1>1 DEF Holds
<1>3. AppliesAt(o)
  BY DEF HolderApplies
<1>4. ASSUME UNCHANGED <<state, spec, actual, known, ok>>, wf'[o] \notin {"persist", "finish"}
      PROVE  HolderApplies'
  BY <1>1, <1>2, <1>4, AppliesKept
<1>5. ASSUME Busy(o), AppliesAt(o)', state' = "available" => Applied(spec)'
      PROVE  HolderApplies'
  <2>1. \A p \in Op : p # o => ~Holds(p)'
    BY <1>2, <1>5, BusyHolds DEF Busy
  <2> QED  BY <1>5, <2>1, AppliesAlone
<1>6. Busy(o) => Holds(o) /\ state \in InProgress
  BY BusyHolds DEF Busy
<1>7. CASE Start(o) \/ Complete(o) \/ RefreshCurrentState(o) \/ Plan(o) \/ PlanDeleteFails(o)
  BY <1>4, <1>7 DEF Start, Complete, UpdateTask, RefreshCurrentState, Plan, Activity,
     PlanDeleteFails, Step, database
<1>8. CASE ApplyFirst(o) \/ ApplyLast(o)
  <2>1. Busy(o) /\ UNCHANGED <<state, spec>>
    BY <1>8 DEF ApplyFirst, ApplyLast, Busy, database
  <2>2. /\ wf'[o] \in {"applying", "persist"}
        /\ wf'[o] = "persist" => ~ok'[o] \/ actual' = [spec |-> input'[o], whole |-> TRUE]
    BY <1>1, <1>8 DEF ApplyFirst, ApplyLast, Step
  <2>3. AppliesAt(o)'
    BY <1>1, <1>2, <1>3, <2>1, <2>2 DEF AppliesAt
  <2> QED  BY <1>5, <1>6, <2>1, <2>3 DEF InProgress
<1>9. CASE PersistState(o)
  <2>1. wf[o] = "persist" /\ Busy(o) /\ UNCHANGED <<state, spec, actual, ok>>
    BY <1>9 DEF PersistState, Busy, database
  <2>2. ~Fails(o, "persist")
    BY FailsIn DEF Unrecorded
  <2>3. /\ wf'[o] = AfterPlans(o)
        /\ canceled[o] \/ known' = actual
    BY <1>9, <2>2 DEF PersistState, Persists, Step
  <2>4. AppliesAt(o)'
    BY <1>1, <1>2, <1>3, <2>1, <2>3 DEF AppliesAt, AfterPlans
  <2> QED  BY <1>5, <1>6, <2>1, <2>4 DEF InProgress
<1>10. CASE Finish(o)
  <2>1. wf[o] = "finish" /\ Busy(o) /\ UNCHANGED <<actual, ok>> /\ wf'[o] \in {"complete", "failed"}
    BY <1>10 DEF Finish, Busy, Step
  <2>2. \/ UNCHANGED <<state, spec>>
        \/ /\ state' = "available" /\ UNCHANGED <<spec, known>>
           /\ ~canceled[o] /\ kind[o] # "delete"
        \/ state' = "absent" /\ settled'[o] = settled[o] + 1
    BY <1>10 DEF Finish, Settle, SetState, database
  <2>3. spec' = spec \/ ~Holds(o)'
    <3>1. settled'[o] = settled[o] + 1 => settled'[o] # 0
      OBVIOUS
    <3>2. pc[o] \notin BeforeWorkflow
      BY <2>1 DEF InStep
    <3> QED  BY <1>1, <2>2, <3>1, <3>2 DEF Holds, BeforeWorkflow
  <2>4. AppliesAt(o)'
    BY <1>1, <1>2, <1>3, <2>1, <2>3 DEF AppliesAt
  <2>5. state' = "available" => Applied(spec)'
    <3> SUFFICES ASSUME state' = "available" PROVE Applied(spec)'
      OBVIOUS
    <3>1. UNCHANGED <<spec, known>> /\ ~canceled[o] /\ kind[o] # "delete"
      BY <1>6, <2>1, <2>2 DEF InProgress
    <3>2. actual = [spec |-> input[o], whole |-> TRUE] /\ known = actual /\ input[o] = spec
      BY <1>3, <1>6, <2>1, <3>1 DEF AppliesAt
    <3> QED  BY <2>1, <3>1, <3>2 DEF Applied
  <2> QED  BY <1>5, <2>1, <2>4, <2>5
<1>11. CASE Failed(o) \/ Exit(o)
  <2>1. /\ UNCHANGED <<spec, actual, known, ok>> /\ wf'[o] \notin {"persist", "finish"}
        /\ state' = state \/ state' = "failed"
    BY <1>11 DEF Failed, Exit, Settle, SetState, Step
  <2>2. ASSUME NEW p \in Op PROVE AppliesAt(p)'
    <3>1. AppliesAt(p)
      BY DEF HolderApplies
    <3>2. CASE p = o
      BY <1>1, <1>2, <2>1, <3>1, <3>2 DEF AppliesAt
    <3>3. CASE p # o
      BY <1>1, <1>2, <2>1, <3>1, <3>3 DEF AppliesAt, Applied
    <3> QED  BY <3>2, <3>3
  <2>3. state' = "available" => Applied(spec)'
    BY <2>1 DEF HolderApplies, Applied
  <2> QED  BY <2>2, <2>3 DEF HolderApplies
<1> QED  BY <1>7, <1>8, <1>9, <1>10, <1>11 DEF Work

LEMMA NextSpecInv ==
    ASSUME NotForced, SpecInv, [Next]_vars
    PROVE  SpecInv'
<1>1. HoldInv'
  BY NextHoldInv DEF SpecInv
<1>2. ASSUME ~Undone', ~Overwritten', ~Unrecorded' PROVE HolderApplies'
  <2>1. /\ StepInv /\ SawModifiable /\ OneHolder /\ HolderApplies
        /\ ~Undone /\ StepInv'
    BY <1>1, <1>2, ExemptStays DEF SpecInv, HoldInv
  <2>2. ASSUME NEW o \in Op, CancelTask(o) PROVE HolderApplies'
    <3>1. /\ UNCHANGED <<state, spec, actual, known, pc, kind, wf, saw, input, ok, settled>>
          /\ \A p \in Op : canceled[p] => canceled'[p]
      BY <2>1, <2>2, Steady DEF CancelTask, handler, database
    <3> QED  BY <2>1, <3>1, AppliesKept DEF Holds
  <2>3. CASE UNCHANGED vars
    BY <2>1, <2>3, AppliesKept DEF vars, handler, database, workflow, Holds
  <2>4. ASSUME NEW o \in Op, Crash(o) PROVE HolderApplies'
    BY <2>1, <2>4, CrashSteps, AppliesKept DEF workflow, Holds
  <2> QED  BY <1>2, <2>1, <2>2, <2>3, <2>4, RequestApplies, HandleApplies, WorkApplies DEF Next
<1> QED  BY <1>1, <1>2 DEF SpecInv

LEMMA AlwaysSpecInv == NotForced /\ Spec => []SpecInv
<1> SUFFICES ASSUME NotForced PROVE Spec => []SpecInv
  OBVIOUS
<1>1. SpecInv /\ [Next]_vars => SpecInv'
  BY NextSpecInv
<1> QED  BY <1>1, InitSpecInv, PTL DEF Spec

\* For any number of operations and whatever fails or is canceled: a database
\* that is shown as available has its stored specification applied as a whole,
\* and the persisted resource.State says so, unless PersistState has failed or
\* the exclusion of the operations was broken.
THEOREM SpecAppliedHolds == NotForced /\ Spec => []SpecApplied
<1>1. SpecInv => SpecApplied
  BY DEF SpecInv, HolderApplies, Applied, SpecApplied, SpecAppliedAlways
<1> QED  BY <1>1, AlwaysSpecInv, PTL

-----------------------------------------------------------------------------
(***************************************************************************)
(* The persisted state of the resources.                                   *)
(***************************************************************************)

LEMMA NextKnown ==
    ASSUME SpecInv, KnownIsActual, [Next]_vars
    PROVE  KnownIsActual'
<1> SUFFICES ASSUME ~Undone', ~Overwritten', ~Unrecorded',
                    \A o \in Op : wf'[o] \notin {"applying", "persist"},
                    \A o \in Op : ~canceled'[o]
             PROVE  known' = actual'
  BY DEF KnownIsActual
<1>1. StepInv /\ HolderApplies /\ ~Undone /\ ~Overwritten /\ ~Unrecorded
  BY ExemptStays DEF SpecInv, HoldInv
<1>2. \A o \in Op : ~canceled[o]
  BY <1>1, Steady
<1>3. ASSUME UNCHANGED <<actual, known>>,
             \A o \in Op : wf[o] \in {"applying", "persist"} => wf'[o] = wf[o]
      PROVE  known' = actual'
  BY <1>1, <1>2, <1>3 DEF KnownIsActual
<1> USE DEF StepInv, IInv, TypeOK
<1>4. ASSUME NEW o \in Op, Request(o) \/ Handle(o) \/ CancelTask(o) \/ Crash(o)
      PROVE  known' = actual'
  <2>1. UNCHANGED <<actual, known>>
    BY <1>4 DEF Request, CreateDatabase, FetchDatabase, ReadForDelete, ReadDatabase, Handle,
       ApplySpecUpdate, SetDeleting, CreateTask, CreateWorkflow, LinkTask, Rollback, CancelTask,
       Crash
  <2>2. UNCHANGED wf \/ CreateWorkflow(o)
    BY <1>4 DEF Request, CreateDatabase, FetchDatabase, ReadForDelete, ReadDatabase, Handle,
       ApplySpecUpdate, SetDeleting, CreateTask, LinkTask, Rollback, CancelTask, Crash, workflow
  <2>3. CreateWorkflow(o) => wf[o] = "none" /\ \A p \in Op : p # o => wf'[p] = wf[p]
    BY <1>1 DEF CreateWorkflow, Step, InStep, BeforeWorkflow
  <2> QED  BY <1>3, <2>1, <2>2, <2>3
<1>5. ASSUME NEW o \in Op, Work(o) PROVE known' = actual'
  <2>1. \A p \in Op : p # o => wf'[p] = wf[p]
    BY <1>1, <1>5, WorkSteps
  <2>2. ASSUME UNCHANGED <<actual, known>>, wf[o] \notin {"applying", "persist"}
        PROVE  known' = actual'
    BY <1>3, <2>1, <2>2
  <2>3. CASE Start(o) \/ Complete(o) \/ RefreshCurrentState(o) \/ Plan(o) \/ PlanDeleteFails(o)
    BY <2>2, <2>3 DEF Start, Complete, UpdateTask, RefreshCurrentState, Plan, Activity,
       PlanDeleteFails
  <2>4. CASE ApplyFirst(o) \/ ApplyLast(o)
    <3>1. wf'[o] \in {"applying", "persist"}
      BY <1>1, <2>4 DEF ApplyFirst, ApplyLast, Step
    <3> QED  BY <3>1
  <2>5. CASE PersistState(o)
    <3>1. ~Fails(o, "persist")
      BY FailsIn DEF Unrecorded
    <3> QED  BY <1>2, <2>5, <3>1 DEF PersistState, Persists
  <2>6. CASE Finish(o)
    <3>1. wf[o] = "finish" /\ actual' = actual /\ known' \in {known, Nothing}
      BY <2>6 DEF Finish
    <3>2. actual = [spec |-> input[o], whole |-> TRUE] /\ known = actual
      BY <1>1, <1>2, <3>1 DEF HolderApplies, AppliesAt
    <3>3. known' = known \/ kind[o] = "delete"
      BY <2>6 DEF Finish
    <3>4. kind[o] = "delete" => actual = Nothing
      BY <1>1, <3>2 DEF InStep, Nothing
    <3> QED  BY <3>1, <3>2, <3>3, <3>4
  <2>7. CASE Failed(o) \/ Exit(o)
    BY <2>2, <2>7 DEF Failed, Exit
  <2> QED  BY <1>5, <2>3, <2>4, <2>5, <2>6, <2>7 DEF Work
<1>6. CASE UNCHANGED vars
  BY <1>3, <1>6 DEF vars, workflow
<1> QED  BY <1>4, <1>5, <1>6 DEF Next

\* For any number of operations: between plans, and also after plans that have
\* failed, the persisted resource.State describes the resources that exist,
\* unless PersistState has failed or was not started because of a cancellation.
THEOREM KnownIsActualHolds == NotForced /\ Spec => []KnownIsActual
<1>1. Init => KnownIsActual
  BY DEF Init, KnownIsActual
<1>2. SpecInv /\ KnownIsActual /\ [Next]_vars => KnownIsActual'
  BY NextKnown
<1> QED  BY <1>1, <1>2, AlwaysSpecInv, PTL DEF Spec

=============================================================================
