-------------------------------- MODULE Tasks --------------------------------
(***************************************************************************)
(* The record of one task and everybody who writes it: the handler that    *)
(* creates the task and its workflow and then links them                   *)
(* (workflows/service.go), the UpdateTask activities of the workflow       *)
(* (workflows/activities/update_task.go) and the requests that cancel it   *)
(* (CancelDatabaseTask).                                                   *)
(*                                                                         *)
(* Service.UpdateTask (task/service.go) writes a whole record that its     *)
(* caller has read earlier, under the version it reads itself.             *)
(***************************************************************************)
EXTENDS Naturals, FiniteSets

CONSTANT Canceler    \* requests that cancel the task

Handler  == "handler"
Workflow == "workflow"
Writer   == {Handler, Workflow} \cup Canceler

ASSUME CancelersAreOthers == IsFiniteSet(Canceler) /\ {Handler, Workflow} \cap Canceler = {}

VARIABLES
    record,    \* the stored task
    version,   \* its version in the store; 0 when the record is gone
    copy,      \* the copy of the task each writer has
    seen,      \* the version Service.UpdateTask has read for a writer
    pc,        \* the step of each writer
    phase,     \* which update the workflow is at
    outcome,   \* what has become of the work itself
    signaled   \* the workflow has been canceled

vars == <<record, version, copy, seen, pc, phase, outcome, signaled>>

Completed == {"completed", "failed", "canceled"}
Status    == {"pending", "running", "canceling"} \cup Completed
Task      == [status : Status, linked : BOOLEAN]

TypeOK ==
    /\ record \in Task
    /\ version \in Nat
    /\ copy \in [Writer -> Task]
    /\ seen \in [Writer -> Nat]
    /\ pc \in [Writer -> {"idle", "create", "get", "reread", "write", "signal",
                          "refused", "error", "done"}]
    /\ phase \in {"none", "start", "work", "complete", "fail", "exit", "cancel", "done"}
    /\ outcome \in {"none", "success", "error"}
    /\ signaled \in BOOLEAN

NewTask == [status |-> "pending", linked |-> FALSE]

\* The state after CreateTask.
Init ==
    /\ record = NewTask
    /\ version = 1
    /\ copy = [w \in Writer |-> NewTask]
    /\ seen = [w \in Writer |-> 0]
    /\ pc = [w \in Writer |-> IF w = Handler THEN "create" ELSE "idle"]
    /\ phase = "none"
    /\ outcome = "none"
    /\ signaled = FALSE

Goto(w, step) == pc' = [pc EXCEPT ![w] = step]

-----------------------------------------------------------------------------
(***************************************************************************)
(* Service.UpdateTask                                                      *)
(***************************************************************************)

\* A record that is gone has version 0.
Reread(w) ==
    /\ pc[w] = "reread"
    /\ seen' = [seen EXCEPT ![w] = version]
    /\ Goto(w, "write")
    /\ UNCHANGED <<record, version, copy, phase, outcome, signaled>>

Gone == version = 0

\* ErrTaskNotFound, or the record has another version by now.
Conflict(w) == Gone \/ seen[w] # version

Write(w) ==
    IF Conflict(w) THEN UNCHANGED <<record, version>>
    ELSE record' = copy[w] /\ version' = version + 1

\* Nothing of the update is used afterwards.
Forget(w) ==
    /\ copy' = [copy EXCEPT ![w] = NewTask]
    /\ seen' = [seen EXCEPT ![w] = 0]

-----------------------------------------------------------------------------
(***************************************************************************)
(* The handler                                                             *)
(***************************************************************************)

\* The workflow may run from now on; the copy is the one CreateTask returned.
CreateWorkflow ==
    /\ pc[Handler] = "create"
    /\ copy' = [copy EXCEPT ![Handler].linked = TRUE]
    /\ pc' = [pc EXCEPT ![Handler] = "reread", ![Workflow] = "get"]
    /\ phase' = "start"
    /\ UNCHANGED <<record, version, seen, outcome, signaled>>

LinkTask ==
    /\ pc[Handler] = "write"
    /\ Write(Handler)
    /\ Forget(Handler)
    /\ Goto(Handler, IF Conflict(Handler) THEN "error" ELSE "done")
    /\ UNCHANGED <<phase, outcome, signaled>>

-----------------------------------------------------------------------------
(***************************************************************************)
(* The workflow                                                            *)
(***************************************************************************)

\* Task.Update
Update(task, status) ==
    IF task.status \in Completed THEN task ELSE [task EXCEPT !.status = status]

\* UpdateStart, UpdateComplete, UpdateFail and UpdateCancel.
Target ==
    CASE phase = "start"    -> "running"
      [] phase = "complete" -> "completed"
      [] phase = "fail"     -> "failed"
      [] phase = "cancel"   -> "canceled"

\* Where the workflow goes on after an update that has failed or not.
AfterUpdate(failed) ==
    CASE phase = "start"    -> IF failed THEN "fail" ELSE "work"
      [] phase = "complete" -> IF failed THEN "fail" ELSE "exit"
      [] phase = "fail"     -> "exit"
      [] phase = "cancel"   -> "done"

Enter(next) ==
    /\ phase' = next
    /\ Goto(Workflow, IF next \in {"start", "complete", "fail", "cancel"} THEN "get" ELSE "idle")

\* Mutant of CanStart: the deferred function uses the workflow's context.
MutCanStart == ~signaled

\* An activity is not started in the context of a canceled workflow; only
\* the deferred function has a context of its own.
CanStart == signaled => phase = "cancel"

GetTask ==
    /\ pc[Workflow] = "get"
    /\ IF Gone \/ ~CanStart
       THEN Enter(AfterUpdate(TRUE)) /\ UNCHANGED copy
       ELSE /\ copy' = [copy EXCEPT ![Workflow] = Update(record, Target)]
            /\ Goto(Workflow, "reread")
            /\ UNCHANGED phase
    /\ UNCHANGED <<record, version, seen, outcome, signaled>>

UpdateTask ==
    /\ pc[Workflow] = "write"
    /\ Write(Workflow)
    /\ Forget(Workflow)
    /\ Enter(AfterUpdate(Conflict(Workflow)))
    /\ UNCHANGED <<outcome, signaled>>

\* Mutant of AfterWork: an error of the work is only logged.
MutAfterWork(result) == "complete"

AfterWork(result) == IF result = "success" THEN "complete" ELSE "fail"

\* Everything between the first and the last update.
Work(result) ==
    /\ phase = "work"
    /\ signaled => result = "error"
    /\ outcome' = result
    /\ Enter(AfterWork(result))
    /\ UNCHANGED <<record, version, copy, seen, signaled>>

\* The deferred function looks at ctx.Err().
Exit ==
    /\ phase = "exit"
    /\ Enter(IF signaled THEN "cancel" ELSE "done")
    /\ UNCHANGED <<record, version, copy, seen, outcome, signaled>>

-----------------------------------------------------------------------------
(***************************************************************************)
(* CancelDatabaseTask                                                      *)
(***************************************************************************)

\* The handler's own check of the status.
CheckStatus(c) ==
    /\ pc[c] = "idle"
    /\ Goto(c, IF ~Gone /\ record.status \in {"pending", "running"} THEN "get" ELSE "refused")
    /\ UNCHANGED <<record, version, copy, seen, phase, outcome, signaled>>

GetForCancel(c) ==
    /\ pc[c] = "get"
    /\ Goto(c, IF ~Gone /\ record.linked THEN "reread" ELSE "refused")
    /\ copy' = [copy EXCEPT ![c] = [record EXCEPT !.status = "canceling"]]
    /\ UNCHANGED <<record, version, seen, phase, outcome, signaled>>

SetCanceling(c) ==
    /\ pc[c] = "write"
    /\ Write(c)
    /\ Forget(c)
    /\ Goto(c, IF Conflict(c) THEN "error" ELSE "signal")
    /\ UNCHANGED <<phase, outcome, signaled>>

\* CancelWorkflowInstance; a workflow that has ended does not hear of it.
Signal(c) ==
    /\ pc[c] = "signal"
    /\ signaled' = (signaled \/ phase # "done")
    /\ Goto(c, "done")
    /\ UNCHANGED <<record, version, copy, seen, phase, outcome>>

-----------------------------------------------------------------------------

\* DeleteAllTasks, when a database of the same name is created again: whatever
\* the task is doing.
DeleteTask ==
    /\ ~Gone
    /\ record' = NewTask /\ version' = 0
    /\ UNCHANGED <<copy, seen, pc, phase, outcome, signaled>>

Next ==
    \/ DeleteTask
    \/ CreateWorkflow \/ LinkTask \/ GetTask \/ UpdateTask \/ Exit
    \/ \E result \in {"success", "error"} : Work(result)
    \/ \E w \in Writer : Reread(w)
    \/ \E c \in Canceler :
        CheckStatus(c) \/ GetForCancel(c) \/ SetCanceling(c) \/ Signal(c)

Spec == Init /\ [][Next]_vars

-----------------------------------------------------------------------------
(***************************************************************************)
(* Properties                                                              *)
(***************************************************************************)

\* A task is shown as completed only if its work has succeeded, and as
\* canceled only if its workflow was, although three parties write the record
\* and each writes a copy that may be old.
TruthfulStatus ==
    /\ record.status = "completed" => outcome = "success"
    /\ record.status = "canceled" => signaled

\* One request at most has got as far as marking the task.
OneRequest ==
    \A c, d \in Canceler : pc[c] \in {"signal", "done"} /\ pc[d] \in {"signal", "done"} => c = d

\* A task whose workflow has heard of a cancellation does not stay "canceling":
\* when the workflow is done the record shows a result, although the request and
\* the workflow write it at the same time, the request may overwrite the result
\* itself, and any update may fail.
HeardMeansEnded ==
    phase = "done" /\ signaled /\ ~Gone /\ OneRequest => record.status \in Completed

\* The status of a task that is complete never changes again (Task.Update).
SetOnce == [][record.status \in Completed => Gone' \/ record'.status = record.status]_vars

\* A task whose workflow was canceled before its work was done is shown as
\* canceled in the end (the deferred cancelTask).
CanceledEndsCanceled ==
    phase = "done" /\ signaled /\ outcome # "success" /\ (\A c \in Canceler : pc[c] = "done")
        => record.status = "canceled"

=============================================================================
