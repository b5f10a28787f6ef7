--------------------------- MODULE TaskFeedProofs ---------------------------
(***************************************************************************)
(* Proofs about TaskFeed for any sets of requests that cancel a task and   *)
(* of activities that watch it, and any bounds.  The writers of the record *)
(* come first, in a part that is about Tasks alone; TaskFeed only          *)
(* restricts them.                                                         *)
(***************************************************************************)
EXTENDS TaskFeed, TLAPS

-----------------------------------------------------------------------------
(***************************************************************************)
(* The inductive invariant of the writers.                                 *)
(***************************************************************************)

\* The workflow has not got through its work yet.
Early == {"none", "start", "work"}

\* The phases in which the workflow updates the record.
Updating == {"start", "complete", "fail", "cancel"}

\* A status says the truth about the work and the requests to cancel it.
StatusTrue(status) ==
    /\ status = "completed" => outcome = "success"
    /\ status = "failed" => phase \notin Early
    /\ status = "canceled" => signaled
    /\ status = "canceling" => CancelAsked

\* What the phase of the workflow says about the work.
PhaseTrue ==
    /\ phase \in Early => outcome = "none"
    /\ phase = "complete" => outcome = "success"
    /\ phase = "cancel" => signaled
    /\ signaled => CancelAsked
    /\ pc[Workflow] \in {"get", "reread", "write"} => phase \in Updating
    /\ pc[Handler] = "create" => phase = "none"

\* What the writers may be about to write: only the workflow ends a task, and
\* only requests mark it as being canceled.
CopiesTrue ==
    /\ copy[Handler].status = "pending"
    /\ \A c \in Canceler : copy[c].status \in {"pending", "canceling"}
    /\ copy[Workflow].status # "canceling"
    /\ StatusTrue(copy[Workflow].status)

WriterInv ==
    /\ TypeOK
    /\ PhaseTrue
    /\ StatusTrue(record.status)
    /\ CopiesTrue

-----------------------------------------------------------------------------
(***************************************************************************)
(* The inductive invariant of the watchers.                                *)
(***************************************************************************)

\* An answer that may be given to an activity.
Justified(answer) ==
    /\ answer = "completed" => outcome = "success"
    /\ answer = "failed" => phase \notin Early
    /\ answer = "canceled" => CancelAsked \/ W!Current = "deleted"

\* Every event of the stream justifies how it ends a watch, and the last one
\* tells whether the record is gone.
LogJustified ==
    /\ Len(log) > 0
    /\ \A i \in 1 .. Len(log) : Justified(W!Result(log[i]))
    /\ W!Current = "deleted" <=> Gone

AnswersJustified ==
    /\ \A s \in 1 .. MaxShared : Justified(shared[s].terminal)
    /\ \A c \in Caller : Justified(watcher[c].done)

\* The registry holds the shared watcher that is open, and there is one at most.
RegistryIsOpen ==
    \A s \in 1 .. MaxShared :
        /\ shared[s].step = "open" <=> entry = s
        /\ shared[s].step = "none" <=> s > created

\* A shared watcher knows who is subscribed.
SubsAreWaiting ==
    \A c \in Caller :
        /\ watcher[c].pc # "idle" => watcher[c].of \in 1 .. created
        /\ \A s \in 1 .. MaxShared :
            c \in shared[s].subs <=> watcher[c].pc = "waiting" /\ watcher[c].of = s

\* As long as a stream is not closed, somebody is subscribed to it or is about
\* to close it.
StreamHasUser ==
    \A s \in 1 .. MaxShared :
        shared[s].step \in {"open", "removed"} =>
            \E c \in Caller : watcher[c].of = s /\ watcher[c].pc \in {"waiting", "closing"}

FeedInv ==
    /\ WriterInv
    /\ W!TypeOK
    /\ LogJustified
    /\ AnswersJustified
    /\ RegistryIsOpen
    /\ SubsAreWaiting
    /\ StreamHasUser

-----------------------------------------------------------------------------
(***************************************************************************)
(* The writers                                                             *)
(***************************************************************************)

\* The handler, the workflow and the requests are different writers.
LEMMA WritersDiffer ==
  /\ Handler \in Writer /\ Workflow \in Writer /\ Handler # Workflow
  /\ Canceler \subseteq Writer
  /\ \A c \in Canceler : c # Handler /\ c # Workflow
  BY CancelersAreOthers DEF Writer, Handler, Workflow

\* Task.Update keeps a task a task, and a result as it is.
LEMMA UpdateKeeps ==
  ASSUME NEW task \in Task, NEW status \in Status
  PROVE  /\ Update(task, status) \in Task
         /\ task.status \in Completed => Update(task, status).status = task.status
         /\ task.status \notin Completed => Update(task, status).status = status
  BY DEF Update, Task

LEMMA InitWriter == Init => WriterInv
<1> SUFFICES ASSUME Init PROVE WriterInv
  OBVIOUS
<1> USE WritersDiffer
<1>1. NewTask \in Task /\ NewTask.status = "pending"
  BY DEF NewTask, Task, Status
<1>2. TypeOK
  BY <1>1 DEF Init, TypeOK
<1>3. PhaseTrue
  BY DEF Init, PhaseTrue, Early
<1>4. StatusTrue(record.status) /\ CopiesTrue
  BY <1>1 DEF Init, StatusTrue, CopiesTrue
<1> QED  BY <1>2, <1>3, <1>4 DEF WriterInv

\* Requests to cancel are not taken back.
LEMMA AskedStaysAsked ==
  ASSUME TypeOK, NEW w \in Writer, NEW step, Goto(w, step),
         w \in Canceler => step \in {"signal", "done"} \/ pc[w] \notin {"signal", "done"}
  PROVE  CancelAsked => CancelAsked'
  BY WritersDiffer DEF TypeOK, Goto, CancelAsked

\* Of the writers' steps it remains to show that the types are kept, what the
\* new phase says, that a new record and a new copy of the workflow are true.
LEMMA WriterKeeps ==
  ASSUME WriterInv, TypeOK', PhaseTrue',
         outcome = "success" => outcome' = "success",
         phase \notin Early => phase' \notin Early,
         signaled => signaled',
         CancelAsked => CancelAsked',
         \/ record' = record
         \/ record'.status = "pending"
         \/ record'.status = "canceling" /\ CancelAsked'
         \/ record' = copy[Workflow],
         \A w \in Writer \ {Workflow} : copy'[w].status \in {copy[w].status, "pending", "canceling"},
         copy'[Handler].status \in {copy[Handler].status, "pending"},
         \/ copy'[Workflow] = copy[Workflow]
         \/ copy'[Workflow].status # "canceling" /\ StatusTrue(copy[Workflow].status)'
  PROVE  WriterInv'
<1> USE WritersDiffer
<1>0. StatusTrue(record.status) /\ CopiesTrue
  BY DEF WriterInv
<1>1. ASSUME NEW status, StatusTrue(status)
      PROVE  /\ status = "completed" => outcome' = "success"
             /\ status = "failed" => phase' \notin Early
             /\ status = "canceled" => signaled'
             /\ status = "canceling" => CancelAsked'
  BY <1>1 DEF StatusTrue
<1>2. StatusTrue(record.status)'
  <2>1. CASE record' = record \/ record' = copy[Workflow]
    BY <1>0, <1>1, <2>1 DEF StatusTrue, CopiesTrue
  <2>2. CASE record'.status \in {"pending", "canceling"}
    BY <1>0, <2>2, <2>1 DEF StatusTrue
  <2> QED  BY <2>1, <2>2
<1>3. CopiesTrue'
  <2>1. CASE copy'[Workflow] = copy[Workflow]
    BY <1>0, <1>1, <2>1 DEF CopiesTrue, StatusTrue
  <2>2. CASE copy'[Workflow].status # "canceling" /\ StatusTrue(copy[Workflow].status)'
    BY <1>0, <2>2 DEF CopiesTrue
  <2> QED  BY <2>1, <2>2
<1> QED  BY <1>2, <1>3 DEF WriterInv

\* A writer moves on within the phase of the workflow.
LEMMA GotoKeepsPhase ==
  ASSUME WriterInv, NEW w \in Writer, NEW step, step # "create",
         Goto(w, step), UNCHANGED <<phase, outcome, signaled>>,
         w = Workflow => pc[w] \in {"get", "reread"},
         w \in Canceler => step \in {"signal", "done"} \/ pc[w] \notin {"signal", "done"}
  PROVE  PhaseTrue' /\ (CancelAsked => CancelAsked')
<1>1. CancelAsked => CancelAsked'
  BY AskedStaysAsked DEF WriterInv
<1>2. /\ pc'[Workflow] \in {"get", "reread", "write"} => pc[Workflow] \in {"get", "reread", "write"}
      /\ pc'[Handler] = "create" => pc[Handler] = "create"
  BY WritersDiffer DEF Goto, WriterInv, TypeOK
<1> QED  BY <1>1, <1>2 DEF WriterInv, PhaseTrue

\* A writer whose version is current stores its copy.
LEMMA WriteType ==
  ASSUME TypeOK, NEW w \in Writer, Write(w)
  PROVE  /\ record' \in Task /\ version' \in Nat
         /\ record' \in {record, copy[w]}
  BY DEF TypeOK, Write

\* A writer that is done with an update has a new task for a copy.
LEMMA ForgetType ==
  ASSUME TypeOK, NEW w \in Writer, Forget(w)
  PROVE  /\ copy' \in [Writer -> Task] /\ seen' \in [Writer -> Nat]
         /\ copy'[w] = NewTask /\ NewTask.status = "pending" /\ ~NewTask.linked
         /\ \A v \in Writer : v # w => copy'[v] = copy[v] /\ seen'[v] = seen[v]
  BY DEF TypeOK, Forget, NewTask, Task, Status

\* Service.UpdateTask reads the version again.
LEMMA RereadWriter ==
  ASSUME WriterInv, NEW w \in Writer, Reread(w)
  PROVE  WriterInv'
<1>1. PhaseTrue' /\ (CancelAsked => CancelAsked')
  BY GotoKeepsPhase DEF Reread
<1>2. TypeOK'
  BY DEF WriterInv, TypeOK, Reread, Goto
<1> QED  BY <1>1, <1>2, WriterKeeps, WritersDiffer DEF Reread

\* The handler creates the workflow, and then writes the copy of the task that
\* it made before.
LEMMA HandlerWriter ==
  ASSUME WriterInv, CreateWorkflow \/ LinkTask
  PROVE  WriterInv'
<1> USE WritersDiffer
<1>0. TypeOK /\ PhaseTrue /\ CopiesTrue
  BY DEF WriterInv
<1>1. CASE CreateWorkflow
  <2>1. /\ copy'[Handler].status = "pending" /\ copy' \in [Writer -> Task]
        /\ \A w \in Writer : w # Handler => copy'[w] = copy[w]
    BY <1>0, <1>1 DEF CreateWorkflow, TypeOK, CopiesTrue, Task
  <2>2. /\ pc' \in [Writer -> {"idle", "create", "get", "reread", "write", "signal",
                               "refused", "error", "done"}]
        /\ pc'[Workflow] = "get" /\ \A c \in Canceler : pc'[c] = pc[c]
    BY <1>0, <1>1 DEF CreateWorkflow, TypeOK
  <2>3. TypeOK'
    BY <1>0, <1>1, <2>1, <2>2 DEF CreateWorkflow, TypeOK
  <2>4. CancelAsked' <=> CancelAsked
    BY <2>2 DEF CancelAsked
  <2>5. outcome = "none" /\ phase = "none" /\ pc'[Handler] = "reread"
    BY <1>0, <1>1 DEF CreateWorkflow, PhaseTrue, TypeOK, Early
  <2>6. PhaseTrue'
    BY <1>0, <1>1, <2>2, <2>4, <2>5 DEF CreateWorkflow, PhaseTrue, Early, Updating
  <2>7. phase \in Early /\ outcome' = outcome /\ signaled' = signaled /\ record' = record
    BY <1>1, <2>5 DEF CreateWorkflow, Early
  <2>8. copy'[Workflow] = copy[Workflow] /\ copy'[Handler].status = copy[Handler].status
    BY <1>0, <2>1 DEF CopiesTrue
  <2>9. \A w \in Writer \ {Workflow} : copy'[w].status \in {copy[w].status, "canceling"}
    BY <2>1, <2>8
  <2> QED  BY <2>2, <2>3, <2>4, <2>6, <2>7, <2>8, <2>9, WriterKeeps
<1>2. CASE LinkTask
  <2> DEFINE step == IF Conflict(Handler) THEN "error" ELSE "done"
  <2>0. /\ copy' \in [Writer -> Task] /\ seen' \in [Writer -> Nat]
        /\ copy'[Handler].status = "pending"
        /\ \A w \in Writer : w # Handler => copy'[w] = copy[w]
    BY <1>0, <1>2, ForgetType DEF LinkTask
  <2>1. TypeOK'
    BY <1>0, <1>2, <2>0, WriteType DEF LinkTask, Goto, TypeOK
  <2>2. Goto(Handler, step) /\ step \in {"error", "done"}
    BY <1>2 DEF LinkTask
  <2>3. PhaseTrue' /\ (CancelAsked => CancelAsked')
    BY <1>2, <2>2, GotoKeepsPhase DEF LinkTask
  <2>4. record' = record \/ record'.status = "pending"
    BY <1>0, <1>2, WriteType DEF LinkTask, CopiesTrue
  <2>5. UNCHANGED <<phase, outcome, signaled>>
    BY <1>2 DEF LinkTask
  <2> QED  BY <2>0, <2>1, <2>3, <2>4, <2>5, WriterKeeps
<1> QED  BY <1>1, <1>2

\* The workflow enters its next phase: what the phase says must hold there, and
\* the requests are not concerned.
LEMMA EnterWriter ==
  ASSUME WriterInv, NEW next \in {"work", "complete", "fail", "exit", "cancel", "done"},
         Enter(next), UNCHANGED signaled,
         \/ UNCHANGED <<copy, seen>>
         \/ Forget(Workflow),
         record' \in {record, copy[Workflow]}, version' \in Nat,
         outcome' \in {"none", "success", "error"},
         outcome = "success" => outcome' = "success",
         phase \notin Early => next \notin Early,
         next = "work" => outcome' = "none",
         next = "complete" => outcome' = "success",
         next = "cancel" => signaled,
         phase # "none"
  PROVE  WriterInv'
<1> USE WritersDiffer
<1>0. TypeOK /\ PhaseTrue /\ CopiesTrue
  BY DEF WriterInv
<1> DEFINE step == IF next \in {"start", "complete", "fail", "cancel"} THEN "get" ELSE "idle"
<1>1. phase' = next /\ Goto(Workflow, step) /\ step \in {"get", "idle"}
  BY DEF Enter
<1>2. /\ pc' \in [Writer -> {"idle", "create", "get", "reread", "write", "signal",
                             "refused", "error", "done"}]
      /\ pc'[Workflow] = step
      /\ \A w \in Writer : w # Workflow => pc'[w] = pc[w]
  BY <1>0, <1>1 DEF Goto, TypeOK
<1>3. /\ copy' \in [Writer -> Task] /\ seen' \in [Writer -> Nat]
      /\ copy'[Workflow] = copy[Workflow] \/ copy'[Workflow].status = "pending"
      /\ \A w \in Writer : w # Workflow => copy'[w] = copy[w]
  <2>1. CASE UNCHANGED <<copy, seen>>
    BY <1>0, <2>1 DEF TypeOK
  <2>2. CASE Forget(Workflow)
    BY <1>0, <2>2, ForgetType
  <2> QED  BY <2>1, <2>2
<1>4. TypeOK'
  BY <1>0, <1>1, <1>2, <1>3 DEF TypeOK
<1>5. CancelAsked' <=> CancelAsked
  BY <1>2 DEF CancelAsked
<1>6. PhaseTrue'
  BY <1>0, <1>1, <1>2, <1>5 DEF PhaseTrue, Early, Updating
<1>7. copy'[Workflow] # copy[Workflow]
        => copy'[Workflow].status # "canceling" /\ StatusTrue(copy[Workflow].status)'
  BY <1>3 DEF StatusTrue
<1> HIDE DEF step
<1> QED  BY <1>1, <1>3, <1>4, <1>5, <1>6, <1>7, WriterKeeps

\* An UpdateTask activity, the work, and the deferred function.
LEMMA WorkflowWriter ==
  ASSUME WriterInv, NEW result \in {"success", "error"},
         GetTask \/ UpdateTask \/ Work(result) \/ Exit
  PROVE  WriterInv'
<1> USE WritersDiffer
<1>0. TypeOK /\ PhaseTrue /\ CopiesTrue /\ StatusTrue(record.status)
  BY DEF WriterInv
<1>1. ASSUME NEW failed \in BOOLEAN, phase \in Updating
      PROVE  /\ AfterUpdate(failed) \in {"work", "fail", "exit", "done"}
             /\ AfterUpdate(failed) = "work" => phase = "start"
  BY <1>1 DEF AfterUpdate, Updating
<1>2. CASE GetTask
  <2>1. phase \in Updating /\ phase # "none"
    BY <1>0, <1>2 DEF GetTask, PhaseTrue, Updating
  <2>2. CASE Gone \/ ~CanStart
    <3>1. Enter(AfterUpdate(TRUE)) /\ UNCHANGED <<copy, seen, signaled, record, version, outcome>>
      BY <1>2, <2>2 DEF GetTask
    <3>2. AfterUpdate(TRUE) \in {"fail", "exit", "done"}
      BY <2>1 DEF AfterUpdate, Updating
    <3> HIDE DEF AfterUpdate
    <3>3. version' \in Nat /\ outcome' \in {"none", "success", "error"}
      BY <1>0, <3>1 DEF TypeOK
    <3> QED  BY <2>1, <3>1, <3>2, <3>3, EnterWriter DEF Early
  <2>3. CASE ~Gone /\ CanStart
    <3>1. /\ copy' = [copy EXCEPT ![Workflow] = Update(record, Target)]
          /\ Goto(Workflow, "reread")
          /\ UNCHANGED <<phase, record, version, seen, outcome, signaled>>
      BY <1>2, <2>3 DEF GetTask
    <3>2. /\ Target \in Status
          /\ Target = "completed" => phase = "complete"
          /\ Target = "failed" => phase = "fail"
          /\ Target = "canceled" => phase = "cancel"
          /\ Target # "canceling"
      BY <2>1 DEF Target, Updating, Status, Completed
    <3>3. /\ Update(record, Target) \in Task
          /\ record.status \in Completed => Update(record, Target).status = record.status
          /\ record.status \notin Completed => Update(record, Target).status = Target
      BY <1>0, <3>2, UpdateKeeps DEF TypeOK
    <3>4. /\ copy'[Workflow] = Update(record, Target)
          /\ \A w \in Writer \ {Workflow} : copy'[w] = copy[w]
      BY <1>0, <3>1 DEF TypeOK
    <3>5. TypeOK'
      BY <1>0, <3>1, <3>3 DEF TypeOK, Goto
    <3>6. PhaseTrue' /\ (CancelAsked => CancelAsked')
      BY <1>2, <3>1, GotoKeepsPhase DEF GetTask
    <3>7. StatusTrue(Target)
      BY <1>0, <3>2 DEF StatusTrue, PhaseTrue, Early
    <3>8. copy'[Workflow].status # "canceling" /\ copy'[Workflow].status \in {record.status, Target}
      BY <3>2, <3>3, <3>4 DEF Completed
    <3>9. StatusTrue(copy[Workflow].status)'
      BY <1>0, <3>1, <3>6, <3>7, <3>8 DEF StatusTrue
    <3> QED  BY <3>1, <3>4, <3>5, <3>6, <3>8, <3>9, WriterKeeps
  <2> QED  BY <2>2, <2>3
<1>3. CASE UpdateTask
  <2>1. phase \in Updating /\ phase # "none"
    BY <1>0, <1>3 DEF UpdateTask, PhaseTrue, Updating
  <2>2. Conflict(Workflow) \in BOOLEAN
    BY DEF Conflict
  <2> DEFINE next == AfterUpdate(Conflict(Workflow))
  <2>3. next \in {"work", "fail", "exit", "done"} /\ (next = "work" => phase = "start")
    BY <1>1, <2>1, <2>2
  <2>4. Enter(next) /\ Forget(Workflow) /\ UNCHANGED <<outcome, signaled>>
    BY <1>3 DEF UpdateTask
  <2>5. record' \in {record, copy[Workflow]} /\ version' \in Nat
    BY <1>0, <1>3, WriteType DEF UpdateTask
  <2> HIDE DEF next
  <2>6. /\ next = "work" => outcome = "none"
        /\ phase \notin Early => next \notin Early
        /\ outcome \in {"none", "success", "error"}
    BY <1>0, <2>3 DEF PhaseTrue, Early, TypeOK
  <2> QED  BY <2>1, <2>3, <2>4, <2>5, <2>6, EnterWriter
<1>4. CASE Work(result)
  <2>1. AfterWork(result) \in {"complete", "fail"} /\ (AfterWork(result) = "complete" => result = "success")
    BY DEF AfterWork
  <2>2. outcome = "none" /\ phase = "work" /\ phase \in Early /\ version \in Nat
    BY <1>0, <1>4 DEF Work, PhaseTrue, Early, TypeOK
  <2>3. /\ Enter(AfterWork(result)) /\ outcome' = result
        /\ UNCHANGED <<record, version, copy, seen, signaled>>
    BY <1>4 DEF Work
  <2> HIDE DEF AfterWork
  <2> QED  BY <2>1, <2>2, <2>3, EnterWriter
<1>5. CASE Exit
  <2> DEFINE next == IF signaled THEN "cancel" ELSE "done"
  <2>1. next \in {"cancel", "done"} /\ (next = "cancel" => signaled) /\ Enter(next)
    BY <1>5 DEF Exit
  <2>2. version \in Nat /\ outcome \in {"none", "success", "error"}
    BY <1>0 DEF TypeOK
  <2> HIDE DEF next
  <2> QED  BY <1>5, <2>1, <2>2, EnterWriter DEF Exit, Early
<1> QED  BY <1>2, <1>3, <1>4, <1>5

\* CancelDatabaseTask.
LEMMA CancelerWriter ==
  ASSUME WriterInv, NEW c \in Canceler,
         CheckStatus(c) \/ GetForCancel(c) \/ SetCanceling(c) \/ Signal(c)
  PROVE  WriterInv'
<1> USE WritersDiffer
<1>0. TypeOK /\ PhaseTrue /\ CopiesTrue
  BY DEF WriterInv
<1>1. pc'[Workflow] = pc[Workflow] /\ pc'[Handler] = pc[Handler]
  BY <1>0 DEF CheckStatus, GetForCancel, SetCanceling, Signal, Goto, TypeOK
<1>2. CASE CheckStatus(c)
  <2> DEFINE step == IF ~Gone /\ record.status \in {"pending", "running"} THEN "get" ELSE "refused"
  <2>1. Goto(c, step) /\ step \in {"get", "refused"} /\ pc[c] = "idle"
    BY <1>2 DEF CheckStatus
  <2>2. UNCHANGED <<record, version, copy, seen, phase, outcome, signaled>>
    BY <1>2 DEF CheckStatus
  <2> HIDE DEF step
  <2>3. TypeOK'
    BY <1>0, <2>1, <2>2 DEF TypeOK, Goto
  <2>4. PhaseTrue' /\ (CancelAsked => CancelAsked')
    BY <2>1, <2>2, GotoKeepsPhase
  <2> QED  BY <1>1, <2>2, <2>3, <2>4, WriterKeeps
<1>3. CASE GetForCancel(c)
  <2> DEFINE step == IF ~Gone /\ record.linked THEN "reread" ELSE "refused"
             mine == [record EXCEPT !.status = "canceling"]
  <2>1. Goto(c, step) /\ step \in {"reread", "refused"} /\ pc[c] = "get"
    BY <1>3 DEF GetForCancel
  <2>2. /\ UNCHANGED <<record, version, seen, phase, outcome, signaled>>
        /\ copy' = [copy EXCEPT ![c] = mine]
    BY <1>3 DEF GetForCancel
  <2>3. mine \in Task /\ mine.status = "canceling"
    BY <1>0 DEF TypeOK, Task, Status
  <2> HIDE DEF step, mine
  <2>4. TypeOK'
    BY <1>0, <2>1, <2>2, <2>3 DEF TypeOK, Goto
  <2>5. PhaseTrue' /\ (CancelAsked => CancelAsked')
    BY <2>1, <2>2, GotoKeepsPhase
  <2>6. /\ copy'[Workflow] = copy[Workflow] /\ copy'[Handler] = copy[Handler]
        /\ \A w \in Writer \ {Workflow} : copy'[w].status \in {copy[w].status, "canceling"}
    BY <1>0, <2>2, <2>3 DEF TypeOK
  <2> QED  BY <1>1, <2>2, <2>4, <2>5, <2>6, WriterKeeps
<1>4. CASE SetCanceling(c)
  <2> DEFINE step == IF Conflict(c) THEN "error" ELSE "signal"
  <2>1. Goto(c, step) /\ step \in {"error", "signal"} /\ pc[c] = "write"
    BY <1>4 DEF SetCanceling
  <2>2. /\ UNCHANGED <<phase, outcome, signaled>>
        /\ copy' \in [Writer -> Task] /\ seen' \in [Writer -> Nat]
        /\ copy'[c].status = "pending" /\ \A w \in Writer : w # c => copy'[w] = copy[w]
    BY <1>0, <1>4, ForgetType DEF SetCanceling
  <2>3. record' = record \/ (record' = copy[c] /\ step = "signal")
    BY <1>4 DEF SetCanceling, Write
  <2> HIDE DEF step
  <2>4. TypeOK'
    BY <1>0, <1>4, <2>1, <2>2, WriteType DEF SetCanceling, TypeOK, Goto
  <2>5. PhaseTrue' /\ (CancelAsked => CancelAsked')
    BY <2>1, <2>2, GotoKeepsPhase
  <2>6. step = "signal" => CancelAsked'
    BY <1>0, <2>1 DEF CancelAsked, Goto, TypeOK
  <2>7. record' = record \/ record'.status = "pending" \/ (record'.status = "canceling" /\ CancelAsked')
    BY <1>0, <2>3, <2>6 DEF CopiesTrue
  <2> QED  BY <1>1, <2>2, <2>4, <2>5, <2>7, WriterKeeps
<1>5. CASE Signal(c)
  <2>1. TypeOK'
    BY <1>0, <1>5 DEF Signal, Goto, TypeOK
  <2>2. CancelAsked'
    BY <1>0, <1>5 DEF Signal, Goto, TypeOK, CancelAsked
  <2>3. signaled => signaled'
    BY <1>0, <1>5 DEF Signal, TypeOK
  <2>4. PhaseTrue'
    BY <1>0, <1>1, <1>5, <2>2, <2>3 DEF Signal, PhaseTrue
  <2> QED  BY <1>1, <1>5, <2>1, <2>2, <2>3, <2>4, WriterKeeps DEF Signal
<1> QED  BY <1>2, <1>3, <1>4, <1>5

\* DeleteAllTasks takes the record away from all of them.
LEMMA DeleteWriter ==
  ASSUME WriterInv, DeleteTask
  PROVE  WriterInv'
<1>1. NewTask \in Task /\ NewTask.status = "pending"
  BY DEF NewTask, Task, Status
<1>2. TypeOK' /\ PhaseTrue' /\ (CancelAsked => CancelAsked')
  BY <1>1 DEF DeleteTask, WriterInv, TypeOK, PhaseTrue, CancelAsked
<1> QED  BY <1>1, <1>2, WriterKeeps, WritersDiffer DEF DeleteTask

\* Every step of a writer keeps the invariant.
LEMMA StepWriter == WriterInv /\ [Next]_vars => WriterInv'
<1> SUFFICES ASSUME WriterInv, [Next]_vars PROVE WriterInv'
  OBVIOUS
<1>1. CASE UNCHANGED vars
  BY <1>1 DEF vars, WriterInv, TypeOK, PhaseTrue, StatusTrue, CopiesTrue, CancelAsked
<1>2. CASE GetTask \/ UpdateTask \/ Exit
  BY <1>2, WorkflowWriter
<1>3. CASE DeleteTask
  BY <1>3, DeleteWriter
<1> QED  BY <1>1, <1>2, <1>3, HandlerWriter, WorkflowWriter, RereadWriter, CancelerWriter DEF Next

-----------------------------------------------------------------------------
(***************************************************************************)
(* What the record says                                                    *)
(***************************************************************************)

\* A step of TaskFeed is a step of a writer or leaves them alone.
LEMMA FeedStepIsTaskStep == [FeedNext]_all => [Next]_vars
  BY DEF FeedNext, WriterStep, WatcherStep, all

\* TaskFeed adds the streams and the activities to Tasks and changes nothing
\* about the writers of the record.
THEOREM FeedImplementsTasks == FeedSpec => Spec
<1>1. FeedInit => Init
  BY DEF FeedInit
<1> QED  BY <1>1, FeedStepIsTaskStep, PTL DEF FeedSpec, Spec

LEMMA AlwaysWriter == FeedSpec => []WriterInv
<1>1. FeedInit => WriterInv
  BY InitWriter DEF FeedInit
<1>2. WriterInv /\ [FeedNext]_all => WriterInv'
  BY StepWriter, FeedStepIsTaskStep
<1> QED  BY <1>1, <1>2, PTL DEF FeedSpec

\* A task is shown as completed only if its work has succeeded and as canceled
\* only if its workflow was canceled, although the handler, the workflow and
\* any number of requests write copies of the record that may be old.
THEOREM TruthfulStatusHolds == FeedSpec => []TruthfulStatus
<1>1. WriterInv => TruthfulStatus
  BY DEF WriterInv, StatusTrue, TruthfulStatus
<1> QED  BY <1>1, AlwaysWriter, PTL

-----------------------------------------------------------------------------
(***************************************************************************)
(* A workflow that has heard of a cancellation ends its task.              *)
(***************************************************************************)

\* The workflow was canceled, by one request, and the record is still there.
Heard == signaled /\ ~Gone /\ OneRequest

\* Only the handler links the task, and a request goes on only with a link:
\* the handler is done when a request writes.
LinkedByHandler ==
    /\ record.linked => pc[Handler] = "done"
    /\ \A w \in Writer \ {Handler} : copy[w].linked => pc[Handler] = "done"
    /\ \A c \in Canceler : pc[c] \in {"reread", "write", "signal", "done"} => pc[Handler] = "done"

\* Then the deferred function is the only one left to write.
LastToWrite ==
    /\ signaled => \E c \in Canceler : pc[c] = "done"
    /\ phase = "cancel" /\ pc[Workflow] \in {"reread", "write"}
        => copy[Workflow].status \in Completed
    /\ Heard /\ phase = "cancel" /\ pc[Workflow] = "write" => seen[Workflow] = version
    /\ Heard /\ phase = "done" => record.status \in Completed

HeardInv == WriterInv /\ LinkedByHandler /\ LastToWrite

LEMMA InitHeard == Init => HeardInv
<1> SUFFICES ASSUME Init PROVE HeardInv
  OBVIOUS
<1>1. ~NewTask.linked
  BY DEF NewTask
<1>2. LinkedByHandler
  BY <1>1, WritersDiffer DEF Init, LinkedByHandler
<1>3. LastToWrite
  BY DEF Init, LastToWrite, Heard
<1> QED  BY <1>2, <1>3, InitWriter DEF HeardInv

\* What was heard is not unheard, but a request may have overwritten the result.
LEMMA StaysHeard ==
  ASSUME TypeOK, TypeOK', Gone => Gone',
         \A c \in Canceler : pc[c] \in {"signal", "done"} => pc'[c] \in {"signal", "done"}
  PROVE  Heard' /\ signaled => Heard
  BY DEF Heard, OneRequest

\* Nothing of the record changes, and nothing of the workflow or its cancellation.
LEMMA QuietHeard ==
  ASSUME HeardInv, WriterInv', UNCHANGED <<record, version, phase, signaled>>,
         pc'[Workflow] = pc[Workflow], copy'[Workflow] = copy[Workflow],
         seen'[Workflow] = seen[Workflow],
         \A c \in Canceler : pc[c] \in {"signal", "done"} => pc'[c] \in {"signal", "done"},
         \A c \in Canceler : pc[c] = "done" => pc'[c] = "done"
  PROVE  LastToWrite'
<1>1. Heard' => Heard
  BY StaysHeard DEF HeardInv, WriterInv, Gone, Heard
<1> QED  BY <1>1 DEF HeardInv, LastToWrite

\* The handler.
LEMMA HandlerHeard ==
  ASSUME HeardInv, WriterInv', CreateWorkflow \/ LinkTask
  PROVE  HeardInv'
<1> USE WritersDiffer
<1>0. TypeOK /\ LinkedByHandler /\ LastToWrite /\ PhaseTrue
  BY DEF HeardInv, WriterInv
<1>1. \A c \in Canceler : pc'[c] = pc[c]
  BY <1>0 DEF CreateWorkflow, LinkTask, Goto, TypeOK
<1>2. ~signaled /\ \A c \in Canceler : pc[c] \notin {"reread", "write", "signal", "done"}
  BY <1>0 DEF CreateWorkflow, LinkTask, LinkedByHandler, LastToWrite
<1>3. signaled' = signaled
  BY DEF CreateWorkflow, LinkTask
<1>4. LinkedByHandler'
  <2>1. CASE CreateWorkflow
    <3>1. /\ \A w \in Writer \ {Handler} : copy'[w] = copy[w]
          /\ record' = record /\ pc[Handler] # "done"
      BY <1>0, <2>1 DEF CreateWorkflow, TypeOK
    <3> QED  BY <1>0, <1>1, <1>2, <3>1 DEF LinkedByHandler
  <2>2. CASE LinkTask
    <3>1. \A w \in Writer \ {Handler} : copy'[w] = copy[w]
      BY <1>0, <2>2, ForgetType DEF LinkTask
    <3>2. record' = record \/ pc'[Handler] = "done"
      BY <1>0, <2>2 DEF LinkTask, Write, Goto, TypeOK
    <3>3. pc[Handler] # "done"
      BY <2>2 DEF LinkTask
    <3> QED  BY <1>0, <1>1, <1>2, <3>1, <3>2, <3>3 DEF LinkedByHandler
  <2> QED  BY <2>1, <2>2
<1>5. phase' # "cancel"
  BY <1>0, <1>2, <1>3 DEF CreateWorkflow, LinkTask, PhaseTrue
<1>6. LastToWrite'
  BY <1>2, <1>3, <1>5 DEF LastToWrite, Heard
<1> QED  BY <1>4, <1>6 DEF HeardInv

\* The workflow.
LEMMA WorkflowHeard ==
  ASSUME HeardInv, WriterInv', NEW result \in {"success", "error"},
         GetTask \/ UpdateTask \/ Work(result) \/ Exit
  PROVE  HeardInv'
<1> USE WritersDiffer
<1>0. TypeOK /\ TypeOK' /\ LinkedByHandler /\ LastToWrite /\ PhaseTrue
  BY DEF HeardInv, WriterInv
<1>1. \A w \in Writer \ {Workflow} : pc'[w] = pc[w]
  BY <1>0 DEF GetTask, UpdateTask, Work, Exit, Enter, Goto, TypeOK
<1>2. signaled' = signaled
  BY DEF GetTask, UpdateTask, Work, Exit
<1>3. Heard' => Heard
  <2>1. Gone => Gone'
    BY DEF GetTask, UpdateTask, Work, Exit, Write, Conflict, Gone
  <2> QED  BY <1>0, <1>1, <1>2, <2>1, StaysHeard DEF Heard
<1>4. CASE GetTask /\ (Gone \/ ~CanStart)
  <2>1. Enter(AfterUpdate(TRUE)) /\ UNCHANGED <<copy, seen, record, version>>
    BY <1>4 DEF GetTask
  <2>2. phase \in Updating
    BY <1>0, <1>4 DEF GetTask, PhaseTrue
  <2>3. AfterUpdate(TRUE) # "cancel" /\ (AfterUpdate(TRUE) = "done" => phase = "cancel")
    BY <2>2 DEF AfterUpdate, Updating
  <2>4. phase' # "cancel" /\ (phase' = "done" => phase = "cancel")
    BY <2>1, <2>3 DEF Enter
  <2>5. phase' = "done" => Gone'
    BY <1>4, <2>1, <2>4 DEF CanStart, Gone
  <2>6. LinkedByHandler'
    BY <1>0, <1>1, <2>1 DEF LinkedByHandler
  <2>7. LastToWrite'
    BY <1>0, <1>1, <1>2, <2>4, <2>5 DEF LastToWrite, Heard
  <2> QED  BY <2>6, <2>7 DEF HeardInv
<1>5. CASE GetTask /\ ~Gone /\ CanStart
  <2>1. /\ copy' = [copy EXCEPT ![Workflow] = Update(record, Target)]
        /\ Goto(Workflow, "reread") /\ pc[Workflow] = "get"
        /\ UNCHANGED <<phase, record, version, seen>>
    BY <1>5 DEF GetTask
  <2>2. phase \in Updating
    BY <1>0, <2>1 DEF PhaseTrue
  <2>3. copy'[Workflow] = Update(record, Target) /\ pc'[Workflow] = "reread"
        /\ \A w \in Writer \ {Workflow} : copy'[w] = copy[w]
    BY <1>0, <2>1 DEF TypeOK, Goto
  <2>4. Update(record, Target).linked = record.linked
    BY <1>0 DEF Update, TypeOK, Task
  <2>5. phase = "cancel" => Update(record, Target).status \in Completed
    <3>1. phase = "cancel" => Target = "canceled"
      BY DEF Target
    <3> QED  BY <1>0, <3>1, UpdateKeeps DEF TypeOK, Completed, Status
  <2>6. LinkedByHandler'
    BY <1>0, <1>1, <2>1, <2>3, <2>4 DEF LinkedByHandler
  <2>7. LastToWrite'
    BY <1>0, <1>1, <1>2, <1>3, <2>1, <2>2, <2>3, <2>5 DEF LastToWrite, Updating
  <2> QED  BY <2>6, <2>7 DEF HeardInv
<1>6. CASE UpdateTask
  <2>1. Enter(AfterUpdate(Conflict(Workflow))) /\ Write(Workflow) /\ pc[Workflow] = "write"
    BY <1>6 DEF UpdateTask
  <2>2. phase \in Updating
    BY <1>0, <2>1 DEF PhaseTrue
  <2> DEFINE next == AfterUpdate(Conflict(Workflow))
  <2>3. next # "cancel" /\ (next = "done" => phase = "cancel")
    BY <2>2 DEF AfterUpdate, Updating
  <2>4. phase' # "cancel" /\ (phase' = "done" => phase = "cancel")
    <3>1. phase' = next
      BY <2>1 DEF Enter
    <3> QED  BY <2>3, <3>1
  <2>5. /\ copy'[Workflow] = NewTask /\ ~NewTask.linked
        /\ \A w \in Writer \ {Workflow} : copy'[w] = copy[w]
    BY <1>0, <1>6, ForgetType DEF UpdateTask
  <2>6. LinkedByHandler'
    BY <1>0, <1>1, <2>1, <2>5 DEF LinkedByHandler, Write
  <2>7. Heard' /\ phase' = "done" => record'.status \in Completed
    BY <1>0, <1>3, <2>1, <2>4 DEF LastToWrite, Write, Conflict, Heard
  <2>8. LastToWrite'
    BY <1>0, <1>1, <1>2, <2>4, <2>7 DEF LastToWrite
  <2> QED  BY <2>6, <2>8 DEF HeardInv
<1>7. CASE Work(result) \/ Exit
  <2>1. UNCHANGED <<record, version, copy, seen>>
    BY <1>7 DEF Work, Exit
  <2>2. pc'[Workflow] \notin {"reread", "write"} /\ (phase' = "done" => ~signaled)
    BY <1>0, <1>7 DEF Work, Exit, Enter, AfterWork, Goto, TypeOK
  <2>3. LinkedByHandler'
    BY <1>0, <1>1, <2>1 DEF LinkedByHandler
  <2>4. LastToWrite'
    BY <1>0, <1>1, <1>2, <2>2 DEF LastToWrite, Heard
  <2> QED  BY <2>3, <2>4 DEF HeardInv
<1> QED  BY <1>4, <1>5, <1>6, <1>7

\* A writer reads the version.
LEMMA RereadHeard ==
  ASSUME HeardInv, WriterInv', NEW w \in Writer, Reread(w)
  PROVE  HeardInv'
<1> USE WritersDiffer
<1>0. TypeOK /\ LinkedByHandler /\ LastToWrite
  BY DEF HeardInv, WriterInv
<1>1. /\ pc[w] = "reread" /\ pc'[w] = "write" /\ seen'[w] = version
      /\ \A v \in Writer : v # w => pc'[v] = pc[v] /\ seen'[v] = seen[v]
      /\ UNCHANGED <<record, version, copy, phase, signaled>>
  BY <1>0 DEF Reread, Goto, TypeOK
<1>2. LinkedByHandler'
  BY <1>0, <1>1 DEF LinkedByHandler
<1>3. Heard' => Heard
  BY <1>1, StaysHeard DEF HeardInv, WriterInv, Gone, Heard
<1>4. LastToWrite'
  BY <1>0, <1>1, <1>3 DEF LastToWrite
<1> QED  BY <1>2, <1>4 DEF HeardInv

\* A request: it may overwrite a result, and then the workflow has heard of two
\* requests or has not heard of it yet.
LEMMA CancelerHeard ==
  ASSUME HeardInv, WriterInv', NEW c \in Canceler,
         CheckStatus(c) \/ GetForCancel(c) \/ SetCanceling(c) \/ Signal(c)
  PROVE  HeardInv'
<1> USE WritersDiffer
<1>0. TypeOK /\ TypeOK' /\ LinkedByHandler /\ LastToWrite /\ PhaseTrue
  BY DEF HeardInv, WriterInv
<1>1. \A w \in Writer : w # c => pc'[w] = pc[w]
  BY <1>0 DEF CheckStatus, GetForCancel, SetCanceling, Signal, Goto, TypeOK
<1>2. \A w \in Writer : w # c => copy'[w] = copy[w] /\ seen'[w] = seen[w]
  BY <1>0, ForgetType DEF CheckStatus, GetForCancel, SetCanceling, Signal, TypeOK
<1>3. phase' = phase /\ pc[c] # "done"
  BY DEF CheckStatus, GetForCancel, SetCanceling, Signal
<1>4. CASE CheckStatus(c) \/ GetForCancel(c)
  <2>1. UNCHANGED <<record, version, signaled>> /\ pc[c] \in {"idle", "get"}
    BY <1>4 DEF CheckStatus, GetForCancel
  <2>2. LastToWrite'
    BY <1>1, <1>2, <1>3, <2>1, QuietHeard
  <2>3. /\ pc'[c] \in {"get", "refused", "reread"} /\ (pc'[c] = "reread" => record.linked)
        /\ copy'[c] = copy[c] \/ copy'[c].linked = record.linked
    BY <1>0, <1>4 DEF CheckStatus, GetForCancel, Goto, TypeOK, Task
  <2>4. LinkedByHandler'
    BY <1>0, <1>1, <1>2, <2>1, <2>3 DEF LinkedByHandler
  <2> QED  BY <2>2, <2>4 DEF HeardInv
<1>5. CASE SetCanceling(c)
  <2>1. /\ pc[c] = "write" /\ Write(c) /\ signaled' = signaled
        /\ pc'[c] = IF Conflict(c) THEN "error" ELSE "signal"
        /\ ~copy'[c].linked
    BY <1>0, <1>5, ForgetType DEF SetCanceling, Goto, TypeOK
  <2>2. pc[Handler] = "done"
    BY <1>0, <2>1 DEF LinkedByHandler
  <2>3. LinkedByHandler'
    BY <1>1, <2>2 DEF LinkedByHandler
  <2>4. CASE Conflict(c)
    <3>1. UNCHANGED <<record, version>>
      BY <2>1, <2>4 DEF Write
    <3> QED  BY <1>1, <1>2, <1>3, <2>1, <2>3, <3>1, QuietHeard DEF HeardInv
  <2>5. CASE ~Conflict(c)
    <3>1. signaled => ~OneRequest'
      BY <1>0, <1>1, <1>3, <2>1, <2>5 DEF LastToWrite, OneRequest
    <3>2. LastToWrite'
      BY <1>0, <1>1, <1>2, <1>3, <2>1, <3>1 DEF LastToWrite, Heard
    <3> QED  BY <2>3, <3>2 DEF HeardInv
  <2> QED  BY <2>4, <2>5
<1>6. CASE Signal(c)
  <2>1. /\ pc[c] = "signal" /\ pc'[c] = "done" /\ UNCHANGED <<record, version, copy, seen>>
        /\ signaled' = (signaled \/ phase # "done")
    BY <1>0, <1>6 DEF Signal, Goto, TypeOK
  <2>2. LinkedByHandler'
    BY <1>0, <1>1, <2>1 DEF LinkedByHandler
  <2>3. Heard' /\ signaled => Heard
    BY <1>0, <1>1, <2>1, StaysHeard DEF Gone
  <2>4. signaled \/ phase # "cancel"
    BY <1>0 DEF PhaseTrue
  <2>5. LastToWrite'
    BY <1>0, <1>1, <1>3, <2>1, <2>3, <2>4 DEF LastToWrite, Heard
  <2> QED  BY <2>2, <2>5 DEF HeardInv
<1> QED  BY <1>4, <1>5, <1>6

LEMMA StepHeard == HeardInv /\ [Next]_vars => HeardInv'
<1> SUFFICES ASSUME HeardInv, [Next]_vars PROVE HeardInv'
  OBVIOUS
<1>0. WriterInv'
  BY StepWriter DEF HeardInv
<1>1. CASE UNCHANGED vars
  BY <1>0, <1>1 DEF vars, HeardInv, LinkedByHandler, LastToWrite, Heard, OneRequest, Gone
<1>2. CASE GetTask \/ UpdateTask \/ Exit
  BY <1>0, <1>2, WorkflowHeard
<1>3. CASE DeleteTask
  <2>1. Gone' /\ ~record'.linked /\ UNCHANGED <<copy, pc, phase, signaled>>
    BY <1>3 DEF DeleteTask, Gone, NewTask
  <2>2. LinkedByHandler' /\ LastToWrite'
    BY <2>1 DEF HeardInv, LinkedByHandler, LastToWrite, Heard
  <2> QED  BY <1>0, <2>2 DEF HeardInv
<1> QED  BY <1>0, <1>1, <1>2, <1>3, HandlerHeard, WorkflowHeard, RereadHeard, CancelerHeard DEF Next

\* When the workflow of a task has heard of a cancellation and is done, the
\* record shows a result, for any interleaving of the handler, the workflow, and
\* requests of which one gets through: the last write is the workflow's.
THEOREM HeardMeansEndedHolds == FeedSpec => []HeardMeansEnded
<1>1. FeedInit => HeardInv
  BY InitHeard DEF FeedInit
<1>2. HeardInv /\ [FeedNext]_all => HeardInv'
  BY StepHeard, FeedStepIsTaskStep
<1>3. HeardInv => HeardMeansEnded
  BY DEF HeardInv, LastToWrite, Heard, HeardMeansEnded
<1> QED  BY <1>1, <1>2, <1>3, PTL DEF FeedSpec

-----------------------------------------------------------------------------
(***************************************************************************)
(* What the activities are told                                            *)
(***************************************************************************)

\* An event ends a watch with one of three answers, or not.
LEMMA ResultType ==
  ASSUME NEW status \in W!Status
  PROVE  /\ W!Result(status) \in W!Answer \cup {"none"}
         /\ W!Result(status) = "completed" => status = "completed"
         /\ W!Result(status) = "failed" => status = "failed"
         /\ W!Result(status) = "canceled" => status \in {"canceling", "canceled", "deleted"}
  BY DEF W!Result, W!Status, W!Answer

LEMMA InitFeed == FeedInit => FeedInv
<1> SUFFICES ASSUME FeedInit PROVE FeedInv
  OBVIOUS
<1>1. WriterInv /\ phase = "none"
  BY InitWriter DEF FeedInit, Init
<1>2. Len(log) = 1 /\ log \in Seq(W!Status) /\ \A i \in 1 .. Len(log) : log[i] = "pending"
  BY DEF FeedInit, W!Init, W!Status
<1>3. W!Result("pending") = "none"
  BY DEF W!Result
<1>4. \A s \in 1 .. MaxShared : shared[s] = W!NotCreated
  BY DEF FeedInit, W!Init
<1>5. \A c \in Caller : watcher[c] = W!NoWatcher
  BY DEF FeedInit, W!Init
<1>6. W!NotCreated \in W!Shared /\ W!NoWatcher \in W!Watcher
  BY <1>2, BoundsAreNat DEF W!NotCreated, W!NoWatcher, W!Shared, W!Watcher, W!Answer
<1>7. W!TypeOK
  BY <1>2, <1>6, BoundsAreNat DEF FeedInit, W!Init, W!TypeOK
<1>8. LogJustified
  BY <1>2, <1>3 DEF LogJustified, Justified, W!Current, Gone, FeedInit, Init
<1>9. AnswersJustified
  BY <1>4, <1>5 DEF AnswersJustified, Justified, W!NotCreated, W!NoWatcher
<1>10. RegistryIsOpen /\ SubsAreWaiting /\ StreamHasUser
  BY <1>4, <1>5 DEF RegistryIsOpen, SubsAreWaiting, StreamHasUser, W!NotCreated, W!NoWatcher,
     FeedInit, W!Init
<1> QED  BY <1>1, <1>7, <1>8, <1>9, <1>10 DEF FeedInv

\* A record that is gone stays so, and only a writer whose version is current
\* changes one.
LEMMA GoneStays ==
  ASSUME WriterInv, [Next]_vars, version' # version
  PROVE  ~Gone
  BY DEF Next, vars, CreateWorkflow, LinkTask, GetTask, UpdateTask, Exit, Work, Reread, Write,
     CheckStatus, GetForCancel, SetCanceling, Signal, DeleteTask, Conflict

\* What justifies an answer is not taken back by a writer.
LEMMA WriterMonotone ==
  ASSUME WriterInv, [Next]_vars
  PROVE  /\ outcome = "success" => outcome' = "success"
         /\ phase \notin Early => phase' \notin Early
         /\ CancelAsked => CancelAsked'
<1> USE WritersDiffer
<1>0. TypeOK /\ PhaseTrue
  BY DEF WriterInv
<1>1. outcome = "success" => outcome' = "success"
  BY <1>0 DEF Next, vars, CreateWorkflow, LinkTask, GetTask, UpdateTask, Exit, Work, Reread,
     CheckStatus, GetForCancel, SetCanceling, Signal, DeleteTask, PhaseTrue, Early
<1>2. phase \notin Early => phase' \notin Early
  <2>1. CASE GetTask \/ UpdateTask
    <3>1. phase \in Updating
      BY <1>0, <2>1 DEF GetTask, UpdateTask, PhaseTrue
    <3>2. \A failed \in BOOLEAN : phase \notin Early => AfterUpdate(failed) \in {"fail", "exit", "done"}
      BY <3>1 DEF AfterUpdate, Updating, Early
    <3>3. Conflict(Workflow) \in BOOLEAN
      BY DEF Conflict
    <3>4. phase' = phase \/ phase' = AfterUpdate(TRUE) \/ phase' = AfterUpdate(Conflict(Workflow))
      BY <2>1 DEF GetTask, UpdateTask, Enter
    <3> QED  BY <3>2, <3>3, <3>4 DEF Early
  <2>2. CASE Exit \/ \E result \in {"success", "error"} : Work(result)
    BY <2>2 DEF Exit, Work, Enter, AfterWork, Early
  <2>3. CASE CreateWorkflow
    BY <1>0, <2>3 DEF CreateWorkflow, PhaseTrue, Early
  <2>4. CASE UNCHANGED phase
    BY <2>4
  <2> QED  BY <2>1, <2>2, <2>3, <2>4 DEF Next, vars, LinkTask, Reread, CheckStatus, GetForCancel,
              SetCanceling, Signal, DeleteTask
<1>3. ASSUME NEW c \in Canceler, pc[c] \in {"signal", "done"}
      PROVE  pc'[c] \in {"signal", "done"}
  BY <1>0, <1>3 DEF Next, vars, CreateWorkflow, LinkTask, GetTask, UpdateTask, Exit, Work, Reread,
     CheckStatus, GetForCancel, SetCanceling, Signal, DeleteTask, Enter, Goto, TypeOK
<1>4. CancelAsked => CancelAsked'
  BY <1>3 DEF CancelAsked
<1> QED  BY <1>1, <1>2, <1>4

\* The log stays as it is.
LEMMA LogStays ==
  ASSUME FeedInv, WriterInv', UNCHANGED feed, log' = log, version' = version,
         outcome = "success" => outcome' = "success",
         phase \notin Early => phase' \notin Early,
         CancelAsked => CancelAsked'
  PROVE  FeedInv'
<1>0. W!TypeOK /\ LogJustified /\ AnswersJustified
  BY DEF FeedInv
<1>1. W!Current' = W!Current /\ Gone' = Gone
  BY DEF W!Current, Gone
<1>2. ASSUME NEW answer, Justified(answer)
      PROVE  /\ answer = "completed" => outcome' = "success"
             /\ answer = "failed" => phase' \notin Early
             /\ answer = "canceled" => CancelAsked' \/ W!Current' = "deleted"
  BY <1>1, <1>2 DEF Justified
<1>3. AnswersJustified'
  BY <1>0, <1>2 DEF AnswersJustified, Justified, feed
<1>4. RegistryIsOpen' /\ SubsAreWaiting' /\ StreamHasUser'
  BY DEF FeedInv, RegistryIsOpen, SubsAreWaiting, StreamHasUser, feed
<1>5. W!TypeOK'
  BY <1>0 DEF W!TypeOK, feed, W!Shared, W!Watcher
<1>6. LogJustified'
  <2>1. \A i \in 1 .. Len(log) : Justified(W!Result(log[i]))'
    <3> SUFFICES ASSUME NEW i \in 1 .. Len(log)
                 PROVE  Justified(W!Result(log[i]))'
      OBVIOUS
    <3>1. Justified(W!Result(log[i])) /\ W!Result(log[i])' = W!Result(log[i])
      BY <1>0 DEF LogJustified, W!Result
    <3> QED  BY <1>2, <3>1 DEF Justified
  <2> QED  BY <1>0, <1>1, <2>1 DEF LogJustified
<1> QED  BY <1>3, <1>4, <1>5, <1>6 DEF FeedInv

\* The log grows by an event that is justified.
LEMMA LogGrows ==
  ASSUME FeedInv, WriterInv', UNCHANGED feed, ~Gone,
         outcome = "success" => outcome' = "success",
         phase \notin Early => phase' \notin Early,
         CancelAsked => CancelAsked',
         NEW status \in W!Status,
         log' = Append(log, status),
         status = "completed" => outcome' = "success",
         status = "failed" => phase' \notin Early,
         status \in {"canceling", "canceled"} => CancelAsked',
         status = "deleted" <=> Gone'
  PROVE  FeedInv'
<1>0. W!TypeOK /\ LogJustified /\ AnswersJustified /\ W!Current # "deleted"
  BY DEF FeedInv, LogJustified
<1>1. log \in Seq(W!Status) /\ Len(log) \in Nat /\ Len(log) > 0
  BY <1>0 DEF W!TypeOK, LogJustified
<1>2. ASSUME NEW answer, Justified(answer)
      PROVE  /\ answer = "completed" => outcome' = "success"
             /\ answer = "failed" => phase' \notin Early
             /\ answer = "canceled" => CancelAsked'
  BY <1>0, <1>2 DEF Justified
<1>3. AnswersJustified'
  BY <1>0, <1>2 DEF AnswersJustified, Justified, feed
<1>4. RegistryIsOpen' /\ SubsAreWaiting' /\ StreamHasUser'
  BY DEF FeedInv, RegistryIsOpen, SubsAreWaiting, StreamHasUser, feed
<1>5. /\ log' \in Seq(W!Status) /\ Len(log') = Len(log) + 1
      /\ log'[Len(log')] = status
      /\ \A i \in 1 .. Len(log) : log'[i] = log[i]
  BY <1>1
<1>6. W!Current' = status
  BY <1>5 DEF W!Current
<1>7. W!Shared \subseteq W!Shared' /\ W!Watcher' = W!Watcher
  BY <1>1, <1>5 DEF W!Shared, W!Watcher
<1>8. W!TypeOK'
  BY <1>0, <1>5, <1>7 DEF W!TypeOK, feed
<1>9. ASSUME NEW i \in 1 .. Len(log')
      PROVE  Justified(W!Result(log[i]))'
  <2>1. CASE i \in 1 .. Len(log)
    <3>1. Justified(W!Result(log[i])) /\ log'[i] = log[i]
      BY <1>0, <1>5, <2>1 DEF LogJustified
    <3>2. W!Result(log[i])' = W!Result(log[i])
      BY <3>1 DEF W!Result
    <3> QED  BY <1>2, <3>1, <3>2 DEF Justified
  <2>2. CASE i = Len(log')
    <3>1. W!Result(log[i])' = W!Result(status)
      BY <1>5, <2>2 DEF W!Result
    <3> QED  BY <1>6, <3>1, ResultType DEF Justified
  <2> QED  BY <1>1, <1>5, <2>1, <2>2
<1>10. LogJustified'
  BY <1>1, <1>5, <1>6, <1>9 DEF LogJustified
<1> QED  BY <1>3, <1>4, <1>8, <1>10 DEF FeedInv

\* The writers, and the deletion of the task.
LEMMA WriterFeed ==
  ASSUME FeedInv, WriterStep
  PROVE  FeedInv'
<1>1. WriterInv /\ WriterInv' /\ [Next]_vars
  BY StepWriter DEF FeedInv, WriterStep
<1>2. UNCHANGED feed
  BY DEF WriterStep
<1>3. CASE version' = version
  BY <1>1, <1>2, <1>3, WriterMonotone, LogStays DEF WriterStep
<1>4. CASE version' # version
  <2> DEFINE status == IF version' = 0 THEN "deleted" ELSE record'.status
  <2>1. ~Gone
    BY <1>1, <1>4, GoneStays
  <2>2. record'.status \in Status /\ Status \subseteq W!Status /\ record'.status # "deleted"
    BY <1>1 DEF WriterInv, TypeOK, Task, Status, Completed, W!Status
  <2>3. status \in W!Status /\ (status = "deleted" <=> Gone')
    BY <2>2 DEF Gone, W!Status
  <2>4. StatusTrue(record.status)' /\ (signaled' => CancelAsked')
    BY <1>1 DEF WriterInv, PhaseTrue
  <2>5. /\ status = "completed" => outcome' = "success"
        /\ status = "failed" => phase' \notin Early
        /\ status \in {"canceling", "canceled"} => CancelAsked'
    BY <2>4 DEF StatusTrue
  <2>6. log' = Append(log, status)
    BY <1>4 DEF WriterStep
  <2> HIDE DEF status
  <2> QED  BY <1>1, <1>2, <2>1, <2>3, <2>5, <2>6, WriterMonotone, LogGrows
<1> QED  BY <1>3, <1>4

\* The watchers leave the writers and the log alone.
LEMMA WatcherKeeps ==
  ASSUME FeedInv, UNCHANGED <<vars, log>>, W!TypeOK', RegistryIsOpen', SubsAreWaiting',
         StreamHasUser',
         \A s \in 1 .. MaxShared : \/ shared'[s].terminal = shared[s].terminal
                                   \/ Justified(shared'[s].terminal),
         \A c \in Caller : Justified(watcher'[c].done)
  PROVE  FeedInv'
<1>1. /\ W!Current' = W!Current /\ CancelAsked' = CancelAsked
      /\ outcome' = outcome /\ phase' = phase
  BY DEF W!Current, CancelAsked, vars
<1>2. WriterInv'
  BY StepWriter DEF FeedInv
<1>3. LogJustified'
  BY <1>1 DEF FeedInv, LogJustified, Justified, W!Result, Gone, vars
<1>4. AnswersJustified'
  BY <1>1 DEF FeedInv, AnswersJustified, Justified
<1> QED  BY <1>2, <1>3, <1>4 DEF FeedInv

\* A shared watcher has its fields.
LEMMA SharedFields ==
  ASSUME W!TypeOK, NEW s \in 1 .. MaxShared
  PROVE  /\ shared[s] \in W!Shared
         /\ shared[s].pos \in 0 .. Len(log) /\ shared[s].subs \subseteq Caller
         /\ shared[s].terminal \in W!Answer \cup {"none"}
  BY DEF W!TypeOK, W!Shared

LEMMA WatcherType ==
  ASSUME W!TypeOK, log' = log, entry' \in 0 .. created', created' \in 0 .. MaxShared,
         shared' \in [1 .. MaxShared -> W!Shared], watcher' \in [Caller -> W!Watcher],
         errors' \in 0 .. MaxErrors
  PROVE  W!TypeOK'
<1>1. W!Shared' = W!Shared /\ W!Watcher' = W!Watcher
  BY DEF W!Shared, W!Watcher
<1> QED  BY <1>1 DEF W!TypeOK

\* NewWatcher joins the stream that the registry holds.
LEMMA AcquireSharedFeed ==
  ASSUME FeedInv, NEW c \in Caller, UNCHANGED vars, W!AcquireShared(c)
  PROVE  FeedInv'
<1>0. W!TypeOK /\ AnswersJustified /\ RegistryIsOpen /\ SubsAreWaiting /\ StreamHasUser
  BY DEF FeedInv
<1>1. entry \in 1 .. MaxShared /\ Len(log) \in Nat
  BY <1>0, BoundsAreNat DEF W!TypeOK, W!AcquireShared
<1> DEFINE sub == W!Subscription(entry, shared[entry].terminal, shared[entry].reported)
<1>2. /\ sub \in W!Watcher
      /\ sub.pc = "waiting" /\ sub.of = entry /\ sub.done = shared[entry].terminal
  BY <1>0, <1>1, SharedFields DEF W!Subscription, W!Watcher
<1> HIDE DEF sub
<1>3. /\ watcher' = [watcher EXCEPT ![c] = sub]
      /\ watcher'[c] = sub /\ \A q \in Caller : q # c => watcher'[q] = watcher[q]
  BY <1>0 DEF W!AcquireShared, W!TypeOK, sub
<1>4. \A s \in 1 .. MaxShared :
        /\ shared'[s] \in W!Shared
        /\ shared'[s].step = shared[s].step /\ shared'[s].terminal = shared[s].terminal
        /\ shared'[s].subs = IF s = entry THEN shared[s].subs \cup {c} ELSE shared[s].subs
  <2>1. shared \in [1 .. MaxShared -> W!Shared]
    BY <1>0 DEF W!TypeOK
  <2>2. shared' = [shared EXCEPT ![entry].subs = @ \cup {c}]
    BY DEF W!AcquireShared
  <2>3. \A s \in 1 .. MaxShared : shared'[s] \in W!Shared
    BY <1>1, <2>1, <2>2 DEF W!Shared
  <2>4. \A s \in 1 .. MaxShared :
          /\ shared'[s].step = shared[s].step /\ shared'[s].terminal = shared[s].terminal
          /\ shared'[s].subs = IF s = entry THEN shared[s].subs \cup {c} ELSE shared[s].subs
    BY <1>1, <2>1, <2>2 DEF W!Shared
  <2> QED  BY <2>3, <2>4
<1>5. W!TypeOK'
  <2>1. shared' \in [1 .. MaxShared -> W!Shared]
    BY <1>0, <1>4 DEF W!AcquireShared, W!TypeOK
  <2>2. watcher' \in [Caller -> W!Watcher]
    BY <1>0, <1>2, <1>3 DEF W!TypeOK
  <2> QED  BY <1>0, <2>1, <2>2, WatcherType DEF W!AcquireShared, W!TypeOK
<1>6. RegistryIsOpen'
  BY <1>0, <1>4 DEF W!AcquireShared, RegistryIsOpen
<1>7. SubsAreWaiting'
  <2>0. \A q \in Caller : watcher'[q].pc # "idle" => watcher'[q].of \in 1 .. created'
    BY <1>0, <1>1, <1>2, <1>3 DEF SubsAreWaiting, W!AcquireShared, W!TypeOK
  <2> SUFFICES ASSUME NEW s \in 1 .. MaxShared, NEW q \in Caller
               PROVE  q \in shared'[s].subs <=> watcher'[q].pc = "waiting" /\ watcher'[q].of = s
    BY <2>0 DEF SubsAreWaiting
  <2>1. q \in shared[s].subs <=> watcher[q].pc = "waiting" /\ watcher[q].of = s
    BY <1>0 DEF SubsAreWaiting
  <2>2. watcher[c].pc = "idle"
    BY DEF W!AcquireShared
  <2>3. CASE q = c
    <3>1. watcher'[q].pc = "waiting" /\ watcher'[q].of = entry /\ q \notin shared[s].subs
      BY <1>2, <1>3, <2>1, <2>2, <2>3
    <3>2. q \in shared'[s].subs <=> s = entry
      BY <1>4, <2>3, <3>1
    <3> QED  BY <3>1, <3>2
  <2>4. CASE q # c
    BY <1>3, <1>4, <2>1, <2>4
  <2> QED  BY <2>3, <2>4
<1>8. StreamHasUser'
  BY <1>0, <1>3, <1>4 DEF W!AcquireShared, StreamHasUser
<1>9. \A q \in Caller : Justified(watcher'[q].done)
  BY <1>0, <1>1, <1>2, <1>3 DEF AnswersJustified
<1> QED  BY <1>4, <1>5, <1>6, <1>7, <1>8, <1>9, WatcherKeeps DEF W!AcquireShared

\* NewWatcher finds the registry empty and starts a stream.
LEMMA AcquireNewFeed ==
  ASSUME FeedInv, NEW c \in Caller, UNCHANGED vars, W!AcquireNew(c)
  PROVE  FeedInv'
<1>0. W!TypeOK /\ LogJustified /\ AnswersJustified /\ RegistryIsOpen /\ SubsAreWaiting /\ StreamHasUser
  BY DEF FeedInv
<1> DEFINE new == created + 1
           terminal == IF W!Current = "deleted" THEN "none" ELSE W!Result(W!Current)
           mine == W!NewShared(c, terminal)
           sub == W!Subscription(new, terminal, FALSE)
<1>1. new \in 1 .. MaxShared /\ Len(log) \in Nat /\ W!Current \in W!Status /\ created \in Nat
  BY <1>0, BoundsAreNat DEF W!TypeOK, W!AcquireNew, LogJustified, W!Current
<1>2. terminal \in W!Answer \cup {"none"} /\ Justified(terminal)
  <2>1. Justified(W!Result(W!Current))
    BY <1>0, <1>1 DEF LogJustified, W!Current, W!TypeOK
  <2>2. Justified("none")
    BY DEF Justified
  <2> QED  BY <1>1, <2>1, <2>2, ResultType
<1> HIDE DEF terminal
<1>3. /\ mine \in W!Shared
      /\ mine.subs = {c} /\ mine.terminal = terminal /\ mine.step = "open"
  BY <1>1, <1>2 DEF W!NewShared, W!Shared, W!LoadedAt
<1>4. /\ sub \in W!Watcher
      /\ sub.pc = "waiting" /\ sub.of = new /\ sub.done = terminal
  BY <1>1, <1>2 DEF W!Subscription, W!Watcher
<1>5. /\ created' = new /\ entry' = new /\ shared' = [shared EXCEPT ![new] = mine]
      /\ watcher' = [watcher EXCEPT ![c] = sub]
      /\ watcher[c].pc = "idle" /\ entry = 0 /\ UNCHANGED <<log, errors>>
  BY DEF W!AcquireNew, terminal
<1> HIDE DEF mine, sub
<1>6. /\ watcher'[c] = sub /\ \A q \in Caller : q # c => watcher'[q] = watcher[q]
      /\ shared'[new] = mine /\ \A s \in 1 .. MaxShared : s # new => shared'[s] = shared[s]
  BY <1>0, <1>1, <1>5 DEF W!TypeOK
<1> HIDE DEF new
<1>7. W!TypeOK'
  BY <1>0, <1>1, <1>3, <1>4, <1>5, WatcherType DEF W!TypeOK, new
<1>8. RegistryIsOpen'
  <2> SUFFICES ASSUME NEW s \in 1 .. MaxShared
               PROVE  /\ shared'[s].step = "open" <=> entry' = s
                      /\ shared'[s].step = "none" <=> s > created'
    BY DEF RegistryIsOpen
  <2>1. /\ shared[s].step = "open" <=> entry = s
        /\ shared[s].step = "none" <=> s > created
    BY <1>0 DEF RegistryIsOpen
  <2>2. CASE s = new
    BY <1>1, <1>3, <1>5, <1>6, <2>2
  <2>3. CASE s # new
    BY <1>1, <1>5, <1>6, <2>1, <2>3 DEF new
  <2> QED  BY <2>2, <2>3
<1>9. \A s \in 1 .. MaxShared : c \notin shared[s].subs
  BY <1>0, <1>5 DEF SubsAreWaiting
<1>10. \A q \in Caller : watcher[q].pc # "idle" => watcher[q].of # new /\ watcher[q].of \in 1 .. new
  BY <1>0, <1>1 DEF SubsAreWaiting, W!TypeOK, W!Watcher, new
<1>11. SubsAreWaiting'
  BY <1>0, <1>1, <1>3, <1>4, <1>5, <1>6, <1>9, <1>10 DEF SubsAreWaiting
<1>12. StreamHasUser'
  BY <1>0, <1>1, <1>4, <1>5, <1>6 DEF StreamHasUser
<1>13. /\ \A s \in 1 .. MaxShared : \/ shared'[s].terminal = shared[s].terminal
                                    \/ Justified(shared'[s].terminal)
       /\ \A q \in Caller : Justified(watcher'[q].done)
  BY <1>0, <1>2, <1>3, <1>4, <1>6 DEF AnswersJustified
<1> QED  BY <1>5, <1>7, <1>8, <1>11, <1>12, <1>13, WatcherKeeps

\* A step that subscribes and unsubscribes nobody.
LEMMA QuietWatcher ==
  ASSUME FeedInv, UNCHANGED <<vars, log, entry, created>>, errors' \in 0 .. MaxErrors,
         shared' \in [1 .. MaxShared -> W!Shared], watcher' \in [Caller -> W!Watcher],
         \A s \in 1 .. MaxShared :
             /\ shared'[s].subs = shared[s].subs
             /\ \/ shared'[s].step = shared[s].step
                \/ shared[s].step = "removed" /\ shared'[s].step = "closed"
             /\ \/ shared'[s].terminal = shared[s].terminal
                \/ Justified(shared'[s].terminal),
         \A c \in Caller : /\ watcher'[c].pc = watcher[c].pc /\ watcher'[c].of = watcher[c].of
                           /\ watcher'[c].done = watcher[c].done \/ Justified(watcher'[c].done)
  PROVE  FeedInv'
<1>0. W!TypeOK /\ AnswersJustified /\ RegistryIsOpen /\ SubsAreWaiting /\ StreamHasUser
  BY DEF FeedInv
<1>1. W!TypeOK'
  BY <1>0, WatcherType DEF W!TypeOK
<1>2. RegistryIsOpen'
  BY <1>0 DEF RegistryIsOpen
<1>3. SubsAreWaiting'
  BY <1>0 DEF SubsAreWaiting
<1>4. StreamHasUser'
  BY <1>0 DEF StreamHasUser
<1>5. \A c \in Caller : Justified(watcher'[c].done)
  BY <1>0 DEF AnswersJustified
<1> QED  BY <1>1, <1>2, <1>3, <1>4, <1>5, WatcherKeeps

\* Watcher.Close: whoever was subscribed last still has the stream to close.
LEMMA ReleaseFeed ==
  ASSUME FeedInv, NEW c \in Caller, UNCHANGED vars, W!Release(c)
  PROVE  FeedInv'
<1>0. W!TypeOK /\ AnswersJustified /\ RegistryIsOpen /\ SubsAreWaiting /\ StreamHasUser
  BY DEF FeedInv
<1> DEFINE of == watcher[c].of
           left == IF W!Last(c) THEN W!ClosingOf(of) ELSE W!NoWatcher
<1>1. watcher[c].pc = "waiting" /\ of \in 1 .. created /\ of \in 1 .. MaxShared
  BY <1>0, BoundsAreNat DEF W!TypeOK, W!Release, SubsAreWaiting
<1>2. /\ left \in W!Watcher /\ left.done = "none"
      /\ W!Last(c) => left.pc = "closing" /\ left.of = of
      /\ ~W!Last(c) => left.pc = "idle"
  <2>1. Len(log) \in Nat /\ MaxShared \in Nat
    BY <1>0, BoundsAreNat DEF W!TypeOK
  <2>2. CASE W!Last(c)
    <3>1. left = W!ClosingOf(of)
      BY <2>2
    <3>2. W!ClosingOf(of) \in W!Watcher
      BY <1>1, <2>1 DEF W!ClosingOf, W!Watcher
    <3> QED  BY <2>2, <3>1, <3>2 DEF W!ClosingOf
  <2>3. CASE ~W!Last(c)
    <3>1. left = W!NoWatcher
      BY <2>3
    <3> QED  BY <2>1, <2>3, <3>1 DEF W!NoWatcher, W!Watcher
  <2> QED  BY <2>2, <2>3
<1>3. /\ watcher' = [watcher EXCEPT ![c] = left]
      /\ shared' = [shared EXCEPT ![of].subs = @ \ {c}]
      /\ UNCHANGED <<log, entry, created, errors>>
  BY DEF W!Release
<1> HIDE DEF left
<1>4. watcher'[c] = left /\ \A q \in Caller : q # c => watcher'[q] = watcher[q]
  BY <1>0, <1>3 DEF W!TypeOK
<1>5. \A s \in 1 .. MaxShared :
        /\ shared'[s] \in W!Shared
        /\ shared'[s].step = shared[s].step /\ shared'[s].terminal = shared[s].terminal
        /\ shared'[s].subs = IF s = of THEN shared[s].subs \ {c} ELSE shared[s].subs
  <2> DEFINE without == [shared[of] EXCEPT !.subs = @ \ {c}]
  <2>1. shared[of] \in W!Shared /\ shared \in [1 .. MaxShared -> W!Shared]
    BY <1>0, <1>1 DEF W!TypeOK
  <2>2. /\ without \in W!Shared /\ without.step = shared[of].step
        /\ without.terminal = shared[of].terminal /\ without.subs = shared[of].subs \ {c}
    BY <2>1 DEF W!Shared
  <2>3. shared' = [shared EXCEPT ![of] = without]
    BY <1>3
  <2> QED  BY <2>1, <2>2, <2>3
<1>6. W!TypeOK'
  <2>1. shared' \in [1 .. MaxShared -> W!Shared]
    BY <1>0, <1>3, <1>5 DEF W!TypeOK
  <2>2. watcher' \in [Caller -> W!Watcher]
    BY <1>0, <1>2, <1>3 DEF W!TypeOK
  <2> QED  BY <1>0, <1>3, <2>1, <2>2, WatcherType DEF W!TypeOK
<1>7. RegistryIsOpen'
  BY <1>0, <1>3, <1>5 DEF RegistryIsOpen
<1>8. SubsAreWaiting'
  <2>1. \A q \in Caller : watcher'[q].pc # "idle" => watcher'[q].of \in 1 .. created'
    BY <1>0, <1>1, <1>2, <1>3, <1>4 DEF SubsAreWaiting
  <2> SUFFICES ASSUME NEW s \in 1 .. MaxShared, NEW q \in Caller
               PROVE  q \in shared'[s].subs <=> watcher'[q].pc = "waiting" /\ watcher'[q].of = s
    BY <2>1 DEF SubsAreWaiting
  <2>2. q \in shared[s].subs <=> watcher[q].pc = "waiting" /\ watcher[q].of = s
    BY <1>0 DEF SubsAreWaiting
  <2>3. CASE q = c
    <3>1. watcher'[q].pc # "waiting"
      BY <1>2, <1>4, <2>3
    <3>2. q \notin shared'[s].subs
      BY <1>5, <2>2, <2>3
    <3> QED  BY <3>1, <3>2
  <2>4. CASE q # c
    BY <1>4, <1>5, <2>2, <2>4
  <2> QED  BY <2>3, <2>4
<1>9. StreamHasUser'
  <2> SUFFICES ASSUME NEW s \in 1 .. MaxShared, shared[s].step \in {"open", "removed"}
               PROVE  \E q \in Caller : watcher'[q].of = s /\ watcher'[q].pc \in {"waiting", "closing"}
    BY <1>5 DEF StreamHasUser
  <2>1. PICK q \in Caller : watcher[q].of = s /\ watcher[q].pc \in {"waiting", "closing"}
    BY <1>0 DEF StreamHasUser
  <2>2. CASE q # c
    BY <1>4, <2>1, <2>2
  <2>3. CASE q = c /\ W!Last(c)
    BY <1>2, <1>4, <2>1, <2>3
  <2>4. CASE q = c /\ ~W!Last(c)
    <3>1. PICK p \in shared[of].subs : p # c
      BY <2>4 DEF W!Last
    <3>2. p \in Caller
      BY <1>0, <1>1, <3>1, SharedFields
    <3>3. watcher[p].pc = "waiting" /\ watcher[p].of = of
      BY <1>0, <1>1, <3>1, <3>2 DEF SubsAreWaiting
    <3> QED  BY <1>4, <2>1, <2>4, <3>1, <3>2, <3>3
  <2> QED  BY <2>2, <2>3, <2>4
<1>10. \A q \in Caller : Justified(watcher'[q].done)
  BY <1>0, <1>2, <1>4 DEF AnswersJustified, Justified
<1> QED  BY <1>3, <1>5, <1>6, <1>7, <1>8, <1>9, <1>10, WatcherKeeps

\* A caller returns from Close when the stream is closed.
LEMMA ClosedFeed ==
  ASSUME FeedInv, NEW c \in Caller, UNCHANGED vars, W!Closed(c)
  PROVE  FeedInv'
<1>0. W!TypeOK /\ AnswersJustified /\ RegistryIsOpen /\ SubsAreWaiting /\ StreamHasUser
  BY DEF FeedInv
<1>1. /\ W!NoWatcher \in W!Watcher
      /\ W!NoWatcher.done = "none" /\ W!NoWatcher.pc = "idle"
  BY <1>0, BoundsAreNat DEF W!NoWatcher, W!Watcher, W!TypeOK
<1>2. /\ watcher' = [watcher EXCEPT ![c] = W!NoWatcher]
      /\ watcher[c].pc = "closing" /\ shared[watcher[c].of].step = "closed"
      /\ UNCHANGED <<log, entry, created, shared, errors>>
  BY DEF W!Closed
<1>3. watcher'[c] = W!NoWatcher /\ \A q \in Caller : q # c => watcher'[q] = watcher[q]
  BY <1>0, <1>2 DEF W!TypeOK
<1>4. W!TypeOK'
  BY <1>0, <1>1, <1>2, WatcherType DEF W!TypeOK
<1>5. RegistryIsOpen'
  BY <1>0, <1>2 DEF RegistryIsOpen
<1>6. SubsAreWaiting'
  BY <1>0, <1>1, <1>2, <1>3 DEF SubsAreWaiting
<1>7. StreamHasUser'
  BY <1>0, <1>2, <1>3 DEF StreamHasUser
<1>8. \A q \in Caller : Justified(watcher'[q].done)
  BY <1>0, <1>1, <1>3 DEF AnswersJustified, Justified
<1> QED  BY <1>2, <1>4, <1>5, <1>6, <1>7, <1>8, WatcherKeeps

\* shutdown takes the stream out of the registry; only the stream that is there
\* can still be shut down.
LEMMA RemoveFeed ==
  ASSUME FeedInv, NEW s \in 1 .. MaxShared, UNCHANGED vars, W!Remove(s)
  PROVE  FeedInv'
<1>0. W!TypeOK /\ AnswersJustified /\ RegistryIsOpen /\ SubsAreWaiting /\ StreamHasUser
  BY DEF FeedInv
<1>1. /\ entry' = 0 /\ shared' = [shared EXCEPT ![s].step = "removed"]
      /\ shared[s].step = "open" /\ UNCHANGED <<log, created, watcher, errors>>
  BY DEF W!Remove
<1>2. entry = s
  BY <1>0, <1>1 DEF RegistryIsOpen
<1>3. \A q \in 1 .. MaxShared :
        /\ shared'[q] \in W!Shared
        /\ shared'[q].step = IF q = s THEN "removed" ELSE shared[q].step
        /\ shared'[q].terminal = shared[q].terminal /\ shared'[q].subs = shared[q].subs
  BY <1>0, <1>1 DEF W!TypeOK, W!Shared
<1>4. W!TypeOK'
  <2>1. shared' \in [1 .. MaxShared -> W!Shared]
    BY <1>0, <1>1, <1>3 DEF W!TypeOK
  <2> QED  BY <1>0, <1>1, <2>1, WatcherType DEF W!TypeOK
<1>5. RegistryIsOpen'
  BY <1>0, <1>1, <1>2, <1>3 DEF RegistryIsOpen
<1>6. SubsAreWaiting'
  BY <1>0, <1>1, <1>3 DEF SubsAreWaiting
<1>7. StreamHasUser'
  BY <1>0, <1>1, <1>3 DEF StreamHasUser
<1>8. \A q \in Caller : Justified(watcher'[q].done)
  BY <1>0, <1>1 DEF AnswersJustified
<1> QED  BY <1>1, <1>3, <1>4, <1>5, <1>6, <1>7, <1>8, WatcherKeeps

\* The other steps of a shared watcher and its goroutines.
LEMMA StreamFeed ==
  ASSUME FeedInv, NEW s \in 1 .. MaxShared, UNCHANGED vars,
         \/ W!CloseStream(s) \/ W!HandleEvent(s) \/ W!TakeError(s) \/ W!StreamFails(s)
         \/ \E c \in Caller : W!FinishOne(s, c) \/ W!SendError(s, c)
  PROVE  FeedInv'
<1>0. W!TypeOK /\ LogJustified /\ AnswersJustified
  BY DEF FeedInv
<1>1. /\ shared \in [1 .. MaxShared -> W!Shared] /\ watcher \in [Caller -> W!Watcher]
      /\ errors \in 0 .. MaxErrors /\ Len(log) \in Nat
  BY <1>0 DEF W!TypeOK
<1>2. CASE W!CloseStream(s)
  <2> DEFINE shut == [shared[s] EXCEPT !.step = "closed"]
             read == [shut EXCEPT !.pos = 0]
             one == [read EXCEPT !.failed = FALSE]
  <2>1. /\ one \in W!Shared /\ one.subs = shared[s].subs /\ one.terminal = shared[s].terminal
        /\ one.step = "closed"
    <3>1. /\ shut \in W!Shared /\ shut.subs = shared[s].subs
          /\ shut.terminal = shared[s].terminal /\ shut.step = "closed"
      BY <1>1 DEF W!Shared
    <3> HIDE DEF shut
    <3>2. /\ read \in W!Shared /\ read.subs = shut.subs /\ read.terminal = shut.terminal
          /\ read.step = shut.step
      BY <1>1, <3>1 DEF W!Shared
    <3> HIDE DEF read
    <3> QED  BY <3>1, <3>2 DEF W!Shared
  <2>2. shared' = [shared EXCEPT ![s] = one]
    BY <1>1, <1>2 DEF W!CloseStream, W!Shared
  <2> HIDE DEF one
  <2> QED  BY <1>1, <1>2, <2>1, <2>2, QuietWatcher DEF W!CloseStream
<1>3. CASE W!StreamFails(s)
  <2> DEFINE stopped == [shared[s] EXCEPT !.failed = TRUE]
             one == [stopped EXCEPT !.pos = 0]
  <2>1. /\ one \in W!Shared /\ one.subs = shared[s].subs /\ one.terminal = shared[s].terminal
        /\ one.step = shared[s].step
    <3>1. /\ stopped \in W!Shared /\ stopped.subs = shared[s].subs
          /\ stopped.terminal = shared[s].terminal /\ stopped.step = shared[s].step
      BY <1>1 DEF W!Shared
    <3> HIDE DEF stopped
    <3> QED  BY <1>1, <3>1 DEF W!Shared
  <2>2. shared' = [shared EXCEPT ![s] = one]
    BY <1>1, <1>3 DEF W!StreamFails, W!Shared
  <2>3. errors' \in 0 .. MaxErrors
    BY <1>1, <1>3, BoundsAreNat DEF W!StreamFails
  <2> HIDE DEF one
  <2> QED  BY <1>1, <1>3, <2>1, <2>2, <2>3, QuietWatcher DEF W!StreamFails
<1>4. CASE W!TakeError(s)
  <2> DEFINE taken == [shared EXCEPT ![s].reported = TRUE]
  <2>1. /\ taken \in [1 .. MaxShared -> W!Shared]
        /\ \A q \in 1 .. MaxShared : /\ taken[q].subs = shared[q].subs
                                      /\ taken[q].step = shared[q].step
                                      /\ taken[q].terminal = shared[q].terminal
    <3> DEFINE one == [shared[s] EXCEPT !.reported = TRUE]
    <3>1. /\ one \in W!Shared /\ one.subs = shared[s].subs /\ one.step = shared[s].step
          /\ one.terminal = shared[s].terminal
      BY <1>1 DEF W!Shared
    <3>2. taken = [shared EXCEPT ![s] = one]
      OBVIOUS
    <3> HIDE DEF one, taken
    <3> QED  BY <1>1, <3>1, <3>2
  <2>2. shared' = [taken EXCEPT ![s].telling = shared[s].subs]
    BY <1>4 DEF W!TakeError
  <2> HIDE DEF taken
  <2>3. /\ shared' \in [1 .. MaxShared -> W!Shared]
        /\ \A q \in 1 .. MaxShared : /\ shared'[q].subs = taken[q].subs
                                      /\ shared'[q].step = taken[q].step
                                      /\ shared'[q].terminal = taken[q].terminal
    <3> DEFINE one == [taken[s] EXCEPT !.telling = shared[s].subs]
    <3>0. shared[s].subs \subseteq Caller
      BY <1>1 DEF W!Shared
    <3>1. /\ one \in W!Shared /\ one.subs = taken[s].subs /\ one.step = taken[s].step
          /\ one.terminal = taken[s].terminal
      BY <2>1, <3>0 DEF W!Shared
    <3>2. shared' = [taken EXCEPT ![s] = one]
      BY <2>2
    <3> HIDE DEF one
    <3> QED  BY <2>1, <3>1, <3>2
  <2> QED  BY <1>1, <1>4, <2>1, <2>3, QuietWatcher DEF W!TakeError
<1>5. CASE W!HandleEvent(s)
  <2> DEFINE result == W!Result(log[shared[s].pos + 1])
             ends == shared[s].terminal = "none" /\ result # "none"
  <2>1. shared[s].pos + 1 \in 1 .. Len(log)
    BY <1>1, <1>5 DEF W!HandleEvent, W!Shared
  <2>2. result \in W!Answer \cup {"none"} /\ Justified(result)
    <3>1. log[shared[s].pos + 1] \in W!Status
      BY <1>0, <2>1 DEF W!TypeOK
    <3> QED  BY <1>0, <2>1, <3>1, ResultType DEF LogJustified
  <2>3. shared' = [shared EXCEPT ![s].pos = @ + 1, ![s].terminal = IF ends THEN result ELSE @,
                                 ![s].finishing = IF ends THEN shared[s].subs ELSE @]
    BY <1>5 DEF W!HandleEvent
  <2> HIDE DEF result, ends
  <2>4. shared' \in [1 .. MaxShared -> W!Shared]
    <3> DEFINE moved == [shared EXCEPT ![s].pos = @ + 1]
               ended == [moved EXCEPT ![s].terminal = IF ends THEN result ELSE @]
    <3>1. moved \in [1 .. MaxShared -> W!Shared]
      <4>1. [shared[s] EXCEPT !.pos = @ + 1] \in W!Shared
        BY <1>1, <2>1 DEF W!Shared
      <4> QED  BY <1>1, <4>1
    <3> HIDE DEF moved
    <3>2. ended \in [1 .. MaxShared -> W!Shared]
      <4>1. [moved[s] EXCEPT !.terminal = IF ends THEN result ELSE @] \in W!Shared
        BY <2>2, <3>1 DEF W!Shared
      <4> QED  BY <3>1, <4>1
    <3>3. shared' = [ended EXCEPT ![s].finishing = IF ends THEN shared[s].subs ELSE @]
      BY <2>3 DEF moved
    <3> HIDE DEF ended
    <3>4. [ended[s] EXCEPT !.finishing = IF ends THEN shared[s].subs ELSE @] \in W!Shared
      <4>1. shared[s].subs \subseteq Caller
        BY <1>1 DEF W!Shared
      <4> QED  BY <3>2, <4>1 DEF W!Shared
    <3> QED  BY <3>2, <3>3, <3>4
  <2>5. \A q \in 1 .. MaxShared :
          /\ shared'[q].subs = shared[q].subs /\ shared'[q].step = shared[q].step
          /\ \/ shared'[q].terminal = shared[q].terminal
             \/ shared'[q].terminal = result
    BY <1>1, <2>3 DEF W!Shared
  <2> QED  BY <1>1, <1>5, <2>2, <2>4, <2>5, QuietWatcher DEF W!HandleEvent
<1>6. ASSUME NEW c \in Caller, W!FinishOne(s, c)
      PROVE  FeedInv'
  <2>1. shared' \in [1 .. MaxShared -> W!Shared]
    BY <1>1, <1>6 DEF W!FinishOne, W!Shared
  <2>2. \A q \in 1 .. MaxShared : /\ shared'[q].subs = shared[q].subs
                                  /\ shared'[q].step = shared[q].step
                                  /\ shared'[q].terminal = shared[q].terminal
    BY <1>1, <1>6 DEF W!FinishOne, W!Shared
  <2>3. \/ watcher' = watcher
        \/ watcher' = [watcher EXCEPT ![c].done = shared[s].terminal]
    BY <1>6 DEF W!FinishOne
  <2>4. shared[s].terminal \in W!Answer \cup {"none"} /\ Justified(shared[s].terminal)
    BY <1>0, SharedFields DEF AnswersJustified
  <2>5. watcher' \in [Caller -> W!Watcher]
    <3>1. [watcher[c] EXCEPT !.done = shared[s].terminal] \in W!Watcher
      BY <1>1, <2>4 DEF W!Watcher
    <3> QED  BY <1>1, <2>3, <3>1
  <2>6. \A q \in Caller : /\ watcher'[q].pc = watcher[q].pc /\ watcher'[q].of = watcher[q].of
                          /\ \/ watcher'[q].done = watcher[q].done
                             \/ watcher'[q].done = shared[s].terminal
    <3>1. CASE watcher' = watcher
      BY <3>1
    <3>2. CASE watcher' = [watcher EXCEPT ![c].done = shared[s].terminal]
      BY <1>1, <3>2 DEF W!Watcher
    <3> QED  BY <2>3, <3>1, <3>2
  <2> QED  BY <1>1, <1>6, <2>1, <2>2, <2>4, <2>5, <2>6, QuietWatcher DEF W!FinishOne
<1>7. ASSUME NEW c \in Caller, W!SendError(s, c)
      PROVE  FeedInv'
  <2>1. shared' \in [1 .. MaxShared -> W!Shared]
    BY <1>1, <1>7 DEF W!SendError, W!Shared
  <2>2. \A q \in 1 .. MaxShared : /\ shared'[q].subs = shared[q].subs
                                  /\ shared'[q].step = shared[q].step
                                  /\ shared'[q].terminal = shared[q].terminal
    BY <1>1, <1>7 DEF W!SendError, W!Shared
  <2>3. watcher' = watcher \/ watcher' = [watcher EXCEPT ![c].err = TRUE]
    BY <1>7 DEF W!SendError
  <2> DEFINE told == [watcher[c] EXCEPT !.err = TRUE]
  <2>4. /\ told \in W!Watcher /\ told.pc = watcher[c].pc /\ told.of = watcher[c].of
        /\ told.done = watcher[c].done
    BY <1>1 DEF W!Watcher
  <2>5. watcher' = watcher \/ watcher' = [watcher EXCEPT ![c] = told]
    BY <2>3
  <2> HIDE DEF told
  <2>6. watcher' \in [Caller -> W!Watcher]
    BY <1>1, <2>4, <2>5
  <2>7. \A q \in Caller : /\ watcher'[q].pc = watcher[q].pc /\ watcher'[q].of = watcher[q].of
                          /\ watcher'[q].done = watcher[q].done
    BY <1>1, <2>4, <2>5
  <2> QED  BY <1>1, <1>7, <2>1, <2>2, <2>6, <2>7, QuietWatcher DEF W!SendError
<1> QED  BY <1>2, <1>3, <1>4, <1>5, <1>6, <1>7

LEMMA StepFeed ==
  ASSUME FeedInv, [FeedNext]_all
  PROVE  FeedInv'
<1>0. 1 .. created \subseteq 1 .. MaxShared
  BY BoundsAreNat DEF FeedInv, W!TypeOK
<1>1. CASE WriterStep
  BY <1>1, WriterFeed
<1>2. CASE WatcherStep
  <2>1. UNCHANGED vars
    BY <1>2 DEF WatcherStep
  <2>2. ASSUME NEW c \in Caller, Begin(c) \/ W!Release(c) \/ W!Closed(c)
        PROVE  FeedInv'
    BY <2>1, <2>2, AcquireSharedFeed, AcquireNewFeed, ReleaseFeed, ClosedFeed DEF Begin
  <2>3. ASSUME NEW s \in 1 .. created, W!Proceed(s) \/ W!StreamFails(s)
        PROVE  FeedInv'
    BY <1>0, <2>1, <2>3, RemoveFeed, StreamFeed DEF W!Proceed
  <2> QED  BY <1>2, <2>2, <2>3 DEF WatcherStep
<1>3. CASE UNCHANGED all
  <2>1. UNCHANGED vars /\ UNCHANGED <<log, entry, created, shared, watcher, errors>>
    BY <1>3 DEF all, feed
  <2> QED  BY <2>1, QuietWatcher DEF FeedInv, W!TypeOK
<1> QED  BY <1>1, <1>2, <1>3 DEF FeedNext

\* The writers of a task and the watchers of it stay within their states.
THEOREM FeedTypeCorrect == FeedSpec => []FeedTypeOK
<1>1. FeedInv => FeedTypeOK
  BY DEF FeedInv, WriterInv, FeedTypeOK
<1> QED  BY <1>1, InitFeed, StepFeed, PTL DEF FeedSpec

\* However the writes of the handler, the workflow and the requests that cancel
\* interleave, and however streams are shared, an activity is interrupted only by
\* a cancellation or the end of the record while its workflow is at work, and is
\* told the truth.
THEOREM InterruptedRightlyHolds == FeedSpec => []InterruptedRightly
<1>1. ASSUME FeedInv PROVE InterruptedRightly
  <2> SUFFICES ASSUME NEW c \in Caller
               PROVE  /\ phase = "work" /\ watcher[c].done # "none"
                           => CancelAsked \/ W!Current = "deleted"
                      /\ watcher[c].done = "completed" => outcome = "success"
                      /\ watcher[c].done = "canceled" => CancelAsked \/ W!Current = "deleted"
    BY DEF InterruptedRightly
  <2>1. watcher[c].done \in W!Answer \cup {"none"} /\ Justified(watcher[c].done)
    BY <1>1 DEF FeedInv, AnswersJustified, W!TypeOK, W!Watcher
  <2>2. outcome = "success" => phase \notin Early
    BY <1>1 DEF FeedInv, WriterInv, PhaseTrue
  <2> QED  BY <2>1, <2>2 DEF Justified, W!Answer, Early
<1> QED  BY <1>1, InitFeed, StepFeed, PTL DEF FeedSpec

\* When no activity holds a watcher any more, every stream is closed and the
\* registry is empty, although a caller may join a stream that another one is
\* about to shut down.
THEOREM NoLeakedStreamHolds == FeedSpec => []NoLeakedStream
<1>1. ASSUME FeedInv PROVE NoLeakedStream
  <2> SUFFICES ASSUME \A c \in Caller : watcher[c].pc = "idle"
               PROVE  entry = 0 /\ \A s \in 1 .. created : shared[s].step = "closed"
    BY DEF NoLeakedStream, W!NoLeakedStream
  <2>1. W!TypeOK /\ RegistryIsOpen /\ StreamHasUser /\ 1 .. created \subseteq 1 .. MaxShared
    BY <1>1, BoundsAreNat DEF FeedInv, W!TypeOK
  <2>2. \A s \in 1 .. created : shared[s].step \notin {"open", "removed"}
    BY <2>1 DEF StreamHasUser
  <2>3. \A s \in 1 .. created : shared[s].step \in {"none", "open", "removed", "closed"}
    BY <2>1 DEF W!TypeOK, W!Shared
  <2>4. \A s \in 1 .. created : shared[s].step = "closed"
    BY <2>1, <2>2, <2>3 DEF RegistryIsOpen, W!TypeOK
  <2>5. entry = 0
    BY <2>1, <2>4 DEF RegistryIsOpen, W!TypeOK
  <2> QED  BY <2>4, <2>5
<1> QED  BY <1>1, InitFeed, StepFeed, PTL DEF FeedSpec

=============================================================================
