--------------------------- MODULE BackendProofs ---------------------------
(***************************************************************************)
(* Proofs about the workflow backend: WorkflowTasks for any sets of hosts  *)
(* and events, ActivityTasks for any sets of hosts and slots, and any      *)
(* bounds.                                                                 *)
(*                                                                         *)
(* That one host at a time works on the execution, that no event is        *)
(* handled twice, and that an activity is run by one goroutine at a time   *)
(* and recorded once, needs Punctual, a lock that is prolonged in time;    *)
(* that no event is lost does not.                                         *)
(***************************************************************************)
EXTENDS WorkflowTasks, TLAPS

-----------------------------------------------------------------------------
(***************************************************************************)
(* The inductive invariants.                                               *)
(***************************************************************************)

\* Before the execution exists nothing was sent to it.
NothingBeforeStart ==
    state = "none" => /\ item = "none"
                      /\ \A e \in Event : sent[e] = "new" /\ e \notin pend /\ times[e] = 0

\* RemoveWorkflowInstance makes every copy of the instance stale, so that no
\* task can be completed after it.
NoCopyOfRemoved == state = "removed" => instOf = {}

\* What holds however late a lock is prolonged.
KeepInv ==
    /\ TypeOK
    /\ NothingBeforeStart
    /\ NoCopyOfRemoved
    /\ NoLostEvent

\* A host that has taken the task holds the lock, and the events it was given
\* are still pending.
OwnerHoldsLock ==
    \A w \in Worker :
        Needs(w) => /\ item = "queued"
                    /\ lock = [worker |-> w, run |-> "this"]
                    /\ events[w] \subseteq pend

\* The host has found no lock in its way, and its copy of the queue item is
\* still current: nobody has taken the task since.
MayLock(w) == w \in itemOf /\ pc[w] \in {"lock", "sticky", "events"}

\* As long as a host may still take the task, nobody works on it, and the
\* events the host has read are pending.
PollersMeetNobody ==
    \A w \in Worker :
        MayLock(w) => /\ \A v \in Worker : ~Needs(v)
                      /\ pc[w] = "events" => events[w] \subseteq pend

\* A pending event is not in the history, and neither pending nor in the
\* history before it is sent.
PendingIsNew ==
    \A e \in Event : /\ e \in pend => times[e] = 0
                     /\ times[e] <= 1
                     /\ sent[e] # "sent" => e \notin pend /\ times[e] = 0

IInv ==
    /\ KeepInv
    /\ OneOwner
    /\ OwnerHoldsLock
    /\ PollersMeetNobody
    /\ PendingIsNew
    /\ ActiveIsQueued

-----------------------------------------------------------------------------
(***************************************************************************)
(* Types                                                                   *)
(***************************************************************************)

LEMMA InitType == Init => TypeOK
  BY BoundsAreNat, NoneIsNoValue DEF Init, TypeOK, Steps

\* A host that returns from a call keeps the types.
LEMMA ReturnType ==
  ASSUME TypeOK, NEW w \in Worker, Return(w)
  PROVE  /\ pc' \in [Worker -> Steps]
         /\ itemOf' \in SUBSET Worker
         /\ instOf' \in SUBSET Worker
         /\ sawLock' \in [Worker -> {"none", "old"}]
         /\ events' \in [Worker -> SUBSET Event]
         /\ lastSeq' \in [Worker -> Nat]
  BY DEF TypeOK, Return, Goto, Steps

\* GetWorkflowTask keeps the types.
LEMMA PollType ==
  ASSUME TypeOK, NEW w \in Worker, Poll(w) \/ GetStaleItem(w)
  PROVE  TypeOK'
<1> USE DEF etcd, beat, polling, Steps, Goto
<1>1. CASE GetItem(w) \/ GetStaleItem(w)
  BY <1>1 DEF TypeOK, GetItem, GetStaleItem
<1>2. CASE GetLock(w)
  BY <1>2, ReturnType DEF TypeOK, GetLock
<1>3. CASE GetSticky(w)
  BY <1>3, ReturnType DEF TypeOK, GetSticky
<1>4. CASE GetEvents(w)
  BY <1>4, ReturnType DEF TypeOK, GetEvents
<1>5. CASE LockTask(w)
  BY <1>5, ReturnType DEF TypeOK, LockTask, Lock
<1>6. CASE GetLastSequenceID(w)
  BY <1>6 DEF TypeOK, GetLastSequenceID
<1> QED  BY <1>1, <1>2, <1>3, <1>4, <1>5, <1>6 DEF Poll

\* Heartbeat and completion keep the types.
LEMMA RunType ==
  ASSUME TypeOK, NEW w \in Worker, Complete(w) \/ Heartbeat(w)
  PROVE  TypeOK'
<1> USE DEF etcd, beat, polling
<1>1. CASE CompleteGet(w)
  BY <1>1, ReturnType DEF TypeOK, CompleteGet, Goto, Steps
<1>2. ASSUME NEW s \in {"active", "finished"}, CompleteWorkflowTask(w, s)
      PROVE  TypeOK'
  <2>1. CASE Accepted(w)
    BY <1>2, <2>1, BoundsAreNat DEF TypeOK, CompleteWorkflowTask, Handled, Goto, Steps
  <2>2. CASE ~Accepted(w)
    BY <1>2, <2>2, ReturnType DEF TypeOK, CompleteWorkflowTask
  <2> QED  BY <2>1, <2>2
<1>3. CASE ExtendGetItem(w) \/ ExtendGetLock(w)
  BY <1>3 DEF TypeOK, ExtendGetItem, ExtendGetLock
<1>4. CASE ExtendWorkflowTask(w)
  BY <1>4 DEF TypeOK, ExtendWorkflowTask, Lock
<1> QED  BY <1>1, <1>2, <1>3, <1>4 DEF Complete, Heartbeat

\* Every step keeps the types.
LEMMA StepType == TypeOK /\ [Next]_vars => TypeOK'
<1> SUFFICES ASSUME TypeOK, [Next]_vars PROVE TypeOK'
  OBVIOUS
<1> USE DEF etcd, beat, polling
<1>1. CASE CreateWorkflowInstance
  BY <1>1, FirstIsEvent DEF TypeOK, CreateWorkflowInstance
<1>2. ASSUME NEW e \in Event, CheckInstance(e) \/ SendEvent(e)
      PROVE  TypeOK'
  BY <1>2 DEF TypeOK, CheckInstance, SendEvent
<1>3. CASE RemoveWorkflowInstance
  BY <1>3, BoundsAreNat DEF TypeOK, RemoveWorkflowInstance
<1>4. ASSUME NEW w \in Worker, RequestFails(w)
      PROVE  TypeOK'
  BY <1>4, ReturnType, BoundsAreNat DEF TypeOK, RequestFails
<1>5. ASSUME NEW w \in Worker, Restart(w)
      PROVE  TypeOK'
  <2>1. lock' \in Lock \cup {None}
    BY <1>5 DEF TypeOK, Restart, Lock
  <2> QED  BY <1>5, <2>1, ReturnType, BoundsAreNat DEF TypeOK, Restart
<1>6. CASE LockExpires \/ StickyExpires
  BY <1>6 DEF TypeOK, LockExpires, StickyExpires
<1>7. CASE UNCHANGED vars
  BY <1>7 DEF TypeOK, vars
<1> QED  BY <1>1, <1>2, <1>3, <1>4, <1>5, <1>6, <1>7, PollType, RunType DEF Next

\* Every variable keeps its type, whatever fails and whenever.
THEOREM WorkflowTypeCorrect == Spec => []TypeOK
  BY InitType, StepType, PTL DEF Spec

-----------------------------------------------------------------------------
(***************************************************************************)
(* No event is lost                                                        *)
(***************************************************************************)

LEMMA InitKeep == Init => KeepInv
  BY InitType DEF Init, KeepInv, NothingBeforeStart, NoCopyOfRemoved, NoLostEvent

\* What the hosts do between reading and completing changes no event.
LEMMA QuietKeep ==
  ASSUME KeepInv, TypeOK', UNCHANGED <<state, item, pend, times, sent>>,
         state = "removed" => instOf' \subseteq instOf
  PROVE  KeepInv'
  BY DEF KeepInv, NothingBeforeStart, NoCopyOfRemoved, NoLostEvent

\* The steps that leave the execution and its events alone.
QuietStep(w) ==
    \/ Poll(w) \/ GetStaleItem(w) \/ CompleteGet(w) \/ Heartbeat(w)
    \/ RequestFails(w) \/ Restart(w)

LEMMA QuietStepIsQuiet ==
  ASSUME NEW w \in Worker, QuietStep(w)
  PROVE  /\ UNCHANGED <<state, item, pend, times, sent>>
         /\ state = "removed" => instOf' \subseteq instOf
<1> USE DEF etcd, beat, polling, Return
<1>1. CASE Poll(w) \/ GetStaleItem(w)
  BY <1>1 DEF Poll, GetItem, GetStaleItem, GetLock, GetSticky, GetEvents, LockTask,
              GetLastSequenceID
<1>2. CASE CompleteGet(w) \/ Heartbeat(w)
  BY <1>2 DEF CompleteGet, Heartbeat, ExtendGetItem, ExtendGetLock, ExtendWorkflowTask
<1>3. CASE RequestFails(w) \/ Restart(w)
  BY <1>3 DEF RequestFails, Restart
<1> QED  BY <1>1, <1>2, <1>3 DEF QuietStep

\* Completing a task moves the events it handled to the history.
LEMMA CompleteKeep ==
  ASSUME KeepInv, TypeOK', NEW w \in Worker, NEW s \in {"active", "finished"},
         CompleteWorkflowTask(w, s)
  PROVE  KeepInv'
<1>1. CASE Accepted(w)
  <2>1. state # "removed"
    BY <1>1 DEF KeepInv, NoCopyOfRemoved, Accepted
  <2>2. NothingBeforeStart' /\ NoCopyOfRemoved'
    BY <1>1 DEF CompleteWorkflowTask, NothingBeforeStart, NoCopyOfRemoved
  <2>3. ASSUME NEW e \in Event, sent'[e] = "sent"
        PROVE  e \in pend' \/ times'[e] > 0
    <3>1. e \in pend \/ times[e] > 0
      BY <1>1, <2>1, <2>3 DEF CompleteWorkflowTask, KeepInv, NoLostEvent
    <3> QED  BY <1>1, <3>1 DEF CompleteWorkflowTask, Handled, KeepInv, TypeOK
  <2> QED  BY <2>2, <2>3 DEF KeepInv, NoLostEvent
<1>2. CASE ~Accepted(w)
  BY <1>2, QuietKeep DEF CompleteWorkflowTask, Return, etcd
<1> QED  BY <1>1, <1>2

LEMMA StepKeep == KeepInv /\ [Next]_vars => KeepInv'
<1> SUFFICES ASSUME KeepInv, [Next]_vars PROVE KeepInv'
  OBVIOUS
<1> USE DEF etcd, beat, polling
<1>1. TypeOK'
  BY StepType DEF KeepInv
<1>2. CASE CreateWorkflowInstance
  BY <1>1, <1>2 DEF CreateWorkflowInstance, KeepInv, TypeOK, NothingBeforeStart,
                    NoCopyOfRemoved, NoLostEvent
<1>3. ASSUME NEW e \in Event, CheckInstance(e) \/ SendEvent(e)
      PROVE  KeepInv'
  BY <1>1, <1>3 DEF CheckInstance, SendEvent, KeepInv, TypeOK, NothingBeforeStart,
                    NoCopyOfRemoved, NoLostEvent
<1>4. CASE RemoveWorkflowInstance
  BY <1>1, <1>4 DEF RemoveWorkflowInstance, KeepInv, NothingBeforeStart,
                    NoCopyOfRemoved, NoLostEvent
<1>5. ASSUME NEW w \in Worker, QuietStep(w)
      PROVE  KeepInv'
  BY <1>1, <1>5, QuietStepIsQuiet, QuietKeep
<1>6. CASE LockExpires \/ StickyExpires \/ UNCHANGED vars
  BY <1>1, <1>6, QuietKeep DEF LockExpires, StickyExpires, vars
<1> QED  BY <1>1, <1>2, <1>3, <1>4, <1>5, <1>6, CompleteKeep DEF Next, Complete, QuietStep

\* An event sent to the execution is pending or in the history until the
\* execution is removed, even when two hosts complete the same task: what is
\* deleted from the pending events is what the transaction put in the history.
THEOREM NoLostEventHolds == Spec => []NoLostEvent
<1>1. KeepInv => NoLostEvent
  BY DEF KeepInv
<1> QED  BY <1>1, InitKeep, StepKeep, PTL DEF Spec

-----------------------------------------------------------------------------
(***************************************************************************)
(* One host at a time, and each event once                                 *)
(***************************************************************************)

LEMMA InitInv == Init => IInv
<1> SUFFICES ASSUME Init PROVE IInv
  OBVIOUS
<1>1. \A w \in Worker : ~Needs(w) /\ ~MayLock(w)
  BY DEF Init, Needs, MayLock
<1>2. PendingIsNew /\ ActiveIsQueued
  BY DEF Init, PendingIsNew, ActiveIsQueued
<1> QED  BY <1>1, <1>2, InitKeep DEF IInv, OneOwner, OwnerHoldsLock, PollersMeetNobody

\* A lock that is free or left behind by an earlier run means that nobody
\* works on the execution.
LEMMA FreeLockMeansNobody ==
  ASSUME IInv, NEW w \in Worker, lock = None \/ lock.run = "old"
  PROVE  \A v \in Worker : ~Needs(v)
<1> SUFFICES ASSUME NEW v \in Worker, Needs(v) PROVE FALSE
  OBVIOUS
<1>1. lock = [worker |-> v, run |-> "this"]
  BY DEF IInv, OwnerHoldsLock
<1> QED  BY <1>1, NoneIsNoValue DEF Lock

\* A step that writes no event and gives the task to nobody.
LEMMA QuietInv ==
  ASSUME IInv, KeepInv', UNCHANGED <<state, item, pend, times, sent>>,
         \A v \in Worker : Needs(v)' => Needs(v) /\ lock' = lock /\ events'[v] = events[v],
         \A v \in Worker : MayLock(v)' =>
             \/ MayLock(v) /\ (pc'[v] = "events" => \/ events'[v] = pend
                                                    \/ events'[v] = events[v] /\ pc[v] = "events")
             \/ (\A u \in Worker : ~Needs(u)) /\ pc'[v] # "events"
  PROVE  IInv'
<1>1. OneOwner' /\ PendingIsNew' /\ ActiveIsQueued'
  BY DEF IInv, OneOwner, PendingIsNew, ActiveIsQueued
<1>2. OwnerHoldsLock'
  BY DEF IInv, OwnerHoldsLock
<1>3. PollersMeetNobody'
  BY DEF IInv, PollersMeetNobody
<1> QED  BY <1>1, <1>2, <1>3 DEF IInv

\* GetWorkflowTask up to the transaction.
LEMMA PollInv ==
  ASSUME IInv, KeepInv', NEW w \in Worker,
         \/ GetItem(w) \/ GetStaleItem(w) \/ GetLock(w) \/ GetSticky(w) \/ GetEvents(w)
         \/ GetLastSequenceID(w)
  PROVE  IInv'
<1> USE DEF etcd, beat, polling, Goto
<1> TypeOK
  BY DEF IInv, KeepInv
<1>1. CASE GetItem(w) \/ GetStaleItem(w)
  <2>1. \A v \in Worker : MayLock(v)' => MayLock(v) /\ events'[v] = events[v] /\ pc'[v] = pc[v]
    BY <1>1 DEF GetItem, GetStaleItem, MayLock, TypeOK
  <2>2. \A v \in Worker : Needs(v)' => Needs(v) /\ lock' = lock /\ events'[v] = events[v]
    BY <1>1 DEF GetItem, GetStaleItem, Needs, TypeOK
  <2> QED  BY <1>1, <2>1, <2>2, QuietInv DEF GetItem, GetStaleItem
<1>2. CASE GetLock(w)
  <2>1. ASSUME NEW v \in Worker, MayLock(v)'
        PROVE  \/ MayLock(v) /\ events'[v] = events[v] /\ pc'[v] = pc[v]
               \/ (\A u \in Worker : ~Needs(u)) /\ pc'[v] # "events"
    BY <1>2, <2>1, FreeLockMeansNobody DEF GetLock, Return, MayLock, TypeOK
  <2>2. \A v \in Worker : Needs(v)' => Needs(v) /\ lock' = lock /\ events'[v] = events[v]
    BY <1>2 DEF GetLock, Return, Needs, TypeOK
  <2> QED  BY <1>2, <2>1, <2>2, QuietInv DEF GetLock
<1>3. CASE GetSticky(w) \/ GetEvents(w)
  <2>1. ASSUME NEW v \in Worker, MayLock(v)'
        PROVE  MayLock(v) /\ (pc'[v] = "events" => \/ events'[v] = pend
                                                   \/ events'[v] = events[v] /\ pc[v] = "events")
    BY <1>3, <2>1 DEF GetSticky, GetEvents, Return, MayLock, TypeOK
  <2>2. \A v \in Worker : Needs(v)' => Needs(v) /\ lock' = lock /\ events'[v] = events[v]
    BY <1>3 DEF GetSticky, GetEvents, Return, Needs, TypeOK
  <2> QED  BY <1>3, <2>1, <2>2, QuietInv DEF GetSticky, GetEvents
<1>4. CASE GetLastSequenceID(w)
  <2>1. \A v \in Worker : MayLock(v)' => MayLock(v) /\ events'[v] = events[v] /\ pc'[v] = pc[v]
    BY <1>4 DEF GetLastSequenceID, MayLock, TypeOK
  <2>2. \A v \in Worker : Needs(v)' => Needs(v) /\ lock' = lock /\ events'[v] = events[v]
    BY <1>4 DEF GetLastSequenceID, Needs, TypeOK
  <2> QED  BY <1>4, <2>1, <2>2, QuietInv DEF GetLastSequenceID
<1> QED  BY <1>1, <1>2, <1>3, <1>4

\* The transaction that takes the task.
LEMMA LockTaskInv ==
  ASSUME IInv, KeepInv', NEW w \in Worker, LockTask(w)
  PROVE  IInv'
<1> USE DEF Goto
<1> TypeOK
  BY DEF IInv, KeepInv
<1>1. CASE CanLock(w)
  <2>1. MayLock(w) /\ pc[w] = "events"
    BY <1>1 DEF CanLock, LockTask, MayLock
  <2>2. (\A v \in Worker : ~Needs(v)) /\ events[w] \subseteq pend
    BY <2>1 DEF IInv, PollersMeetNobody
  <2>3. \A v \in Worker : Needs(v)' => v = w
    BY <1>1, <2>2 DEF LockTask, Needs, TypeOK
  <2>4. OneOwner' /\ OwnerHoldsLock'
    BY <1>1, <2>2, <2>3 DEF LockTask, CanLock, OneOwner, OwnerHoldsLock
  <2>5. PollersMeetNobody' /\ PendingIsNew' /\ ActiveIsQueued'
    BY <1>1 DEF LockTask, IInv, PollersMeetNobody, MayLock, PendingIsNew, ActiveIsQueued
  <2> QED  BY <2>4, <2>5 DEF IInv
<1>2. CASE ~CanLock(w)
  <2>1. \A v \in Worker : MayLock(v)' => MayLock(v) /\ events'[v] = events[v] /\ pc'[v] = pc[v]
    BY <1>2 DEF LockTask, Return, MayLock, TypeOK
  <2>2. \A v \in Worker : Needs(v)' => Needs(v) /\ lock' = lock /\ events'[v] = events[v]
    BY <1>2 DEF LockTask, Return, Needs, TypeOK
  <2> QED  BY <1>2, <2>1, <2>2, QuietInv DEF LockTask
<1> QED  BY <1>1, <1>2

\* A late heartbeat may create the lock again, but only where nobody works.
LEMMA HeartbeatInv ==
  ASSUME IInv, KeepInv', NEW w \in Worker, Heartbeat(w)
  PROVE  IInv'
<1> USE DEF etcd, polling
<1>1. CASE ExtendGetItem(w) \/ ExtendGetLock(w)
  BY <1>1, QuietInv DEF ExtendGetItem, ExtendGetLock, Needs, MayLock
<1>2. CASE ExtendWorkflowTask(w)
  <2>1. \A v \in Worker : MayLock(v)' => MayLock(v) /\ events'[v] = events[v] /\ pc'[v] = pc[v]
    BY <1>2 DEF ExtendWorkflowTask, MayLock
  <2>2. ASSUME NEW v \in Worker, Needs(v)'
        PROVE  Needs(v) /\ lock' = lock /\ events'[v] = events[v]
    <3>1. Needs(v) /\ events' = events
      BY <1>2, <2>2 DEF ExtendWorkflowTask, Needs
    <3>2. lock # None
      BY <3>1, FreeLockMeansNobody
    <3> QED  BY <1>2, <3>1, <3>2 DEF ExtendWorkflowTask
  <2> QED  BY <1>2, <2>1, <2>2, QuietInv DEF ExtendWorkflowTask
<1> QED  BY <1>1, <1>2 DEF Heartbeat

\* The transaction that completes the task: its host is the only one, and
\* the events it puts in the history were pending.
LEMMA CompleteInv ==
  ASSUME IInv, KeepInv', NEW w \in Worker, NEW s \in {"active", "finished"},
         CompleteWorkflowTask(w, s)
  PROVE  IInv'
<1> USE DEF Goto
<1> TypeOK
  BY DEF IInv, KeepInv
<1>1. CASE Accepted(w)
  <2>1. Needs(w)
    BY DEF CompleteWorkflowTask, Needs
  <2>2. item = "queued" /\ events[w] \subseteq pend /\ (\A v \in Worker : ~MayLock(v))
    BY <2>1 DEF IInv, OwnerHoldsLock, PollersMeetNobody
  <2>3. \A v \in Worker : ~Needs(v)'
    BY <1>1, <2>1 DEF CompleteWorkflowTask, Needs, IInv, OneOwner, TypeOK
  <2>4. \A v \in Worker : ~MayLock(v)'
    BY <1>1, <2>2 DEF CompleteWorkflowTask, MayLock, TypeOK
  <2>5. PendingIsNew'
    <3> SUFFICES ASSUME NEW e \in Event
                 PROVE  /\ e \in pend' => times'[e] = 0
                        /\ times'[e] <= 1
                        /\ sent'[e] # "sent" => e \notin pend' /\ times'[e] = 0
      BY DEF PendingIsNew
    <3>1. /\ e \in pend => times[e] = 0
          /\ times[e] <= 1
          /\ sent[e] # "sent" => e \notin pend /\ times[e] = 0
      BY DEF IInv, PendingIsNew
    <3>2. CASE e \in events[w]
      BY <1>1, <2>2, <3>1, <3>2 DEF CompleteWorkflowTask, Handled, TypeOK
    <3>3. CASE e \notin events[w]
      BY <1>1, <3>1, <3>3 DEF CompleteWorkflowTask, Handled, TypeOK
    <3> QED  BY <3>2, <3>3
  <2>6. ActiveIsQueued'
    BY <1>1, <2>2 DEF CompleteWorkflowTask, LeavesQueue, ActiveIsQueued
  <2> QED  BY <2>3, <2>4, <2>5, <2>6 DEF IInv, OneOwner, OwnerHoldsLock, PollersMeetNobody
<1>2. CASE ~Accepted(w)
  <2>1. \A v \in Worker : MayLock(v)' => MayLock(v) /\ events'[v] = events[v] /\ pc'[v] = pc[v]
    BY <1>2 DEF CompleteWorkflowTask, Return, MayLock, TypeOK
  <2>2. \A v \in Worker : Needs(v)' => Needs(v) /\ lock' = lock /\ events'[v] = events[v]
    BY <1>2 DEF CompleteWorkflowTask, Return, Needs, TypeOK, etcd
  <2> QED  BY <1>2, <2>1, <2>2, QuietInv DEF CompleteWorkflowTask, etcd
<1> QED  BY <1>1, <1>2

\* The first half of CompleteWorkflowTask, a failed request, a restart.
LEMMA ReturnInv ==
  ASSUME IInv, KeepInv', NEW w \in Worker, CompleteGet(w) \/ RequestFails(w) \/ Restart(w)
  PROVE  IInv'
<1> USE DEF etcd, beat, Goto, Return
<1> TypeOK
  BY DEF IInv, KeepInv
<1>1. \A v \in Worker : MayLock(v)' => MayLock(v) /\ events'[v] = events[v] /\ pc'[v] = pc[v]
  BY DEF CompleteGet, RequestFails, Restart, MayLock, TypeOK
<1>2. \A v \in Worker : Needs(v)' => Needs(v) /\ events'[v] = events[v]
  BY DEF CompleteGet, RequestFails, Restart, Needs, TypeOK
<1>3. ASSUME NEW v \in Worker, Needs(v)'
      PROVE  lock' = lock
  <2>1. CASE Restart(w)
    <3>1. v # w
      BY <1>3, <2>1 DEF Restart, Needs, TypeOK
    <3>2. lock.worker = v
      BY <1>2, <1>3 DEF IInv, OwnerHoldsLock
    <3> QED  BY <2>1, <3>1, <3>2 DEF Restart
  <2> QED  BY <2>1 DEF CompleteGet, RequestFails
<1>4. UNCHANGED <<state, item, pend, times, sent>>
  BY QuietStepIsQuiet DEF QuietStep
<1> QED  BY <1>1, <1>2, <1>3, <1>4, QuietInv

\* Every step of the system keeps the invariant.
LEMMA StepInv == Punctual /\ IInv /\ [Next]_vars => IInv'
<1> SUFFICES ASSUME Punctual, IInv, [Next]_vars PROVE IInv'
  OBVIOUS
<1> USE DEF etcd, beat, polling
<1> TypeOK
  BY DEF IInv, KeepInv
<1>1. KeepInv'
  BY StepKeep DEF IInv
<1>2. CASE CreateWorkflowInstance
  <2>1. \A v \in Worker : ~Needs(v)
    BY <1>2 DEF CreateWorkflowInstance, IInv, KeepInv, NothingBeforeStart, OwnerHoldsLock
  <2>2. \A v \in Worker : ~Needs(v)' /\ (MayLock(v)' => MayLock(v) /\ pc'[v] = pc[v])
    BY <1>2, <2>1 DEF CreateWorkflowInstance, Needs, MayLock
  <2>3. \A v \in Worker : MayLock(v) /\ pc[v] = "events" => events[v] \subseteq pend'
    BY <1>2 DEF CreateWorkflowInstance, IInv, KeepInv, NothingBeforeStart, PollersMeetNobody,
                TypeOK
  <2>4. PendingIsNew' /\ ActiveIsQueued'
    BY <1>2, FirstIsEvent DEF CreateWorkflowInstance, IInv, KeepInv, NothingBeforeStart,
                PendingIsNew, ActiveIsQueued, TypeOK
  <2>5. events' = events
    BY <1>2 DEF CreateWorkflowInstance
  <2> QED  BY <1>1, <2>2, <2>3, <2>4, <2>5
           DEF IInv, OneOwner, OwnerHoldsLock, PollersMeetNobody
<1>3. ASSUME NEW e \in Event, CheckInstance(e) \/ SendEvent(e)
      PROVE  IInv'
  <2>1. UNCHANGED <<state, item, lock, pc, events, itemOf, times>> /\ pend \subseteq pend'
    BY <1>3 DEF CheckInstance, SendEvent
  <2>2. \A v \in Worker : Needs(v)' = Needs(v) /\ MayLock(v)' = MayLock(v)
    BY <2>1 DEF Needs, MayLock
  <2>3. OneOwner' /\ OwnerHoldsLock' /\ PollersMeetNobody' /\ ActiveIsQueued'
    BY <2>1, <2>2 DEF IInv, OneOwner, OwnerHoldsLock, PollersMeetNobody, ActiveIsQueued
  <2>4. PendingIsNew'
    BY <1>3, <2>1 DEF CheckInstance, SendEvent, IInv, PendingIsNew, TypeOK
  <2> QED  BY <1>1, <2>3, <2>4 DEF IInv
<1>4. CASE RemoveWorkflowInstance
  <2>1. UNCHANGED <<item, lock, pend, sent, pc, events, itemOf>>
    BY <1>4 DEF RemoveWorkflowInstance
  <2>2. \A v \in Worker : Needs(v)' = Needs(v) /\ MayLock(v)' = MayLock(v)
    BY <2>1 DEF Needs, MayLock
  <2>3. OneOwner' /\ OwnerHoldsLock' /\ PollersMeetNobody'
    BY <2>1, <2>2 DEF IInv, OneOwner, OwnerHoldsLock, PollersMeetNobody
  <2>4. PendingIsNew' /\ ActiveIsQueued'
    BY <1>4 DEF RemoveWorkflowInstance, IInv, PendingIsNew, ActiveIsQueued
  <2> QED  BY <1>1, <2>3, <2>4 DEF IInv
<1>5. CASE LockExpires
  <2>1. ASSUME NEW v \in Worker, Needs(v)
        PROVE  FALSE
    <3>1. lock.run = "this" /\ lock.worker = v
      BY <2>1 DEF IInv, OwnerHoldsLock
    <3> QED  BY <1>5, <2>1, <3>1 DEF LockExpires
  <2>2. \A v \in Worker : ~Needs(v)'
    BY <1>5, <2>1 DEF LockExpires, Needs
  <2>3. \A v \in Worker : MayLock(v)' => MayLock(v) /\ events'[v] = events[v] /\ pc'[v] = pc[v]
    BY <1>5 DEF LockExpires, MayLock
  <2> QED  BY <1>1, <1>5, <2>2, <2>3, QuietInv DEF LockExpires
<1>6. CASE StickyExpires \/ UNCHANGED vars
  BY <1>1, <1>6, QuietInv DEF StickyExpires, vars, Needs, MayLock
<1> QED  BY <1>1, <1>2, <1>3, <1>4, <1>5, <1>6, PollInv, LockTaskInv, HeartbeatInv,
            CompleteInv, ReturnInv DEF Next, Poll, Complete

\* With a lock that is prolonged in time, IInv holds throughout.
LEMMA AlwaysInv == Punctual /\ Spec => []IInv
<1> SUFFICES ASSUME Punctual PROVE Spec => []IInv
  OBVIOUS
<1>1. IInv /\ [Next]_vars => IInv'
  BY StepInv
<1> QED  BY <1>1, InitInv, PTL DEF Spec

\* With a lock that is prolonged in time one host at a time works on the
\* execution, and no event is put in its history twice, through restarts,
\* failed requests, lagging caches and late heartbeats.
THEOREM OwnedAndHandledOnceHolds == Punctual /\ Spec => []OwnedAndHandledOnce
<1>1. IInv => OwnedAndHandledOnce
  BY DEF IInv, OwnedAndHandledOnce, HandledOnce, PendingIsNew
<1> QED  BY <1>1, AlwaysInv, PTL

\* With a lock that is prolonged in time "every workflow in the queue is
\* active", and no active workflow has fallen out of the queue.
THEOREM ActiveIsQueuedHolds == Punctual /\ Spec => []ActiveIsQueued
<1>1. IInv => ActiveIsQueued
  BY DEF IInv
<1> QED  BY <1>1, AlwaysInv, PTL

-----------------------------------------------------------------------------
(***************************************************************************)
(* Activities: one runner, one result.  The lock of an activity is the one *)
(* of the workflow again, but completing an activity checks neither the    *)
(* lock nor the queue item.                                                *)
(***************************************************************************)

CONSTANTS Host, Slot, MaxStops, MaxRuns
VARIABLES results, runs, up, stops

A == INSTANCE ActivityTasks

\* What ActivityTasks assumes about its constants.
Assumed == A!BoundsAreNat /\ A!NoneIsNoLock

\* The item leaves the queue exactly when its only result is recorded.
ResultsMatchItem == results = IF item = "gone" THEN 1 ELSE 0

\* Whoever runs the activity has it in the queue and its host in the lock.
WorkingHoldsLock ==
    \A r \in A!Runner :
        A!Working(r) => /\ item = "queued"
                      /\ lock = [host |-> A!HostOf(r), run |-> "this"]

\* A poller that means to replace a lock of an earlier run, and whose copy of
\* the item is current, cannot meet a lock of a run that is still alive:
\* everyone who writes such a lock writes the item too.
OldLockIsOld ==
    \A r \in itemOf :
        pc[r] = "lock" /\ sawLock[r] = "old" => lock = None \/ lock.run = "old"

ActivityInv ==
    /\ A!TypeOK
    /\ A!OneRunner
    /\ ResultsMatchItem
    /\ WorkingHoldsLock
    /\ OldLockIsOld

-----------------------------------------------------------------------------
(***************************************************************************)
(* Types                                                                   *)
(***************************************************************************)

\* A runner is a slot of its host.
LEMMA RunnerIsSlot ==
  ASSUME NEW r \in A!Runner
  PROVE  A!HostOf(r) \in Host /\ \E s \in Slot : r = <<A!HostOf(r), s>>
  BY DEF A!Runner, A!HostOf

\* A runner that returns keeps the types.
LEMMA ActivityReturnType ==
  ASSUME A!TypeOK, NEW r \in A!Runner, A!Return(r)
  PROVE  /\ pc' \in [A!Runner -> {"idle", "item", "lock", "running", "done", "found"}]
         /\ itemOf' \in SUBSET {q \in A!Runner : pc'[q] \in {"item", "lock"}}
         /\ sawLock' \in [A!Runner -> {"none", "old"}]
  BY DEF A!TypeOK, A!Return, A!Goto

LEMMA ActivityInitType == Assumed /\ A!Init => A!TypeOK
  BY DEF Assumed, A!BoundsAreNat, A!Init, A!TypeOK

\* Polling keeps the types.
LEMMA ActivityPollType ==
  ASSUME Assumed, A!TypeOK, NEW r \in A!Runner, A!Poll(r) \/ A!GetStaleItem(r)
  PROVE  A!TypeOK'
<1>1. CASE A!GetItem(r) \/ A!GetStaleItem(r)
  BY <1>1 DEF A!TypeOK, A!GetItem, A!GetStaleItem, A!Goto
<1>2. CASE A!GetLock(r)
  <2>1. CASE lock = None \/ A!Reassignable(A!HostOf(r))
    BY <1>2, <2>1 DEF A!TypeOK, A!GetLock, A!Goto
  <2>2. CASE ~(lock = None \/ A!Reassignable(A!HostOf(r)))
    BY <1>2, <2>2, ActivityReturnType DEF A!TypeOK, A!GetLock
  <2> QED  BY <2>1, <2>2
<1>3. CASE A!LockTask(r)
  <2>1. CASE A!CanLock(r)
    BY <1>3, <2>1, RunnerIsSlot DEF Assumed, A!BoundsAreNat, A!TypeOK, A!LockTask, A!Goto, A!Lock
  <2>2. CASE ~A!CanLock(r)
    BY <1>3, <2>2, ActivityReturnType DEF A!TypeOK, A!LockTask
  <2> QED  BY <2>1, <2>2
<1>4. CASE A!PollCanceled(r)
  BY <1>4, ActivityReturnType DEF A!TypeOK, A!PollCanceled
<1> QED  BY <1>1, <1>2, <1>3, <1>4 DEF A!Poll

\* Heartbeat and completion keep the types.
LEMMA ActivityRunType ==
  ASSUME Assumed, A!TypeOK, NEW r \in A!Runner,
         \/ A!Complete(r) \/ A!RequestFails(r)
         \/ A!ExtendGetItem(r) \/ A!ExtendGetLock(r) \/ A!ExtendActivityTask(r)
  PROVE  A!TypeOK'
<1>1. CASE A!Finish(r)
  BY <1>1 DEF A!TypeOK, A!Finish, A!Goto
<1>2. CASE A!CompleteGet(r)
  BY <1>2, ActivityReturnType DEF A!TypeOK, A!CompleteGet, A!Goto
<1>3. CASE A!CompleteActivityTask(r)
  BY <1>3 DEF A!TypeOK, A!CompleteActivityTask, A!Goto
<1>4. CASE A!RequestFails(r)
  BY <1>4, ActivityReturnType DEF Assumed, A!BoundsAreNat, A!TypeOK, A!RequestFails
<1>5. CASE A!ExtendGetItem(r) \/ A!ExtendGetLock(r)
  BY <1>5 DEF A!TypeOK, A!ExtendGetItem, A!ExtendGetLock
<1>6. CASE A!ExtendActivityTask(r)
  BY <1>6, RunnerIsSlot DEF A!TypeOK, A!ExtendActivityTask, A!Lock
<1> QED  BY <1>1, <1>2, <1>3, <1>4, <1>5, <1>6 DEF A!Complete

\* The end of a process keeps the types.
LEMMA HaltType ==
  ASSUME A!TypeOK, NEW h \in Host, A!Halt(h), faults' \in 0 .. MaxFaults, stops' \in 0 .. MaxStops
  PROVE  A!TypeOK'
<1>1. lock' \in A!Lock \cup {None}
  BY DEF A!TypeOK, A!Halt, A!Lock
<1> QED  BY <1>1 DEF A!TypeOK, A!Halt

\* Every step keeps the types.
LEMMA ActivityStepType == Assumed /\ A!TypeOK /\ [A!Next]_(A!vars) => A!TypeOK'
<1> SUFFICES ASSUME Assumed, A!TypeOK, [A!Next]_(A!vars) PROVE A!TypeOK'
  OBVIOUS
<1>1. CASE A!Schedule
  BY <1>1 DEF A!TypeOK, A!Schedule
<1>2. ASSUME NEW h \in Host, A!Crash(h) \/ A!Exit(h)
      PROVE  A!TypeOK'
  <2>1. faults' \in 0 .. MaxFaults /\ stops' \in 0 .. MaxStops /\ A!Halt(h)
    BY <1>2 DEF Assumed, A!BoundsAreNat, A!TypeOK, A!Crash, A!Exit
  <2> QED  BY <2>1, HaltType
<1>3. ASSUME NEW h \in Host, A!Shutdown(h) \/ A!Boot(h)
      PROVE  A!TypeOK'
  BY <1>3 DEF Assumed, A!BoundsAreNat, A!TypeOK, A!Shutdown, A!Boot
<1>4. CASE A!LockExpires
  BY <1>4 DEF A!TypeOK, A!LockExpires
<1>5. CASE UNCHANGED A!vars
  BY <1>5 DEF A!TypeOK, A!vars
<1> QED  BY <1>1, <1>2, <1>3, <1>4, <1>5, ActivityPollType, ActivityRunType DEF A!Next

\* Every variable keeps its type, whatever fails and whenever.
THEOREM ActivityTypeCorrect == Assumed => (A!Spec => []A!TypeOK)
<1> SUFFICES ASSUME Assumed PROVE A!Spec => []A!TypeOK
  OBVIOUS
<1>1. A!Init => A!TypeOK
  BY ActivityInitType
<1>2. A!TypeOK /\ [A!Next]_(A!vars) => A!TypeOK'
  BY ActivityStepType
<1> QED  BY <1>1, <1>2, PTL DEF A!Spec

-----------------------------------------------------------------------------
(***************************************************************************)
(* One runner, one result                                                  *)
(***************************************************************************)

LEMMA ActivityInitInv == Assumed /\ A!Init => ActivityInv
<1> SUFFICES ASSUME Assumed, A!Init PROVE ActivityInv
  OBVIOUS
<1>1. \A r \in A!Runner : ~A!Working(r)
  BY DEF A!Init, A!Working
<1>2. OldLockIsOld /\ ResultsMatchItem
  BY DEF A!Init, OldLockIsOld, ResultsMatchItem
<1> QED  BY <1>1, <1>2, ActivityInitType DEF ActivityInv, A!OneRunner, WorkingHoldsLock

\* A lock of a live run excludes every other runner.
LEMMA WorkingExcludesLocking ==
  ASSUME Assumed, ActivityInv, NEW r \in A!Runner, pc[r] = "lock", A!CanLock(r)
  PROVE  \A q \in A!Runner : ~A!Working(q)
<1> SUFFICES ASSUME NEW q \in A!Runner, A!Working(q) PROVE FALSE
  OBVIOUS
<1>1. lock = [host |-> A!HostOf(q), run |-> "this"]
  BY DEF ActivityInv, WorkingHoldsLock
<1>2. lock # None /\ lock.run = "this"
  BY <1>1, RunnerIsSlot DEF Assumed, A!NoneIsNoLock, A!Lock
<1>3. sawLock[r] = "old" /\ r \in itemOf
  BY <1>2 DEF A!CanLock, ActivityInv, A!TypeOK
<1> QED  BY <1>2, <1>3 DEF ActivityInv, OldLockIsOld

\* What keeps the lock and the item, starts nothing and gives nobody a newer
\* view of the lock, keeps the invariant.
LEMMA ActivityQuietStep ==
  ASSUME ActivityInv, A!TypeOK', UNCHANGED <<item, lock, results>>,
         \A q \in A!Runner : A!Working(q)' => A!Working(q),
         \A q \in itemOf' : pc'[q] = "lock" /\ sawLock'[q] = "old"
             => \/ q \in itemOf /\ pc[q] = "lock" /\ sawLock[q] = "old"
                \/ lock = None \/ lock.run = "old"
  PROVE  ActivityInv'
<1>1. A!OneRunner' /\ ResultsMatchItem' /\ WorkingHoldsLock'
  BY DEF ActivityInv, A!OneRunner, ResultsMatchItem, WorkingHoldsLock
<1>2. OldLockIsOld'
  BY DEF ActivityInv, OldLockIsOld
<1> QED  BY <1>1, <1>2 DEF ActivityInv

\* The transaction that takes the task.
LEMMA ActivityLockTaskInv ==
  ASSUME Assumed, ActivityInv, A!TypeOK', NEW r \in A!Runner, A!LockTask(r)
  PROVE  ActivityInv'
<1>1. CASE A!CanLock(r)
  <2>1. \A q \in A!Runner : ~A!Working(q)
    BY <1>1, WorkingExcludesLocking DEF A!LockTask
  <2>2. \A q \in A!Runner : A!Working(q)' => q = r
    BY <1>1, <2>1 DEF A!LockTask, A!Goto, A!Working, ActivityInv, A!TypeOK
  <2>3. A!OneRunner' /\ WorkingHoldsLock'
    BY <1>1, <2>2 DEF A!LockTask, A!CanLock, A!OneRunner, WorkingHoldsLock
  <2>4. ResultsMatchItem' /\ OldLockIsOld'
    BY <1>1 DEF ActivityInv, A!LockTask, ResultsMatchItem, OldLockIsOld
  <2> QED  BY <2>3, <2>4 DEF ActivityInv
<1>2. CASE ~A!CanLock(r)
  BY <1>2, ActivityQuietStep DEF A!LockTask, A!Return, A!Goto, A!Working, ActivityInv, A!TypeOK
<1> QED  BY <1>1, <1>2

\* The transaction that records the result: its runner is the only one.
LEMMA CompleteActivityTaskInv ==
  ASSUME ActivityInv, A!TypeOK', NEW r \in A!Runner, A!CompleteActivityTask(r)
  PROVE  ActivityInv'
<1>1. A!Working(r) /\ \A q \in A!Runner : A!Working(q) => q = r
  BY DEF A!CompleteActivityTask, A!Working, ActivityInv, A!OneRunner
<1>2. \A q \in A!Runner : ~A!Working(q)'
  BY <1>1 DEF A!CompleteActivityTask, A!Goto, A!Working, ActivityInv, A!TypeOK
<1>3. A!OneRunner' /\ WorkingHoldsLock' /\ OldLockIsOld'
  BY <1>2 DEF A!CompleteActivityTask, A!OneRunner, WorkingHoldsLock, OldLockIsOld
<1>4. item = "queued"
  BY <1>1 DEF ActivityInv, WorkingHoldsLock
<1>5. ResultsMatchItem'
  BY <1>4 DEF A!CompleteActivityTask, ActivityInv, ResultsMatchItem
<1> QED  BY <1>3, <1>5 DEF ActivityInv

\* A late heartbeat may create the lock again, but only where nobody works.
LEMMA ExtendInv ==
  ASSUME Assumed, ActivityInv, A!TypeOK', NEW r \in A!Runner, A!ExtendActivityTask(r)
  PROVE  ActivityInv'
<1>1. \A q \in A!Runner : A!Working(q)' => A!Working(q)
  BY DEF A!ExtendActivityTask, A!Working
<1>2. CASE lock' = lock
  <2>1. itemOf' \subseteq itemOf
    BY DEF A!ExtendActivityTask
  <2> QED  BY <1>1, <1>2, <2>1, ActivityQuietStep DEF A!ExtendActivityTask
<1>3. CASE lock' # lock
  <2>1. lock = None /\ itemOf' = {}
    BY <1>3 DEF A!ExtendActivityTask
  <2>2. \A q \in A!Runner : ~A!Working(q)
    BY <2>1, RunnerIsSlot DEF Assumed, A!NoneIsNoLock, ActivityInv, WorkingHoldsLock, A!Lock
  <2>3. A!OneRunner' /\ WorkingHoldsLock' /\ OldLockIsOld'
    BY <1>1, <2>1, <2>2 DEF A!OneRunner, WorkingHoldsLock, OldLockIsOld
  <2>4. ResultsMatchItem'
    BY DEF A!ExtendActivityTask, ActivityInv, ResultsMatchItem
  <2> QED  BY <2>3, <2>4 DEF ActivityInv
<1> QED  BY <1>2, <1>3

\* The lease of a lock runs out: under Punctual nobody worked under it.
LEMMA LockExpiresInv ==
  ASSUME ActivityInv, A!TypeOK', Punctual, A!LockExpires
  PROVE  ActivityInv'
<1>1. ASSUME NEW q \in A!Runner, A!Working(q)
      PROVE  FALSE
  <2>1. lock.run = "this" /\ lock.host = A!HostOf(q)
    BY <1>1 DEF ActivityInv, WorkingHoldsLock
  <2>2. A!Needed(A!HostOf(q))
    BY <1>1, RunnerIsSlot DEF A!Needed
  <2> QED  BY <2>1, <2>2 DEF A!LockExpires
<1>2. A!OneRunner' /\ WorkingHoldsLock' /\ OldLockIsOld' /\ ResultsMatchItem'
  BY <1>1 DEF A!LockExpires, ActivityInv, A!OneRunner, WorkingHoldsLock, OldLockIsOld,
              ResultsMatchItem, A!Working
<1> QED  BY <1>2 DEF ActivityInv

\* The process of a host ends: its runners are gone, and its lock is old.
LEMMA HaltInv ==
  ASSUME ActivityInv, A!TypeOK', NEW h \in Host, A!Halt(h)
  PROVE  ActivityInv'
<1>1. \A q \in A!Runner : A!Working(q)' => A!Working(q) /\ A!HostOf(q) # h
  BY DEF A!Halt, A!Working, ActivityInv, A!TypeOK
<1>2. A!OneRunner' /\ ResultsMatchItem'
  BY <1>1 DEF A!Halt, ActivityInv, A!OneRunner, ResultsMatchItem
<1>3. ASSUME NEW q \in A!Runner, A!Working(q)'
      PROVE  item' = "queued" /\ lock' = [host |-> A!HostOf(q), run |-> "this"]
  <2>1. lock = [host |-> A!HostOf(q), run |-> "this"] /\ item = "queued" /\ A!HostOf(q) # h
    BY <1>1, <1>3 DEF ActivityInv, WorkingHoldsLock
  <2>2. lock.host # h
    BY <2>1
  <2> QED  BY <2>1, <2>2 DEF A!Halt
<1>4. OldLockIsOld'
  <2> SUFFICES ASSUME NEW q \in itemOf', pc'[q] = "lock", sawLock'[q] = "old"
               PROVE  lock' = None \/ lock'.run = "old"
    BY DEF OldLockIsOld
  <2>1. q \in itemOf /\ pc[q] = "lock" /\ sawLock[q] = "old"
    BY DEF A!Halt, ActivityInv, A!TypeOK
  <2>2. lock = None \/ lock.run = "old"
    BY <2>1 DEF ActivityInv, OldLockIsOld
  <2> QED  BY <2>2 DEF A!Halt, ActivityInv, A!TypeOK, A!Lock
<1> QED  BY <1>2, <1>3, <1>4 DEF ActivityInv, WorkingHoldsLock

\* Every step of the system keeps the invariant.
LEMMA ActivityStepInv == Assumed /\ Punctual /\ ActivityInv /\ [A!Next]_(A!vars) => ActivityInv'
<1> SUFFICES ASSUME Assumed, Punctual, ActivityInv, [A!Next]_(A!vars) PROVE ActivityInv'
  OBVIOUS
<1>1. A!TypeOK'
  BY ActivityStepType DEF ActivityInv
<1>2. CASE A!Schedule
  <2>1. \A q \in A!Runner : ~A!Working(q)
    BY <1>2 DEF A!Schedule, ActivityInv, WorkingHoldsLock
  <2>2. A!OneRunner' /\ WorkingHoldsLock'
    BY <1>2, <2>1 DEF A!Schedule, A!OneRunner, WorkingHoldsLock, A!Working
  <2>3. ResultsMatchItem' /\ OldLockIsOld'
    BY <1>2 DEF A!Schedule, ActivityInv, ResultsMatchItem, OldLockIsOld
  <2> QED  BY <1>1, <2>2, <2>3 DEF ActivityInv
<1>3. ASSUME NEW r \in A!Runner, A!GetItem(r) \/ A!GetStaleItem(r)
      PROVE  ActivityInv'
  <2>1. \A q \in A!Runner : A!Working(q)' => A!Working(q)
    BY <1>3 DEF A!GetItem, A!GetStaleItem, A!Goto, A!Working, ActivityInv, A!TypeOK
  <2>2. \A q \in itemOf' : pc'[q] = "lock"
            => q \in itemOf /\ pc[q] = "lock" /\ sawLock'[q] = sawLock[q]
    BY <1>3 DEF A!GetItem, A!GetStaleItem, A!Goto, ActivityInv, A!TypeOK
  <2> QED  BY <1>1, <1>3, <2>1, <2>2, ActivityQuietStep DEF A!GetItem, A!GetStaleItem
<1>4. ASSUME NEW r \in A!Runner, A!GetLock(r)
      PROVE  ActivityInv'
  <2>1. \A q \in A!Runner : A!Working(q)' => A!Working(q)
    BY <1>4 DEF A!GetLock, A!Return, A!Goto, A!Working, ActivityInv, A!TypeOK
  <2>2. ASSUME NEW q \in itemOf', pc'[q] = "lock", sawLock'[q] = "old"
        PROVE  \/ q \in itemOf /\ pc[q] = "lock" /\ sawLock[q] = "old"
               \/ lock = None \/ lock.run = "old"
    BY <1>4, <2>2 DEF A!GetLock, A!Return, A!Goto, A!Reassignable, ActivityInv, A!TypeOK
  <2> QED  BY <1>1, <1>4, <2>1, <2>2, ActivityQuietStep DEF A!GetLock
<1>5. ASSUME NEW r \in A!Runner,
             \/ A!PollCanceled(r) \/ A!RequestFails(r) \/ A!Finish(r) \/ A!CompleteGet(r)
             \/ A!ExtendGetItem(r) \/ A!ExtendGetLock(r)
      PROVE  ActivityInv'
  <2>1. UNCHANGED <<item, lock, results>> /\ itemOf' \subseteq itemOf
    BY <1>5 DEF A!PollCanceled, A!RequestFails, A!Finish, A!CompleteGet, A!ExtendGetItem,
                A!ExtendGetLock, A!Return
  <2>2. \A q \in A!Runner : A!Working(q)' => A!Working(q)
    BY <1>5 DEF A!PollCanceled, A!RequestFails, A!Finish, A!CompleteGet, A!ExtendGetItem,
                A!ExtendGetLock, A!Return, A!Goto, A!Working, ActivityInv, A!TypeOK
  <2>3. \A q \in itemOf' : pc'[q] = "lock" => pc[q] = "lock" /\ sawLock'[q] = sawLock[q]
    BY <1>5 DEF A!PollCanceled, A!RequestFails, A!Finish, A!CompleteGet, A!ExtendGetItem,
                A!ExtendGetLock, A!Return, A!Goto, ActivityInv, A!TypeOK
  <2> QED  BY <1>1, <2>1, <2>2, <2>3, ActivityQuietStep
<1>6. ASSUME NEW h \in Host, A!Crash(h) \/ A!Exit(h)
      PROVE  ActivityInv'
  BY <1>1, <1>6, HaltInv DEF A!Crash, A!Exit
<1>7. ASSUME NEW h \in Host, A!Shutdown(h) \/ A!Boot(h)
      PROVE  ActivityInv'
  BY <1>1, <1>7, ActivityQuietStep DEF A!Shutdown, A!Boot, A!Working
<1>8. CASE UNCHANGED A!vars
  BY <1>1, <1>8, ActivityQuietStep DEF A!vars, A!Working
<1> QED  BY <1>1, <1>2, <1>3, <1>4, <1>5, <1>6, <1>7, <1>8, ActivityLockTaskInv,
            CompleteActivityTaskInv, ExtendInv, LockExpiresInv DEF A!Next, A!Poll, A!Complete

\* Under a lock that is prolonged in time an activity is run by one goroutine
\* at a time, through crashes, restarts, shutdowns and failed requests, and
\* CompleteActivityTask, which checks neither lock nor item, records one result.
THEOREM RunAndRecordedOnceHolds ==
  Assumed /\ Punctual => (A!Spec => []A!RunAndRecordedOnce)
<1> SUFFICES ASSUME Assumed, Punctual PROVE A!Spec => []A!RunAndRecordedOnce
  OBVIOUS
<1>1. A!Init => ActivityInv
  BY ActivityInitInv
<1>2. ActivityInv /\ [A!Next]_(A!vars) => ActivityInv'
  BY ActivityStepInv
<1>3. ActivityInv => A!RunAndRecordedOnce
  BY DEF ActivityInv, A!RunAndRecordedOnce, A!OneResult, ResultsMatchItem
<1> QED  BY <1>1, <1>2, <1>3, PTL DEF A!Spec

=============================================================================
