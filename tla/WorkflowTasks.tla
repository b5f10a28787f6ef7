---------------------------- MODULE WorkflowTasks ----------------------------
(***************************************************************************)
(* How the hosts share the tasks of one workflow execution                 *)
(* (server/internal/workflows/backend/etcd/etcd.go).  The records of the   *)
(* execution live in etcd; each host polls them in GetWorkflowTask, runs   *)
(* the workflow with the events it found, prolongs its lock meanwhile and  *)
(* writes the outcome in CompleteWorkflowTask.  Every request to etcd is a *)
(* step of its own.                                                        *)
(*                                                                         *)
(* A version check compares a record with the copy that was read; it is    *)
(* modelled by the set of hosts whose copy is still current (itemOf,       *)
(* hbItem, instOf).  Every write of the lock also writes the queue item,   *)
(* so next to the item's check that of the lock only asks whether the lock *)
(* still exists.                                                           *)
(***************************************************************************)
EXTENDS Naturals, FiniteSets

CONSTANTS
    Worker,     \* the hosts (b.workerID)
    Event,      \* the events sent to the execution
    First,      \* the event that starts it
    None,       \* no lock, no sticky host
    Punctual,   \* TRUE: a lock is prolonged in time by a host that needs it
    MaxFaults,  \* bound: failed requests and restarts
    MaxSeq      \* bound: workflow tasks in the history

ASSUME WorkersAreFinite   == IsFiniteSet(Worker)
ASSUME FirstIsEvent       == First \in Event
ASSUME PunctualIsBoolean  == Punctual \in BOOLEAN
ASSUME BoundsAreNat       == MaxFaults \in Nat /\ MaxSeq \in Nat

\* run = "old": the lock belongs to an earlier run of that host
\* (CanBeReassignedTo compares the worker instance IDs).
Lock == [worker : Worker, run : {"this", "old"}]

ASSUME NoneIsNoValue == None \notin Worker /\ None \notin Lock

VARIABLES
    state,     \* workflow_instance: "none", "active", "finished", "removed"
    item,      \* workflow_queue_item: "none", "queued", "gone"
    lock,      \* workflow_instance_lock: None or its holder
    sticky,    \* workflow_instance_sticky: None or a host
    pend,      \* pending_event: the events not handled yet
    seqID,     \* the last sequence ID of the history
    times,     \* history_event: how often an event is in the history
    sent,      \* what became of an event: "new", "checked", "sent"
    pc,        \* the step of each host
    itemOf,    \* hosts whose copy of the queue item is current
    sawLock,   \* what GetWorkflowTask found: "none", "old"
    events,    \* task.NewEvents
    lastSeq,   \* task.LastSequenceID
    instOf,    \* hosts whose copy of the instance is current
    hb,        \* the heartbeat of each host: "off", "item", "none", "some"
    hbItem,    \* hosts whose heartbeat has a current copy of the item
    faults

etcd    == <<state, item, lock, sticky, pend, seqID, times>>
polling == <<itemOf, sawLock, events, lastSeq, instOf>>
beat    == <<hb, hbItem>>
vars    == <<etcd, sent, pc, polling, beat, faults>>

Steps == {"idle", "item", "lock", "sticky", "events", "locked", "task", "completing"}

TypeOK ==
    /\ state \in {"none", "active", "finished", "removed"}
    /\ item \in {"none", "queued", "gone"}
    /\ lock \in Lock \cup {None}
    /\ sticky \in Worker \cup {None}
    /\ pend \in SUBSET Event
    /\ seqID \in 0 .. MaxSeq
    /\ times \in [Event -> Nat]
    /\ sent \in [Event -> {"new", "checked", "sent"}]
    /\ pc \in [Worker -> Steps]
    /\ itemOf \in SUBSET Worker
    /\ sawLock \in [Worker -> {"none", "old"}]
    /\ events \in [Worker -> SUBSET Event]
    /\ lastSeq \in [Worker -> Nat]
    /\ instOf \in SUBSET Worker
    /\ hb \in [Worker -> {"off", "item", "none", "some"}]
    /\ hbItem \in SUBSET Worker
    /\ faults \in 0 .. MaxFaults

Init ==
    /\ state = "none"
    /\ item = "none"
    /\ lock = None
    /\ sticky = None
    /\ pend = {}
    /\ seqID = 0
    /\ times = [e \in Event |-> 0]
    /\ sent = [e \in Event |-> "new"]
    /\ pc = [w \in Worker |-> "idle"]
    /\ itemOf = {}
    /\ sawLock = [w \in Worker |-> "none"]
    /\ events = [w \in Worker |-> {}]
    /\ lastSeq = [w \in Worker |-> 0]
    /\ instOf = {}
    /\ hb = [w \in Worker |-> "off"]
    /\ hbItem = {}
    /\ faults = 0

Goto(w, s) == pc' = [pc EXCEPT ![w] = s]

\* The host returns from the call, or moves on to the next queue item: what
\* it had read is gone.
Return(w) ==
    /\ Goto(w, "idle")
    /\ itemOf' = itemOf \ {w}
    /\ instOf' = instOf \ {w}
    /\ sawLock' = [sawLock EXCEPT ![w] = "none"]
    /\ events' = [events EXCEPT ![w] = {}]
    /\ lastSeq' = [lastSeq EXCEPT ![w] = 0]

-----------------------------------------------------------------------------
(***************************************************************************)
(* The clients of the workflow                                             *)
(***************************************************************************)

CreateWorkflowInstance ==
    /\ state = "none"
    /\ state' = "active"
    /\ item' = "queued"
    /\ pend' = {First}
    /\ sent' = [sent EXCEPT ![First] = "sent"]
    /\ UNCHANGED <<lock, sticky, seqID, times, pc, polling, beat, faults>>

\* SignalWorkflow looks for an active instance, CancelWorkflowInstance for any ...
CheckInstance(e) ==
    /\ sent[e] = "new" /\ e # First
    /\ state \in {"active", "finished"}
    /\ sent' = [sent EXCEPT ![e] = "checked"]
    /\ UNCHANGED <<etcd, pc, polling, beat, faults>>

\* ... and create the pending event in a request of its own.
SendEvent(e) ==
    /\ sent[e] = "checked"
    /\ sent' = [sent EXCEPT ![e] = "sent"]
    /\ pend' = pend \cup {e}
    /\ UNCHANGED <<state, item, lock, sticky, seqID, times, pc, polling, beat, faults>>

\* RemoveWorkflowInstance(s): the pending events stay behind.
RemoveWorkflowInstance ==
    /\ state = "finished"
    /\ state' = "removed"
    /\ seqID' = 0
    /\ times' = [e \in Event |-> 0]
    /\ instOf' = {}
    /\ UNCHANGED <<item, lock, sticky, pend, sent, pc, itemOf, sawLock, events, lastSeq,
                   beat, faults>>

-----------------------------------------------------------------------------
(***************************************************************************)
(* GetWorkflowTask                                                         *)
(***************************************************************************)

\* The queue items come from the cache of the host, which may lag behind:
\* then the copy is not current.
GetItem(w) ==
    /\ pc[w] = "idle"
    /\ item = "queued"
    /\ itemOf' = itemOf \cup {w}
    /\ Goto(w, "item")
    /\ UNCHANGED <<etcd, sent, sawLock, events, lastSeq, instOf, beat, faults>>

GetStaleItem(w) ==
    /\ pc[w] = "idle"
    /\ item # "none"
    /\ itemOf' = itemOf \ {w}
    /\ Goto(w, "item")
    /\ UNCHANGED <<etcd, sent, sawLock, events, lastSeq, instOf, beat, faults>>

GetLock(w) ==
    /\ pc[w] = "item"
    /\ IF lock = None \/ lock = [worker |-> w, run |-> "old"]
       THEN /\ sawLock' = [sawLock EXCEPT ![w] = IF lock = None THEN "none" ELSE "old"]
            /\ Goto(w, "lock")
            /\ UNCHANGED <<itemOf, events, lastSeq, instOf>>
       ELSE Return(w)
    /\ UNCHANGED <<etcd, sent, beat, faults>>

\* Mutant of StickyAllows: a missing sticky record is not taken as consent.
MutStickyAllows(w) == sticky = w

\* Another host that ran the workflow lately is given time to come back.
StickyAllows(w) == sticky \in {None, w}

GetSticky(w) ==
    /\ pc[w] = "lock"
    /\ IF StickyAllows(w)
       THEN Goto(w, "sticky") /\ UNCHANGED polling
       ELSE Return(w)
    /\ UNCHANGED <<etcd, sent, beat, faults>>

GetEvents(w) ==
    /\ pc[w] = "sticky"
    /\ IF pend # {}
       THEN /\ events' = [events EXCEPT ![w] = pend]
            /\ Goto(w, "events")
            /\ UNCHANGED <<itemOf, sawLock, lastSeq, instOf>>
       ELSE Return(w)
    /\ UNCHANGED <<etcd, sent, beat, faults>>

\* Mutant of CanLock: the queue item is not updated with the lock.
MutCanLock(w) == lock = None <=> sawLock[w] = "none"

\* The conditions of the transaction that takes the task.
CanLock(w) ==
    /\ item = "queued" /\ w \in itemOf
    /\ lock = None <=> sawLock[w] = "none"

\* The transaction: lock, sticky and queue item.
LockTask(w) ==
    /\ pc[w] = "events"
    /\ IF CanLock(w)
       THEN /\ lock' = [worker |-> w, run |-> "this"]
            /\ sticky' = w
            /\ itemOf' = {}
            /\ hbItem' = {}
            /\ Goto(w, "locked")
            /\ UNCHANGED <<sawLock, events, lastSeq, instOf>>
       ELSE Return(w) /\ UNCHANGED <<lock, sticky, hbItem>>
    /\ UNCHANGED <<state, item, pend, seqID, times, sent, hb, faults>>

GetLastSequenceID(w) ==
    /\ pc[w] = "locked"
    /\ lastSeq' = [lastSeq EXCEPT ![w] = seqID]
    /\ Goto(w, "task")
    /\ UNCHANGED <<etcd, sent, itemOf, sawLock, events, instOf, beat, faults>>

-----------------------------------------------------------------------------
(***************************************************************************)
(* ExtendWorkflowTask, the heartbeat of a host that works on the task      *)
(***************************************************************************)

Working(w) == pc[w] \in {"task", "completing"}

ExtendGetItem(w) ==
    /\ hb[w] = "off" /\ Working(w)
    /\ item = "queued"
    /\ hb' = [hb EXCEPT ![w] = "item"]
    /\ hbItem' = hbItem \cup {w}
    /\ UNCHANGED <<etcd, sent, pc, polling, faults>>

ExtendGetLock(w) ==
    /\ hb[w] = "item"
    /\ hb' = [hb EXCEPT ![w] = IF lock = None THEN "none" ELSE "some"]
    /\ UNCHANGED <<etcd, sent, pc, polling, hbItem, faults>>

\* The lock that was read is written back, whoever holds it; one that did
\* not exist is created for this host.
ExtendWorkflowTask(w) ==
    /\ hb[w] \in {"none", "some"}
    /\ hb' = [hb EXCEPT ![w] = "off"]
    /\ IF item = "queued" /\ w \in hbItem /\ (lock = None <=> hb[w] = "none")
       THEN /\ lock' = IF lock = None THEN [worker |-> w, run |-> "this"] ELSE lock
            /\ itemOf' = {}
            /\ hbItem' = {}
       ELSE UNCHANGED <<lock, itemOf>> /\ hbItem' = hbItem \ {w}
    /\ UNCHANGED <<state, item, sticky, pend, seqID, times, sent, pc, sawLock, events,
                   lastSeq, instOf, faults>>

-----------------------------------------------------------------------------
(***************************************************************************)
(* CompleteWorkflowTask                                                    *)
(***************************************************************************)

CompleteGet(w) ==
    /\ pc[w] = "task"
    /\ IF state = "removed"
       THEN Return(w)
       ELSE /\ Goto(w, "completing")
            /\ instOf' = instOf \cup {w}
            /\ UNCHANGED <<itemOf, sawLock, events, lastSeq>>
    /\ UNCHANGED <<etcd, sent, beat, faults>>

\* The transaction creates the history events that follow lastSeq and
\* updates the instance; it does not ask who holds the lock.
Accepted(w) == w \in instOf /\ seqID = lastSeq[w]

\* Mutant of Handled: every pending event is deleted with the task.
MutHandled(w) == pend

\* The pending events that the transaction deletes.
Handled(w) == events[w]

\* The queue item is deleted with the last task.
LeavesQueue(s) == s = "finished"

CompleteWorkflowTask(w, s) ==
    /\ pc[w] = "completing"
    /\ IF Accepted(w)
       THEN /\ seqID < MaxSeq
            /\ seqID' = seqID + 1
            /\ times' = [e \in Event |-> IF e \in events[w] THEN times[e] + 1 ELSE times[e]]
            /\ pend' = pend \ Handled(w)
            /\ lock' = None
            /\ sticky' = w
            /\ state' = s
            /\ instOf' = {}
            /\ IF LeavesQueue(s)
               THEN item' = "gone" /\ itemOf' = {} /\ hbItem' = {}
               ELSE UNCHANGED <<item, itemOf, hbItem>>
            /\ Goto(w, "idle")
            /\ sawLock' = [sawLock EXCEPT ![w] = "none"]
            /\ events' = [events EXCEPT ![w] = {}]
            /\ lastSeq' = [lastSeq EXCEPT ![w] = 0]
       ELSE Return(w) /\ UNCHANGED <<etcd, hbItem>>
    /\ UNCHANGED <<sent, hb, faults>>

-----------------------------------------------------------------------------
(***************************************************************************)
(* Time and faults                                                         *)
(***************************************************************************)

\* The host needs its lock from the moment it has it until it has completed.
Needs(w) == pc[w] \in {"locked", "task", "completing"}

LockExpires ==
    /\ lock # None
    /\ Punctual => ~(lock.run = "this" /\ Needs(lock.worker))
    /\ lock' = None
    /\ UNCHANGED <<state, item, sticky, pend, seqID, times, sent, pc, polling, beat, faults>>

StickyExpires ==
    /\ sticky # None
    /\ sticky' = None
    /\ UNCHANGED <<state, item, lock, pend, seqID, times, sent, pc, polling, beat, faults>>

\* A request fails: GetWorkflowTask or CompleteWorkflowTask returns the error.
RequestFails(w) ==
    /\ faults < MaxFaults
    /\ faults' = faults + 1
    /\ pc[w] # "idle"
    /\ Return(w)
    /\ UNCHANGED <<etcd, sent, beat>>

\* The host restarts: a lock of its earlier run can be reassigned to it.
Restart(w) ==
    /\ faults < MaxFaults
    /\ faults' = faults + 1
    /\ Return(w)
    /\ hb' = [hb EXCEPT ![w] = "off"]
    /\ hbItem' = hbItem \ {w}
    /\ lock' = IF lock # None /\ lock.worker = w THEN [lock EXCEPT !.run = "old"] ELSE lock
    /\ UNCHANGED <<state, item, sticky, pend, seqID, times, sent>>

-----------------------------------------------------------------------------

Poll(w) ==
    \/ GetItem(w) \/ GetLock(w) \/ GetSticky(w) \/ GetEvents(w)
    \/ LockTask(w) \/ GetLastSequenceID(w)

Complete(w) ==
    \/ CompleteGet(w)
    \/ \E s \in {"active", "finished"} : CompleteWorkflowTask(w, s)

Heartbeat(w) == ExtendGetItem(w) \/ ExtendGetLock(w) \/ ExtendWorkflowTask(w)

Next ==
    \/ CreateWorkflowInstance
    \/ \E e \in Event : CheckInstance(e) \/ SendEvent(e)
    \/ RemoveWorkflowInstance
    \/ \E w \in Worker : \/ Poll(w) \/ GetStaleItem(w)
                         \/ Complete(w) \/ Heartbeat(w)
                         \/ RequestFails(w) \/ Restart(w)
    \/ LockExpires \/ StickyExpires

Spec == Init /\ [][Next]_vars

\* Hosts keep polling (the worker polls every 200 ms) and finish what they
\* started, their caches catch up, and leases that nobody renews run out.
FairSpec ==
    /\ Spec
    /\ \A w \in Worker : /\ SF_vars(GetItem(w))
                         /\ WF_vars(Poll(w))
                         /\ WF_vars(Complete(w))
                         /\ WF_vars(ExtendGetLock(w) \/ ExtendWorkflowTask(w))
    /\ WF_vars(LockExpires) /\ WF_vars(StickyExpires)

-----------------------------------------------------------------------------
(***************************************************************************)
(* Properties                                                              *)
(***************************************************************************)

\* No event is run through the workflow twice, whatever restarts and failed
\* requests make the hosts repeat.
HandledOnce == \A e \in Event : times[e] <= 1

\* At most one host works on the execution.
OneOwner == \A v, w \in Worker : Needs(v) /\ Needs(w) => v = w

\* Lock, sequence IDs and versions together: one host at a time works on the
\* execution, and what it has handled is not handled again.
OwnedAndHandledOnce == OneOwner /\ HandledOnce

\* An event that was sent is waiting or in the history until the workflow is
\* removed; completing a task deletes no event that it has not handled.
NoLostEvent ==
    state # "removed" => \A e \in Event : sent[e] = "sent" => e \in pend \/ times[e] > 0

\* "Every workflow in the queue is active", and every active workflow is in
\* the queue: one that is not is never picked up again.
ActiveIsQueued == item = "queued" <=> state = "active"

\* Every event sent to a workflow is handled, or the workflow finishes.
EventsAreHandled ==
    \A e \in Event : e \in pend /\ state = "active" ~> e \notin pend \/ state # "active"

=============================================================================
