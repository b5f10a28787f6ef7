---------------------------- MODULE ActivityTasks ----------------------------
(***************************************************************************)
(* How the hosts that serve a queue share one activity of a workflow       *)
(* (server/internal/workflows/backend/etcd/etcd.go, worker.go): a queue    *)
(* item and a lock in etcd, GetActivityTask, ExtendActivityTask and        *)
(* CompleteActivityTask, every request a step of its own, and the graceful *)
(* shutdown of a host.                                                     *)
(*                                                                         *)
(* As in WorkflowTasks, a version check is modelled by the set of runners  *)
(* whose copy of the record is still current.                              *)
(***************************************************************************)
EXTENDS Naturals, FiniteSets

CONSTANTS
    Host,       \* the hosts (b.workerID)
    Slot,       \* the goroutines of a host that run activities
    None,       \* no lock
    Punctual,   \* TRUE: a lock is prolonged in time by a runner that needs it
    MaxFaults,  \* bound: failed requests and crashes
    MaxStops,   \* bound: graceful shutdowns
    MaxRuns     \* bound: how often the activity is started

ASSUME HostsAreFinite     == IsFiniteSet(Host) /\ IsFiniteSet(Slot)
ASSUME PunctualIsBoolean  == Punctual \in BOOLEAN
ASSUME BoundsAreNat       == MaxFaults \in Nat /\ MaxStops \in Nat /\ MaxRuns \in Nat

\* run = "old": the lock belongs to an earlier run of that host.
Lock == [host : Host, run : {"this", "old"}]

ASSUME NoneIsNoLock == None \notin Lock

Runner    == Host \X Slot
HostOf(r) == r[1]

VARIABLES
    item,      \* activity_queue_item: "none", "queued", "gone"
    lock,      \* activity_lock: None or its holder
    results,   \* pending events with a result of the activity
    runs,      \* history: how often the activity was started
    up,        \* a host is "up", "stopping" (caches stopped) or "down"
    pc,        \* the step of each runner
    itemOf,    \* runners whose copy of the queue item is current
    sawLock,   \* what GetActivityTask found: "none", "old"
    hb,        \* the heartbeat of each runner: "off", "item", "none", "some"
    hbItem,    \* runners whose heartbeat has a current copy of the item
    faults, stops

vars == <<item, lock, results, runs, up, pc, itemOf, sawLock, hb, hbItem, faults, stops>>

TypeOK ==
    /\ item \in {"none", "queued", "gone"}
    /\ lock \in Lock \cup {None}
    /\ results \in Nat
    /\ runs \in 0 .. MaxRuns
    /\ up \in [Host -> {"up", "stopping", "down"}]
    /\ pc \in [Runner -> {"idle", "item", "lock", "running", "done", "found"}]
    /\ itemOf \in SUBSET {r \in Runner : pc[r] \in {"item", "lock"}}
    /\ sawLock \in [Runner -> {"none", "old"}]
    /\ hb \in [Runner -> {"off", "item", "none", "some"}]
    /\ hbItem \in SUBSET {r \in Runner : hb[r] # "off"}
    /\ faults \in 0 .. MaxFaults
    /\ stops \in 0 .. MaxStops

Init ==
    /\ item = "none"
    /\ lock = None
    /\ results = 0
    /\ runs = 0
    /\ up = [h \in Host |-> "up"]
    /\ pc = [r \in Runner |-> "idle"]
    /\ itemOf = {}
    /\ sawLock = [r \in Runner |-> "none"]
    /\ hb = [r \in Runner |-> "off"]
    /\ hbItem = {}
    /\ faults = 0
    /\ stops = 0

Goto(r, s) == pc' = [pc EXCEPT ![r] = s]

\* The runner returns from the call, or moves on to the next queue item.
Return(r) ==
    /\ Goto(r, "idle")
    /\ itemOf' = itemOf \ {r}
    /\ sawLock' = [sawLock EXCEPT ![r] = "none"]

-----------------------------------------------------------------------------
(***************************************************************************)
(* The workflow schedules the activity; GetActivityTask                    *)
(***************************************************************************)

\* CompleteWorkflowTask of the task that scheduled it.
Schedule ==
    /\ item = "none"
    /\ item' = "queued"
    /\ UNCHANGED <<lock, results, runs, up, pc, itemOf, sawLock, hb, hbItem, faults, stops>>

\* activityMu: one call per host at a time.
Polling(h) == \E s \in Slot : pc[<<h, s>>] \in {"item", "lock"}

\* The queue items come from the cache, which may lag behind.
GetItem(r) ==
    /\ up[HostOf(r)] = "up"
    /\ pc[r] = "idle" /\ hb[r] = "off" /\ ~Polling(HostOf(r))
    /\ item = "queued"
    /\ itemOf' = itemOf \cup {r}
    /\ Goto(r, "item")
    /\ UNCHANGED <<item, lock, results, runs, up, sawLock, hb, hbItem, faults, stops>>

GetStaleItem(r) ==
    /\ up[HostOf(r)] = "up"
    /\ pc[r] = "idle" /\ hb[r] = "off" /\ ~Polling(HostOf(r))
    /\ item # "none"
    /\ Goto(r, "item")
    /\ UNCHANGED <<item, lock, results, runs, up, itemOf, sawLock, hb, hbItem, faults, stops>>

\* CanBeReassignedTo.
Reassignable(h) == lock = [host |-> h, run |-> "old"]

GetLock(r) ==
    /\ up[HostOf(r)] = "up"
    /\ pc[r] = "item"
    /\ IF lock = None \/ Reassignable(HostOf(r))
       THEN /\ sawLock' = [sawLock EXCEPT ![r] = IF lock = None THEN "none" ELSE "old"]
            /\ Goto(r, "lock")
            /\ UNCHANGED itemOf
       ELSE Return(r)
    /\ UNCHANGED <<item, lock, results, runs, up, hb, hbItem, faults, stops>>

\* Mutant of CanLock: the queue item is not updated with the lock.
MutCanLock(r) == lock = None <=> sawLock[r] = "none"

\* The conditions of the transaction that takes the task.
CanLock(r) ==
    /\ item = "queued" /\ r \in itemOf
    /\ lock = None <=> sawLock[r] = "none"

\* The transaction over lock and queue item; the activity starts.
LockTask(r) ==
    /\ up[HostOf(r)] = "up"
    /\ pc[r] = "lock"
    /\ IF CanLock(r)
       THEN /\ runs < MaxRuns
            /\ lock' = [host |-> HostOf(r), run |-> "this"]
            /\ itemOf' = {}
            /\ hbItem' = {}
            /\ runs' = runs + 1
            /\ Goto(r, "running")
            /\ UNCHANGED sawLock
       ELSE Return(r) /\ UNCHANGED <<lock, hbItem, runs>>
    /\ UNCHANGED <<item, results, up, hb, faults, stops>>

\* The shutdown of the host cancels the context of its pollers.
PollCanceled(r) ==
    /\ up[HostOf(r)] = "stopping"
    /\ pc[r] \in {"item", "lock"}
    /\ Return(r)
    /\ UNCHANGED <<item, lock, results, runs, up, hb, hbItem, faults, stops>>

-----------------------------------------------------------------------------
(***************************************************************************)
(* ExtendActivityTask and CompleteActivityTask                             *)
(***************************************************************************)

Working(r) == pc[r] \in {"running", "done", "found"}

\* Both look the item up in the cache, which is empty once it is stopped.
InCache(h) == item = "queued" /\ up[h] = "up"

ExtendGetItem(r) ==
    /\ hb[r] = "off" /\ Working(r)
    /\ InCache(HostOf(r))
    /\ hb' = [hb EXCEPT ![r] = "item"]
    /\ hbItem' = hbItem \cup {r}
    /\ UNCHANGED <<item, lock, results, runs, up, pc, itemOf, sawLock, faults, stops>>

ExtendGetLock(r) ==
    /\ hb[r] = "item"
    /\ hb' = [hb EXCEPT ![r] = IF lock = None THEN "none" ELSE "some"]
    /\ UNCHANGED <<item, lock, results, runs, up, pc, itemOf, sawLock, hbItem, faults, stops>>

ExtendActivityTask(r) ==
    /\ hb[r] \in {"none", "some"}
    /\ hb' = [hb EXCEPT ![r] = "off"]
    /\ IF item = "queued" /\ r \in hbItem /\ (lock = None <=> hb[r] = "none")
       THEN /\ lock' = IF lock = None THEN [host |-> HostOf(r), run |-> "this"] ELSE lock
            /\ itemOf' = {}
            /\ hbItem' = {}
       ELSE UNCHANGED <<lock, itemOf>> /\ hbItem' = hbItem \ {r}
    /\ UNCHANGED <<item, results, runs, up, pc, sawLock, faults, stops>>

\* The activity returns.
Finish(r) ==
    /\ pc[r] = "running"
    /\ Goto(r, "done")
    /\ UNCHANGED <<item, lock, results, runs, up, itemOf, sawLock, hb, hbItem, faults, stops>>

\* "could not find pending activity": the result is dropped.  The cache of a
\* host that is up may still show an item that another runner has completed.
CompleteGet(r) ==
    /\ pc[r] = "done"
    /\ \E found \in {InCache(HostOf(r)), up[HostOf(r)] = "up"} :
         IF found THEN Goto(r, "found") /\ UNCHANGED <<itemOf, sawLock>> ELSE Return(r)
    /\ UNCHANGED <<item, lock, results, runs, up, hb, hbItem, faults, stops>>

\* The transaction has no condition on the lock or on the queue item.
CompleteActivityTask(r) ==
    /\ pc[r] = "found"
    /\ Goto(r, "idle")
    /\ sawLock' = [sawLock EXCEPT ![r] = "none"]
    /\ lock' = None
    /\ item' = "gone"
    /\ itemOf' = {}
    /\ hbItem' = {}
    /\ results' = results + 1
    /\ UNCHANGED <<runs, up, hb, faults, stops>>

-----------------------------------------------------------------------------
(***************************************************************************)
(* Time, faults and shutdown                                               *)
(***************************************************************************)

\* Some runner of the run that took the lock still needs it.
Needed(h) == \E s \in Slot : Working(<<h, s>>)

\* Mutant of LockExpires: the lock is written without a TTL.
MutLockExpires == FALSE /\ UNCHANGED vars

LockExpires ==
    /\ lock # None
    /\ Punctual => ~(lock.run = "this" /\ Needed(lock.host))
    /\ lock' = None
    /\ UNCHANGED <<item, results, runs, up, pc, itemOf, sawLock, hb, hbItem, faults, stops>>

\* A request fails: the call returns the error.
RequestFails(r) ==
    /\ faults < MaxFaults
    /\ faults' = faults + 1
    /\ pc[r] \in {"item", "lock", "done", "found"}
    /\ Return(r)
    /\ UNCHANGED <<item, lock, results, runs, up, hb, hbItem, stops>>

\* The process of the host ends; its next run may take over its locks.
Halt(h) ==
    /\ pc' = [r \in Runner |-> IF HostOf(r) = h THEN "idle" ELSE pc[r]]
    /\ itemOf' = {r \in itemOf : HostOf(r) # h}
    /\ sawLock' = [r \in Runner |-> IF HostOf(r) = h THEN "none" ELSE sawLock[r]]
    /\ hb' = [r \in Runner |-> IF HostOf(r) = h THEN "off" ELSE hb[r]]
    /\ hbItem' = {r \in hbItem : HostOf(r) # h}
    /\ lock' = IF lock # None /\ lock.host = h THEN [lock EXCEPT !.run = "old"] ELSE lock
    /\ up' = [up EXCEPT ![h] = "down"]
    /\ UNCHANGED <<item, results, runs>>

Crash(h) ==
    /\ up[h] # "down"
    /\ faults < MaxFaults
    /\ faults' = faults + 1
    /\ Halt(h)
    /\ UNCHANGED stops

\* Shutdown of the worker: no more polling, then the caches are stopped ...
Shutdown(h) ==
    /\ up[h] = "up"
    /\ stops < MaxStops
    /\ stops' = stops + 1
    /\ up' = [up EXCEPT ![h] = "stopping"]
    /\ UNCHANGED <<item, lock, results, runs, pc, itemOf, sawLock, hb, hbItem, faults>>

\* ... then WaitForCompletion returns when the active tasks have ended.
Exit(h) ==
    /\ up[h] = "stopping"
    /\ \A s \in Slot : pc[<<h, s>>] = "idle"
    /\ Halt(h)
    /\ UNCHANGED <<faults, stops>>

Boot(h) ==
    /\ up[h] = "down"
    /\ up' = [up EXCEPT ![h] = "up"]
    /\ UNCHANGED <<item, lock, results, runs, pc, itemOf, sawLock, hb, hbItem, faults, stops>>

-----------------------------------------------------------------------------

Poll(r)     == GetItem(r) \/ GetLock(r) \/ LockTask(r) \/ PollCanceled(r)
Complete(r) == Finish(r) \/ CompleteGet(r) \/ CompleteActivityTask(r)

Next ==
    \/ Schedule
    \/ \E r \in Runner : \/ Poll(r) \/ GetStaleItem(r)
                         \/ Complete(r)
                         \/ ExtendGetItem(r) \/ ExtendGetLock(r) \/ ExtendActivityTask(r)
                         \/ RequestFails(r)
    \/ \E h \in Host : Crash(h) \/ Shutdown(h) \/ Exit(h) \/ Boot(h)
    \/ LockExpires

Spec == Init /\ [][Next]_vars

\* Hosts keep polling and finish what they started, activities end, caches
\* catch up, leases that nobody renews run out, and hosts come back.
FairSpec ==
    /\ Spec
    /\ \A r \in Runner : /\ SF_vars(GetItem(r))
                         /\ WF_vars(Poll(r))
                         /\ WF_vars(Complete(r))
                         /\ WF_vars(ExtendGetLock(r) \/ ExtendActivityTask(r))
    /\ \A h \in Host : WF_vars(Exit(h)) /\ WF_vars(Boot(h))
    /\ WF_vars(LockExpires)

-----------------------------------------------------------------------------
(***************************************************************************)
(* Properties                                                              *)
(***************************************************************************)

\* The workflow gets one result of the activity, whatever is retried.
OneResult == results <= 1

\* The activity is never run by two goroutines at a time.
OneRunner == \A q, r \in Runner : Working(q) /\ Working(r) => q = r

\* Lock and queue item together: one goroutine at a time runs the activity, and
\* completing it, which checks neither lock nor version, records one result.
RunAndRecordedOnce == OneRunner /\ OneResult

\* The queue item goes only when a result is recorded, and then it is gone:
\* an activity is neither lost nor run after its result.
QueuedUntilResult == item = "gone" <=> results > 0

\* A graceful shutdown waits for "active tasks to complete": without crashes
\* and lapsed locks the activity is run once.
RunOnce == runs <= 1

\* A scheduled activity delivers its result to the workflow.
ResultArrives == item = "queued" ~> results > 0

=============================================================================
