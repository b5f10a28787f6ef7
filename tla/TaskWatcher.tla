----------------------------- MODULE TaskWatcher -----------------------------
(***************************************************************************)
(* Watchers of one task (server/internal/task/watcher.go): the callers of  *)
(* Service.NewWatcher in one process share one watch stream, which a       *)
(* registry hands out and the last subscriber shuts down.                  *)
(*                                                                         *)
(* Every critical section of registry.mu, of sharedWatcher.mu and of       *)
(* shutdownOnce is one step.  A caller has one Watcher at a time.          *)
(***************************************************************************)
EXTENDS Naturals, Sequences

CONSTANTS
    Caller,      \* goroutines that watch the task
    MaxShared,   \* bound: shared watchers that are created
    MaxErrors    \* bound: streams that fail

VARIABLES
    log,         \* the statuses the task record has had; the last is current
    entry,       \* watcherRegistry.entries[taskID], or 0
    created,     \* number of shared watchers so far
    shared,      \* the shared watchers
    watcher,     \* the Watcher of each caller
    errors       \* streams that have failed

vars == <<log, entry, created, shared, watcher, errors>>

Status == {"pending", "running", "canceling", "completed", "failed", "canceled", "deleted"}
Answer == {"completed", "failed", "canceled"}

\* step: "open", "removed" from the registry, "closed".  reported: what
\* propagateErrors has done about an error of the stream.
Shared ==
    [subs : SUBSET Caller, terminal : Answer \cup {"none"}, finishing : SUBSET Caller,
     failed : BOOLEAN, reported : BOOLEAN, telling : SUBSET Caller,
     pos : 0 .. Len(log), step : {"none", "open", "removed", "closed"}]

Watcher ==
    [pc : {"idle", "waiting", "closing"}, of : 0 .. MaxShared,
     done : Answer \cup {"none"}, err : BOOLEAN]

TypeOK ==
    /\ log \in Seq(Status)
    /\ entry \in 0 .. created
    /\ created \in 0 .. MaxShared
    /\ shared \in [1 .. MaxShared -> Shared]
    /\ watcher \in [Caller -> Watcher]
    /\ errors \in 0 .. MaxErrors

NotCreated ==
    [subs |-> {}, terminal |-> "none", finishing |-> {}, failed |-> FALSE,
     reported |-> FALSE, telling |-> {}, pos |-> 0, step |-> "none"]

NoWatcher == [pc |-> "idle", of |-> 0, done |-> "none", err |-> FALSE]

ClosingOf(s) == [pc |-> "closing", of |-> s, done |-> "none", err |-> FALSE]

Init ==
    /\ log = <<"pending">>
    /\ entry = 0
    /\ created = 0
    /\ shared = [s \in 1 .. MaxShared |-> NotCreated]
    /\ watcher = [c \in Caller |-> NoWatcher]
    /\ errors = 0

Current == log[Len(log)]

\* The task record is written by others; TaskFeed says by whom and when.
ChangeTask(status) ==
    /\ \/ Current = "pending" /\ status \in {"running", "canceling", "failed", "deleted"}
       \/ Current = "running" /\ status \in {"canceling", "completed", "failed", "deleted"}
       \/ Current = "canceling" /\ status \in {"canceled", "completed", "failed", "deleted"}
       \/ Current \in Answer /\ status = "deleted"
    /\ log' = Append(log, status)
    /\ UNCHANGED <<entry, created, shared, watcher, errors>>

\* Mutant of Result: every status but running ends the watch.
MutResultPending(status) ==
    CASE status \in {"pending", "canceling", "canceled", "deleted"} -> "canceled"
      [] status \in {"completed", "failed"} -> status
      [] status = "running" -> "none"

\* handleEvent: how a watch of the task ends at an event.
Result(status) ==
    CASE status \in {"canceling", "canceled", "deleted"} -> "canceled"
      [] status \in {"completed", "failed"} -> status
      [] status \in {"pending", "running"} -> "none"

-----------------------------------------------------------------------------
(***************************************************************************)
(* acquire and release                                                     *)
(***************************************************************************)

\* newSubscription
Subscription(s, terminal, broken) ==
    [pc |-> "waiting", of |-> s, done |-> terminal,
     err |-> terminal = "none" /\ broken]

AcquireShared(c) ==
    /\ watcher[c].pc = "idle"
    /\ entry # 0
    /\ shared' = [shared EXCEPT ![entry].subs = @ \cup {c}]
    /\ watcher' = [watcher EXCEPT ![c] =
                      Subscription(entry, shared[entry].terminal, shared[entry].reported)]
    /\ UNCHANGED <<log, entry, created, errors>>

\* The revision from which the stream follows the initial read.
LoadedAt == Len(log)

\* A shared watcher with its first subscriber, and how the task has ended already.
NewShared(c, terminal) ==
    [subs |-> {c}, terminal |-> terminal, finishing |-> {}, failed |-> FALSE,
     reported |-> FALSE, telling |-> {}, pos |-> LoadedAt, step |-> "open"]

\* The initial read finds no record of a task that was deleted before.
AcquireNew(c) ==
    /\ watcher[c].pc = "idle"
    /\ entry = 0 /\ created < MaxShared
    /\ LET s        == created + 1
           terminal == IF Current = "deleted" THEN "none" ELSE Result(Current)
       IN  /\ created' = s
           /\ entry' = s
           /\ shared' = [shared EXCEPT ![s] = NewShared(c, terminal)]
           /\ watcher' = [watcher EXCEPT ![c] = Subscription(s, terminal, FALSE)]
    /\ UNCHANGED <<log, errors>>

\* Mutant of Last: the subscribers are counted before one is removed.
MutLast(c) == shared[watcher[c].of].subs = {}

Last(c) == shared[watcher[c].of].subs \ {c} = {}

\* Watcher.Close: the last subscriber goes on to shutdown.
Release(c) ==
    /\ watcher[c].pc = "waiting"
    /\ shared' = [shared EXCEPT ![watcher[c].of].subs = @ \ {c}]
    /\ watcher' = [watcher EXCEPT ![c] =
                      IF Last(c) THEN ClosingOf(watcher[c].of) ELSE NoWatcher]
    /\ UNCHANGED <<log, entry, created, errors>>

\* shutdown is called by the last subscriber or by propagateErrors.
ShuttingDown(s) ==
    \/ \E c \in Caller : watcher[c].pc = "closing" /\ watcher[c].of = s
    \/ shared[s].reported /\ shared[s].telling = {}

Remove(s) ==
    /\ shared[s].step = "open" /\ ShuttingDown(s)
    /\ entry' = 0
    /\ shared' = [shared EXCEPT ![s].step = "removed"]
    /\ UNCHANGED <<log, created, watcher, errors>>

\* A stream that is closed or has failed hands out no more events.
CloseStream(s) ==
    /\ shared[s].step = "removed"
    /\ shared' = [shared EXCEPT ![s] =
                     [@ EXCEPT !.step = "closed", !.pos = 0, !.failed = FALSE]]
    /\ UNCHANGED <<log, entry, created, watcher, errors>>

\* shutdownOnce makes every caller wait for the one that shuts down.
Closed(c) ==
    /\ watcher[c].pc = "closing" /\ shared[watcher[c].of].step = "closed"
    /\ watcher' = [watcher EXCEPT ![c] = NoWatcher]
    /\ UNCHANGED <<log, entry, created, shared, errors>>

-----------------------------------------------------------------------------
(***************************************************************************)
(* The stream                                                              *)
(***************************************************************************)

Streaming(s) == shared[s].step \in {"open", "removed"} /\ ~shared[s].failed

\* handleEvent and the critical section of finishAll.
HandleEvent(s) ==
    /\ Streaming(s) /\ shared[s].pos < Len(log)
    /\ LET result == Result(log[shared[s].pos + 1])
           ends   == shared[s].terminal = "none" /\ result # "none"
       IN  shared' = [shared EXCEPT
                        ![s].pos = @ + 1,
                        ![s].terminal = IF ends THEN result ELSE @,
                        ![s].finishing = IF ends THEN shared[s].subs ELSE @]
    /\ UNCHANGED <<log, entry, created, watcher, errors>>

Subscribed(s, c) == watcher[c].of = s /\ watcher[c].pc = "waiting"

\* Watcher.finish; a Watcher that was closed meanwhile does not matter.
FinishOne(s, c) ==
    /\ c \in shared[s].finishing
    /\ shared' = [shared EXCEPT ![s].finishing = @ \ {c}]
    /\ watcher' = IF Subscribed(s, c) /\ watcher[c].done = "none"
                  THEN [watcher EXCEPT ![c].done = shared[s].terminal] ELSE watcher
    /\ UNCHANGED <<log, entry, created, errors>>

\* The stream reports an error and ends (a value that cannot be decoded).
StreamFails(s) ==
    /\ Streaming(s) /\ errors < MaxErrors
    /\ shared' = [shared EXCEPT ![s] = [@ EXCEPT !.failed = TRUE, !.pos = 0]]
    /\ errors' = errors + 1
    /\ UNCHANGED <<log, entry, created, watcher>>

\* propagateErrors returns without a word once shutdownCh is closed.
TakeError(s) ==
    /\ shared[s].failed /\ ~shared[s].reported /\ shared[s].step # "closed"
    /\ shared' = [shared EXCEPT ![s].reported = TRUE, ![s].telling = shared[s].subs]
    /\ UNCHANGED <<log, entry, created, watcher, errors>>

SendError(s, c) ==
    /\ c \in shared[s].telling
    /\ shared' = [shared EXCEPT ![s].telling = @ \ {c}]
    /\ watcher' = IF Subscribed(s, c) THEN [watcher EXCEPT ![c].err = TRUE] ELSE watcher
    /\ UNCHANGED <<log, entry, created, errors>>

-----------------------------------------------------------------------------

Proceed(s) ==
    \/ Remove(s) \/ CloseStream(s) \/ HandleEvent(s) \/ TakeError(s)
    \/ \E c \in Caller : FinishOne(s, c) \/ SendError(s, c)

Next ==
    \/ \E status \in Status : ChangeTask(status)
    \/ \E c \in Caller : AcquireShared(c) \/ AcquireNew(c) \/ Release(c) \/ Closed(c)
    \/ \E s \in 1 .. created : Proceed(s) \/ StreamFails(s)

Spec == Init /\ [][Next]_vars

\* The goroutines of the watchers run on; nobody need acquire, close or change
\* the task.
FairSpec ==
    /\ Spec
    /\ \A s \in 1 .. MaxShared :
        /\ WF_vars(s <= created /\ Remove(s))
        /\ WF_vars(s <= created /\ CloseStream(s))
        /\ WF_vars(s <= created /\ HandleEvent(s))
        /\ WF_vars(s <= created /\ TakeError(s))
        /\ \A c \in Caller :
            /\ WF_vars(s <= created /\ FinishOne(s, c))
            /\ WF_vars(s <= created /\ SendError(s, c))
    /\ \A c \in Caller : WF_vars(Closed(c))

-----------------------------------------------------------------------------
(***************************************************************************)
(* Properties                                                              *)
(***************************************************************************)

\* A watcher ends with an answer the task record has given, also when it has
\* joined a stream late (Watcher.Err).
Truthful ==
    \A c \in Caller : watcher[c].done # "none" =>
        \E i \in 1 .. Len(log) :
            \/ log[i] = watcher[c].done
            \/ watcher[c].done = "canceled" /\ log[i] \in {"canceling", "deleted"}

\* When every caller has closed its watcher, every stream is stopped and the
\* registry is empty (release, shutdown).
NoLeakedStream ==
    (\A c \in Caller : watcher[c].pc = "idle") =>
        /\ entry = 0
        /\ \A s \in 1 .. created : shared[s].step = "closed"

\* The stream of a watcher has an event ahead that ends the watch, or has had one.
Ended(c) ==
    \/ shared[watcher[c].of].terminal # "none"
    \/ /\ Streaming(watcher[c].of)
       /\ \E i \in shared[watcher[c].of].pos + 1 .. Len(log) : Result(log[i]) # "none"

Told(c) == watcher[c].pc # "waiting" \/ watcher[c].done # "none" \/ watcher[c].err

\* Whoever waits for a task learns that it has ended, or that the stream has
\* failed (Watcher.Done and Watcher.Error).
Notified == \A c \in Caller : (watcher[c].pc = "waiting" /\ Ended(c)) ~> Told(c)

=============================================================================
