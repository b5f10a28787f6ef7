------------------------------ MODULE TaskFeed ------------------------------
(***************************************************************************)
(* Tasks and TaskWatcher together: the record of a task is written by the  *)
(* handler, the workflow and requests that cancel it, and the activities   *)
(* of the workflow watch it (ApplyEvent), so that a cancellation reaches   *)
(* what is running on the hosts.                                           *)
(*                                                                         *)
(* Every write of the record is an event of the stream.  Activities begin  *)
(* while the workflow is at work; one that is still running when the       *)
(* workflow goes on, canceled, stays subscribed.                           *)
(***************************************************************************)
EXTENDS Tasks, Sequences

CONSTANTS Caller, MaxShared, MaxErrors

ASSUME BoundsAreNat == MaxShared \in Nat /\ MaxErrors \in Nat

VARIABLES log, entry, created, shared, watcher, errors

W == INSTANCE TaskWatcher

feed == <<entry, created, shared, watcher, errors>>
all  == <<vars, log, feed>>

FeedInit == Init /\ W!Init

\* A step of one of the writers, or the record is deleted; the store tells the
\* streams of every write.
WriterStep ==
    /\ Next
    /\ log' = IF version' = version THEN log
              ELSE Append(log, IF version' = 0 THEN "deleted" ELSE record'.status)
    /\ UNCHANGED feed

\* ApplyEvent begins; its watcher is closed when it is told or when it ends.
Begin(c) ==
    /\ phase = "work"
    /\ W!AcquireShared(c) \/ W!AcquireNew(c)

WatcherStep ==
    /\ UNCHANGED vars
    /\ \/ \E c \in Caller : Begin(c) \/ W!Release(c) \/ W!Closed(c)
       \/ \E s \in 1 .. created : W!Proceed(s) \/ W!StreamFails(s)

FeedNext == WriterStep \/ WatcherStep

FeedSpec == FeedInit /\ [][FeedNext]_all

-----------------------------------------------------------------------------
(***************************************************************************)
(* Properties                                                              *)
(***************************************************************************)
FeedTypeOK == TypeOK /\ W!TypeOK

\* Somebody has asked for the task to be canceled.
CancelAsked == \E c \in Canceler : pc[c] \in {"signal", "done"}

\* An activity is interrupted (Watcher.Done) while its workflow is at work
\* only because of a cancellation or because the task was deleted, and what it is
\* told (Watcher.Err) is true of the work and not only of the record: no write of a stale copy, and no stream
\* that is handed from one activity to another, ends it by mistake.
InterruptedRightly ==
    \A c \in Caller :
        /\ phase = "work" /\ watcher[c].done # "none" => CancelAsked \/ W!Current = "deleted"
        /\ watcher[c].done = "completed" => outcome = "success"
        /\ watcher[c].done = "canceled" => CancelAsked \/ W!Current = "deleted"

\* When no activity holds a watcher any more, no stream is left open.
NoLeakedStream == W!NoLeakedStream
=============================================================================
