----------------------------- MODULE Scheduler -----------------------------
(***************************************************************************)
(* Scheduled jobs (server/internal/scheduler): one job, the backup of a    *)
(* node.  A resource event, which any host may execute, stores the job in  *)
(* etcd and registers it with the cron library of its own host; every host *)
(* also watches the stored jobs and does the same.  All hosts run the cron *)
(* library, the elected one fires.                                         *)
(*                                                                         *)
(* etcd is the sequence of the revisions of the job's key.  A schedule is  *)
(* named by the operation that brought it and 0 is "no job".  Operations   *)
(* on a database follow one another (Lifecycle), and the election is the   *)
(* specification Leadership, which Election implements.                    *)
(***************************************************************************)
EXTENDS Leadership, Naturals, Sequences

CONSTANTS
    MaxCalls,   \* bound: operations on the database
    MaxExits,   \* bound: processes that die
    MaxFaults,  \* bound: requests to etcd that fail, watches that are interrupted
    Rejected    \* schedules whose cron expression the library refuses

ASSUME BoundsAreNat == {MaxCalls, MaxExits, MaxFaults} \subseteq Nat
ASSUME NoOneIsNoCandidate == NoOne \notin Candidate

VARIABLES
    up,       \* up[h]: "down", "starting" or "up"
    log,      \* the revisions of the key of the job
    seen,     \* seen[h]: the revision of the watch
    runners,  \* runners[h]: Service.runners, the job or NoJob
    cron,     \* cron[h]: the jobs of gocron
    call,     \* the operation on the database, as far as the job is concerned
    known,    \* the job in the persisted resource.State
    tick,     \* what came of the last firing
    exits, faults,
    blind,    \* history: hosts whose watch has passed over events, up to the next
              \* delete that it delivers
    over      \* history: the stored job was created over one of another schedule

vars == <<holder, leads, up, log, seen, runners, cron, call, known, tick, exits, faults,
          blind, over>>
election == <<holder, leads>>
table    == <<runners, cron>>
budget   == <<exits, faults, over>>

Schedule == 1..MaxCalls

\* The context a job runs in: 0 is the one of the service, n the one that
\* ApplyEvent has made for the activity of operation n.
Job   == [schedule : Schedule, ctx : 0..MaxCalls]
NoJob == [schedule |-> 0, ctx |-> 0]

Stored == IF log = << >> THEN 0 ELSE log[Len(log)]

Absent == [schedule |-> 0, recreate |-> FALSE, error |-> FALSE]

Init ==
    /\ LeadInit
    /\ up = [h \in Candidate |-> "down"]
    /\ log = << >>
    /\ seen = [h \in Candidate |-> 0]
    /\ runners = [h \in Candidate |-> NoJob]
    /\ cron = [h \in Candidate |-> {}]
    /\ call = [n |-> 0, want |-> 0, stanza |-> FALSE, at |-> "idle", host |-> NoOne]
    /\ known = Absent
    /\ tick = "none"
    /\ exits = 0 /\ faults = 0 /\ over = FALSE /\ blind = {}

-----------------------------------------------------------------------------
(***************************************************************************)
(* The table of one host; each operation holds its mutex.                  *)
(***************************************************************************)

\* registerJob returns no error: a job that is there already stays.
registerJob(h, job) ==
    IF runners[h] # NoJob THEN UNCHANGED table
    ELSE /\ runners' = [runners EXCEPT ![h] = job]
         /\ cron' = [cron EXCEPT ![h] = @ \cup {job}]

UnregisterJob(h) ==
    /\ runners' = [runners EXCEPT ![h] = NoJob]
    /\ cron' = [cron EXCEPT ![h] = @ \ {runners[h]}]

\* registerJob returns an error: gocron refuses the expression.
Refused(h, n) == runners[h] = NoJob /\ n \in Rejected

-----------------------------------------------------------------------------
(***************************************************************************)
(* The service                                                             *)
(***************************************************************************)

\* The process ends; an activity that it was executing is begun again, by
\* whichever host gets it.
Ends(h) ==
    /\ up' = [up EXCEPT ![h] = "down"]
    /\ seen' = [seen EXCEPT ![h] = 0]
    /\ runners' = [runners EXCEPT ![h] = NoJob]
    /\ cron' = [cron EXCEPT ![h] = {}]
    /\ blind' = blind \ {h}
    /\ StepDown(h)
    /\ call' = IF call.host = h THEN [call EXCEPT !.at = "begin", !.host = NoOne] ELSE call

\* The elector is started first.
Start(h) ==
    /\ up[h] = "down"
    /\ up' = [up EXCEPT ![h] = "starting"]
    /\ UNCHANGED <<election, log, seen, table, call, known, tick, blind, budget>>

\* Mutant of Loaded: the watch begins without the job that is stored.
MutLoaded(h) == UNCHANGED table

\* What load hands to the handler: the job that is stored.
Loaded(h) == IF Stored = 0 THEN UNCHANGED table
             ELSE registerJob(h, [schedule |-> Stored, ctx |-> 0])

\* watchJobChanges: an error of the handler fails the start of the server.
WatchJobChanges(h) ==
    /\ up[h] = "starting"
    /\ IF Refused(h, Stored) THEN Ends(h)
       ELSE /\ up' = [up EXCEPT ![h] = "up"]
            /\ seen' = [seen EXCEPT ![h] = Len(log)]
            /\ Loaded(h)
            /\ UNCHANGED <<election, call, blind>>
    /\ UNCHANGED <<log, known, tick, budget>>

\* What the handler of the watch does with an event.
Handled(h, n) == IF n = 0 THEN UnregisterJob(h)
                 ELSE registerJob(h, [schedule |-> n, ctx |-> 0])

\* An error of the handler closes the watch, goes to the error channel of the
\* application and shuts the server down.
HandleEvent(h) ==
    /\ up[h] = "up" /\ seen[h] < Len(log)
    /\ LET n == log[seen[h] + 1] IN
       IF Refused(h, n) THEN Ends(h)
       ELSE /\ seen' = [seen EXCEPT ![h] = @ + 1]
            /\ Handled(h, n)
            /\ blind' = IF n = 0 THEN blind \ {h} ELSE blind
            /\ UNCHANGED <<election, up, call>>
    /\ UNCHANGED <<log, known, tick, budget>>

\* A watch that etcd interrupts goes on after the revision of the error, which
\* may be later than the last event that was delivered, and loads nothing.
Interrupt(h) ==
    /\ up[h] = "up" /\ faults < MaxFaults
    /\ faults' = faults + 1
    /\ \E r \in (seen[h] + 1)..Len(log) : seen' = [seen EXCEPT ![h] = r]
    /\ blind' = blind \cup {h}
    /\ UNCHANGED <<election, up, log, table, call, known, tick, exits, over>>

Crash(h) ==
    /\ up[h] # "down" /\ exits < MaxExits
    /\ exits' = exits + 1
    /\ Ends(h)
    /\ UNCHANGED <<log, known, tick, faults, over>>

-----------------------------------------------------------------------------
(***************************************************************************)
(* The candidate and the cron library                                      *)
(***************************************************************************)

\* The steps of the election that change who leads.
Elect(h) ==
    /\ \/ up[h] # "down" /\ (Claim(h) \/ ClaimUnknown(h) \/ Confirm(h))
       \/ leads[h] /\ StepDown(h)
       \/ holder = h /\ Lapse
    /\ UNCHANGED <<up, log, seen, table, call, known, tick, blind, budget>>

Alive(job) == job.ctx = 0 \/ (call.at # "idle" /\ call.n = job.ctx)

\* A job is due: gocron asks the elector and runs it.  Execute reads the
\* database first and wants it in a modifiable state.
Fire(h) ==
    /\ up[h] = "up" /\ leads[h]
    /\ \E job \in cron[h] :
         tick' = IF ~Alive(job) THEN "canceled"
                 ELSE IF call.at # "idle" THEN "notModifiable"
                 ELSE "started"
    /\ UNCHANGED <<election, up, log, seen, table, call, known, blind, budget>>

-----------------------------------------------------------------------------
(***************************************************************************)
(* The resource: one operation of the database                             *)
(***************************************************************************)

\* The event that an operation plans for the job (planCreates, planDeletes).
Planned(k, c) ==
    IF c.want = 0 THEN "delete"
    ELSE IF k.schedule = 0 \/ k.recreate THEN "create"
    ELSE IF k.error \/ k.schedule # c.want \/ c.stanza THEN "update"
    ELSE "none"

\* An operation brings a new schedule, none, or the one that is known, and
\* may change the stanza that the job depends on.
Request ==
    /\ call.at = "idle" /\ call.n < MaxCalls
    /\ \E want \in {0, known.schedule, call.n + 1}, stanza \in BOOLEAN :
         /\ want # 0 \/ known.schedule # 0
         /\ call' = [n |-> call.n + 1, want |-> want, stanza |-> stanza, host |-> NoOne,
                     at |-> IF known.schedule = 0 THEN "begin" ELSE "refresh"]
    /\ UNCHANGED <<election, up, log, seen, table, known, tick, blind, budget>>

\* JobExists asks the table of the host that happens to refresh.
Refresh(h) ==
    /\ call.at = "refresh"
    /\ up[h] = "up"
    /\ known' = [known EXCEPT !.recreate = @ \/ runners[h] = NoJob]
    /\ call' = [call EXCEPT !.at = IF Planned(known', call) = "none" THEN "idle" ELSE "begin"]
    /\ UNCHANGED <<election, up, log, seen, table, tick, blind, budget>>

\* Mutant of FirstStep: an update stores the new job over the old one.
MutFirstStep(event) == IF event = "delete" THEN "delete" ELSE "put"

\* Update is Delete and Create.
FirstStep(event) == IF event = "create" THEN "put" ELSE "delete"

Begin(h) ==
    /\ call.at = "begin"
    /\ up[h] = "up"
    /\ call' = [call EXCEPT !.at = FirstStep(Planned(known, call)), !.host = h]
    /\ UNCHANGED <<election, up, log, seen, table, known, tick, blind, budget>>

\* The activity returns and its context is canceled.  A delete that failed is
\* not applied to the state.
Return(ok) ==
    /\ call' = [call EXCEPT !.at = "idle", !.host = NoOne]
    /\ LET event == Planned(known, call) IN
       known' = IF event = "delete" THEN IF ok THEN Absent ELSE known
                ELSE [schedule |-> call.want, error |-> ~ok,
                      recreate |-> ~ok /\ event = "create"]

\* A write of the job's key; deleting what is not there leaves no revision.
Write(value) ==
    IF value = 0
    THEN /\ log' = IF Stored = 0 THEN log ELSE Append(log, 0)
         /\ over' = FALSE
    ELSE /\ log' = Append(log, value)
         /\ over' = (over \/ (Stored \notin {0, value} /\ Planned(known, call) = "create"))

\* A request to etcd fails, and the activity with it; it may be applied.
RequestFails(value) ==
    /\ faults < MaxFaults
    /\ faults' = faults + 1
    /\ Return(FALSE)
    /\ Write(value) \/ UNCHANGED <<log, over>>

\* DeleteJob: the store.
DeleteStored ==
    /\ call.at = "delete"
    /\ \/ /\ Write(0)
          /\ call' = [call EXCEPT !.at = "unregister"]
          /\ UNCHANGED <<known, faults>>
       \/ RequestFails(0)
    /\ UNCHANGED <<election, up, seen, table, tick, blind, exits>>

\* DeleteJob: the table; an update goes on with Create.
DeleteLocal ==
    /\ call.at = "unregister"
    /\ UnregisterJob(call.host)
    /\ IF call.want = 0 THEN Return(TRUE)
       ELSE call' = [call EXCEPT !.at = "put"] /\ UNCHANGED known
    /\ UNCHANGED <<election, up, log, seen, tick, blind, budget>>

\* RegisterJob: the store.
PutStored ==
    /\ call.at = "put"
    /\ \/ /\ Write(call.want)
          /\ call' = [call EXCEPT !.at = "register"]
          /\ UNCHANGED <<known, faults>>
       \/ RequestFails(call.want)
    /\ UNCHANGED <<election, up, seen, table, tick, blind, exits>>

\* RegisterJob: the table, with the context of the activity.
PutLocal ==
    /\ call.at = "register"
    /\ IF Refused(call.host, call.want) THEN Return(FALSE) /\ UNCHANGED table
       ELSE /\ registerJob(call.host, [schedule |-> call.want, ctx |-> call.n])
            /\ Return(TRUE)
    /\ UNCHANGED <<election, up, log, seen, tick, blind, budget>>

-----------------------------------------------------------------------------

Service(h) == Start(h) \/ WatchJobChanges(h) \/ HandleEvent(h)

Activity == \/ \E h \in Candidate : Refresh(h) \/ Begin(h)
            \/ DeleteStored \/ DeleteLocal \/ PutStored \/ PutLocal

Next ==
    \/ Request \/ Activity
    \/ \E h \in Candidate : Service(h) \/ Interrupt(h) \/ Elect(h) \/ Fire(h) \/ Crash(h)

Spec == Init /\ [][Next]_vars

\* Servers start and are started again, watches deliver, and the workflow
\* engine drives an operation to its end (ActivityTasks).
FairSpec == Spec /\ WF_vars(Activity) /\ \A h \in Candidate : WF_vars(Service(h))

-----------------------------------------------------------------------------
(***************************************************************************)
(* Properties                                                              *)
(***************************************************************************)

\* The schedules that the cron library of a host has.
Scheduled(h) == {job.schedule : job \in cron[h]}

\* What a host is to run.
Due == {Stored} \ {0}

TypeOK ==
    /\ up \in [Candidate -> {"down", "starting", "up"}]
    /\ log \in Seq({0} \cup Schedule)
    /\ seen \in [Candidate -> 0..Len(log)]
    /\ runners \in [Candidate -> Job \cup {NoJob}]
    /\ cron \in [Candidate -> SUBSET Job]
    /\ call \in [n : 0..MaxCalls, want : {0} \cup Schedule, stanza : BOOLEAN,
                 host : Candidate \cup {NoOne},
                 at : {"idle", "refresh", "begin", "delete", "unregister", "put", "register"}]
    /\ known \in [schedule : {0} \cup Schedule, recreate : BOOLEAN, error : BOOLEAN]
    /\ tick \in {"none", "started", "notModifiable", "canceled"}
    /\ blind \subseteq Candidate

\* The cron library of a host has the stored job and nothing else, once.
RunsDue(h) == Scheduled(h) = Due /\ cron[h] = {runners[h]} \ {NoJob}

\* A host that has handled every event runs the stored job and nothing else,
\* once, also while an operation is under way, although its table is written by
\* its own activities and by its watch, in any order (RegisterJob, DeleteJob,
\* watchJobChanges).
RunsStoredAlways ==
    \A h \in Candidate : up[h] = "up" /\ seen[h] = Len(log) => RunsDue(h)

\* The same, unless the job was created over one of another schedule, which
\* registerJob keeps, or the host's watch has passed over events.  The delete
\* that it delivers next puts the host right again.
RunsStored ==
    over \/ \A h \in Candidate \ blind : up[h] = "up" /\ seen[h] = Len(log) => RunsDue(h)

\* Every host comes to run what is stored, again after every change and every
\* restart (load and the watch), with the same exceptions.
EveryHostFollows ==
    \A h \in Candidate :
        []<>(call.at = "idle" /\ (over \/ h \in blind \/ Scheduled(h) = Due))

\* A job that is due when the leader is at rest starts its backup: the context
\* it was registered with is not canceled (Run; docs/using/backup-restore.md,
\* lines 131-135).
BackupsStart == tick # "canceled"

\* A schedule that the cron library refuses fails its operation, and no server
\* (registerJob, called by the handler of the watch).
ServersStay ==
    [][\A h \in Candidate : up[h] # "down" /\ up'[h] = "down" => exits' > exits]_vars

=============================================================================
