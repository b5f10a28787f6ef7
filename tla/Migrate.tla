------------------------------ MODULE Migrate ------------------------------
(***************************************************************************)
(* The migration runner (server/internal/migrate), which every host runs   *)
(* before it starts to serve.  Hosts elect one runner; it executes the     *)
(* migrations after the stored revision, one by one, and the others wait   *)
(* for the revision to reach their last migration.                         *)
(*                                                                         *)
(* The candidates take the steps of Leadership, and one more: a claim that *)
(* is not renewed in time expires under its holder (LoseClaim).  The       *)
(* handler does not hear of that; it goes on, and if its host wins again   *)
(* there are two.  Each read and write of etcd by a handler is a step;     *)
(* migration.Run is a step that begins and one that ends.  Migrations are  *)
(* numbered in order and revision 0 stands for "not found".                *)
(***************************************************************************)
EXTENDS Leadership, Naturals

CONSTANTS
    Known,        \* Known[h]: how many migrations the build of host h has
    MaxHandlers,  \* bound: handlers that one host runs at a time
    MaxFaults     \* bound: crashes, lost claims, answers and events, failed migrations

ASSUME KnownAssumption    == Known \in [Candidate -> Nat \ {0}]
ASSUME NoOneIsNoCandidate == NoOne \notin Candidate
ASSUME BoundsAreNat       == MaxFaults \in Nat /\ MaxHandlers \in Nat

VARIABLES
    manned,   \* a handler was started for the claim, and its process lives
    run,      \* run[h]: where Run is: see Place
    closed,   \* closed[h]: doneCh is closed
    job,      \* job[h][k]: a handler: its next step, its migration, what it read
    errCh,    \* errCh[h]: a handler has sent an error
    rev,      \* the stored revision: identifier and key version
    applied,  \* migrations whose Run has succeeded
    runs,     \* runs[m]: how often Run of m has been started
    faults

vars == <<holder, leads, manned, run, closed, job, errCh, rev, applied, runs, faults>>

Migration == UNION {1..Known[h] : h \in Candidate}

\* Run is not running, before or after watch, in its select, returning nil or an
\* error, or has returned and the host serves.
Place == {"off", "pending", "watching", "waiting", "succeeded", "failed", "done"}

Slot     == 1..MaxHandlers
Revision == [id : {0} \cup Migration, ver : Nat]
Job      == [at : {"none", "read", "run", "running", "get", "put"}, m : Nat, read : Revision]

NoRevision == [id |-> 0, ver |-> 0]
JobAt(at, m) == [at |-> at, m |-> m, read |-> NoRevision]
NoJob  == JobAt("none", 0)
NoJobs == [k \in Slot |-> NoJob]

Init ==
    /\ LeadInit
    /\ manned = FALSE
    /\ run = [h \in Candidate |-> "off"]
    /\ closed = [h \in Candidate |-> FALSE]
    /\ job = [h \in Candidate |-> NoJobs]
    /\ errCh = [h \in Candidate |-> FALSE]
    /\ rev = NoRevision
    /\ applied = {}
    /\ runs = [m \in Migration |-> 0]
    /\ faults = 0

\* Mutant of FindStartIndex: one too far.
MutFindStartIndex(h, id) == IF id <= Known[h] THEN id + 2 ELSE 1

\* findStartIndex: an identifier that the build does not know starts over.
FindStartIndex(h, id) == IF id <= Known[h] THEN id + 1 ELSE 1

\* load: the handler of the watch sees the revision that is stored already.
Loads(h) == rev.id = Known[h]

-----------------------------------------------------------------------------
(***************************************************************************)
(* Run                                                                     *)
(***************************************************************************)

\* hasPendingMigrations; a host that is up to date starts to serve.
HasPendingMigrations(h) ==
    /\ run[h] = "off"
    /\ run' = [run EXCEPT ![h] =
                 IF FindStartIndex(h, rev.id) > Known[h] THEN "done" ELSE "pending"]
    /\ UNCHANGED <<holder, leads, manned, closed, job, errCh, rev, applied, runs, faults>>

\* watch: the current revision is loaded, later ones are delivered.
Watch(h) ==
    /\ run[h] = "pending"
    /\ run' = [run EXCEPT ![h] = "watching"]
    /\ closed' = [closed EXCEPT ![h] = Loads(h)]
    /\ UNCHANGED <<holder, leads, manned, job, errCh, rev, applied, runs, faults>>

Campaigns(h) == run[h] \in {"watching", "waiting"}

\* The first place for another handler of h.
Free(h, k) == job[h][k] = NoJob /\ \A j \in 1..(k - 1) : job[h][j] # NoJob

\* candidate.Start and the ticks after it: attemptClaim starts a handler, also
\* when one that was started before is still at work.
WinElection(h) ==
    /\ Campaigns(h)
    /\ Claim(h)
    /\ manned' = TRUE
    /\ run' = [run EXCEPT ![h] = "waiting"]
    /\ \E k \in Slot : Free(h, k) /\ job' = [job EXCEPT ![h][k] = JobAt("read", 0)]
    /\ UNCHANGED <<closed, errCh, rev, applied, runs, faults>>

\* The claim is created and the answer lost: Start and Run fail, a tick only
\* reports the error, and in either case no handler is started.
LoseAnswer(h) ==
    /\ Campaigns(h) /\ faults < MaxFaults
    /\ ClaimUnknown(h)
    /\ manned' = FALSE
    /\ run' = [run EXCEPT ![h] = IF @ = "watching" THEN "off" ELSE @]
    /\ closed' = [closed EXCEPT ![h] = @ /\ run[h] # "watching"]
    /\ faults' = faults + 1
    /\ UNCHANGED <<job, errCh, rev, applied, runs>>

\* checkClaim finds the host's own claim, of before a restart or of a lost
\* answer: no handler starts.
FindOwnClaim(h) ==
    /\ Campaigns(h)
    /\ Confirm(h)
    /\ run' = [run EXCEPT ![h] = "waiting"]
    /\ UNCHANGED <<manned, closed, job, errCh, rev, applied, runs, faults>>

LoseElection(h) ==
    /\ Campaigns(h)
    /\ holder \notin {NoOne, h}
    /\ StepDown(h)
    /\ run' = [run EXCEPT ![h] = "waiting"]
    /\ UNCHANGED <<manned, closed, job, errCh, rev, applied, runs, faults>>

\* The select ends; the deferred Stop releases a claim the candidate knows of,
\* and handlers go on until the context is canceled.
Stop(h, result) ==
    /\ run[h] = "waiting"
    /\ run' = [run EXCEPT ![h] = result]
    /\ leads' = [leads EXCEPT ![h] = FALSE]
    /\ holder' = IF holder = h /\ leads[h] THEN NoOne ELSE holder
    /\ UNCHANGED <<manned, closed, job, errCh, rev, applied, runs, faults>>

Done(h)        == closed[h] /\ Stop(h, "succeeded")
ReturnError(h) == errCh[h] /\ Stop(h, "failed")

\* Nothing of Run is left.
Reset(h) ==
    /\ closed' = [closed EXCEPT ![h] = FALSE]
    /\ errCh' = [errCh EXCEPT ![h] = FALSE]
    /\ job' = [job EXCEPT ![h] = NoJobs]

\* cancel(): the host serves, or the process exits and is started again.
Return(h) ==
    /\ run[h] \in {"succeeded", "failed"}
    /\ run' = [run EXCEPT ![h] = IF @ = "succeeded" THEN "done" ELSE "off"]
    /\ Reset(h)
    /\ UNCHANGED <<holder, leads, manned, rev, applied, runs, faults>>

\* The process dies, or the context expires and then Stop cannot release.
Exit(h) ==
    /\ run' = [run EXCEPT ![h] = "off"]
    /\ StepDown(h)
    /\ manned' = (manned /\ holder # h)
    /\ Reset(h)
    /\ UNCHANGED <<rev, applied, runs>>

\* Either of them, at any time.
Crash(h) ==
    /\ run[h] # "off" /\ faults < MaxFaults
    /\ Exit(h)
    /\ faults' = faults + 1

\* Mutant of TimesOut: the context has no timeout.
MutTimesOut(h) == FALSE

\* migrationTimeout: nothing is going on that could still bring the target.
TimesOut(h) ==
    /\ run[h] = "waiting" /\ ~closed[h] /\ ~errCh[h]
    /\ \A g \in Candidate : job[g] = NoJobs

Timeout(h) ==
    /\ TimesOut(h)
    /\ Exit(h)
    /\ UNCHANGED faults

\* The claim of a host that does not renew it.
ClaimExpires ==
    /\ Lapse
    /\ UNCHANGED <<manned, run, closed, job, errCh, rev, applied, runs, faults>>

\* The claim of a host that leads, because its ticks fail or come too late.
LoseClaim(h) ==
    /\ holder = h /\ leads[h] /\ faults < MaxFaults
    /\ holder' = NoOne
    /\ faults' = faults + 1
    /\ UNCHANGED <<leads, manned, run, closed, job, errCh, rev, applied, runs>>

-----------------------------------------------------------------------------
(***************************************************************************)
(* runMigrations, the claim handler                                        *)
(***************************************************************************)
SetJob(h, k, j) == job' = [job EXCEPT ![h] = [@ EXCEPT ![k] = j]]

\* The handler returns an error and sends it to errCh.
HandlerFails(h, k) ==
    /\ SetJob(h, k, NoJob)
    /\ errCh' = [errCh EXCEPT ![h] = TRUE]

\* What comes after migration m - 1 in the list of h.
NextJob(h, m) == IF m > Known[h] THEN NoJob ELSE JobAt("run", m)

\* getCurrentRevision, again: it may have moved since hasPendingMigrations.
ReadRevision(h, k) ==
    /\ job[h][k].at = "read"
    /\ SetJob(h, k, NextJob(h, FindStartIndex(h, rev.id)))
    /\ UNCHANGED <<holder, leads, manned, run, closed, errCh, rev, applied, runs, faults>>

BeginMigration(h, k) ==
    /\ job[h][k].at = "run"
    /\ runs' = [runs EXCEPT ![job[h][k].m] = @ + 1]
    /\ SetJob(h, k, JobAt("running", job[h][k].m))
    /\ UNCHANGED <<holder, leads, manned, run, closed, errCh, rev, applied, faults>>

\* runMigration: the result is stored either way; an error of the migration, or
\* of the write of its result, ends the handler.
EndMigration(h, k) ==
    /\ job[h][k].at = "running"
    /\ \/ /\ applied' = applied \cup {job[h][k].m}
          /\ SetJob(h, k, JobAt("get", job[h][k].m))
          /\ UNCHANGED <<errCh, faults>>
       \/ /\ faults < MaxFaults /\ faults' = faults + 1
          /\ HandlerFails(h, k)
          /\ applied' \in {applied, applied \cup {job[h][k].m}}
    /\ UNCHANGED <<holder, leads, manned, run, closed, rev, runs>>

\* updateRevision: a read, then a create or a conditional write.
GetRevision(h, k) ==
    /\ job[h][k].at = "get"
    /\ SetJob(h, k, [at |-> "put", m |-> job[h][k].m, read |-> rev])
    /\ UNCHANGED <<holder, leads, manned, run, closed, errCh, rev, applied, runs, faults>>

\* Mutant of SeeRevision: any revision ends the wait.
MutSeeRevision(id, missed) ==
    closed' = [g \in Candidate |-> closed[g] \/ (Campaigns(g) /\ g \notin missed)]

\* The handlers of the watches that the write of a revision reaches; a watch
\* that is interrupted misses it.
SeeRevision(id, missed) ==
    closed' = [g \in Candidate |->
                 closed[g] \/ (Campaigns(g) /\ g \notin missed /\ id = Known[g])]

\* The write has its effect; its answer may be lost.
PutRevision(h, k) ==
    /\ job[h][k].at = "put" /\ rev.ver = job[h][k].read.ver
    /\ rev' = [id |-> job[h][k].m, ver |-> rev.ver + 1]
    /\ \E missed \in SUBSET Candidate, lost \in BOOLEAN :
        /\ faults' = IF lost \/ missed # {} THEN faults + 1 ELSE faults
        /\ faults' <= MaxFaults
        /\ SeeRevision(job[h][k].m, missed)
        /\ IF lost THEN HandlerFails(h, k)
           ELSE SetJob(h, k, NextJob(h, job[h][k].m + 1)) /\ UNCHANGED errCh
    /\ UNCHANGED <<holder, leads, manned, run, applied, runs>>

\* Somebody else has written it since it was read.
PutConflicts(h, k) ==
    /\ job[h][k].at = "put" /\ rev.ver # job[h][k].read.ver
    /\ HandlerFails(h, k)
    /\ UNCHANGED <<holder, leads, manned, run, closed, rev, applied, runs, faults>>

Handler(h, k) ==
    \/ ReadRevision(h, k) \/ BeginMigration(h, k) \/ EndMigration(h, k)
    \/ GetRevision(h, k) \/ PutRevision(h, k) \/ PutConflicts(h, k)

Runner(h) ==
    \/ HasPendingMigrations(h) \/ Watch(h)
    \/ WinElection(h) \/ FindOwnClaim(h) \/ LoseElection(h)
    \/ Done(h) \/ ReturnError(h) \/ Return(h) \/ Timeout(h)

Next ==
    \/ \E h \in Candidate : Runner(h) \/ Crash(h) \/ LoseClaim(h) \/ LoseAnswer(h)
    \/ \E h \in Candidate, k \in Slot : Handler(h, k)
    \/ ClaimExpires

Spec == Init /\ [][Next]_vars

\* Goroutines and requests make progress, a timeout runs out, a claim that
\* nobody renews expires, and a host whose process exits is started again.
FairSpec ==
    /\ Spec
    /\ \A h \in Candidate : WF_vars(Runner(h))
    /\ \A h \in Candidate, k \in Slot : WF_vars(Handler(h, k))
    /\ WF_vars(ClaimExpires)

-----------------------------------------------------------------------------
(***************************************************************************)
(* Properties                                                              *)
(***************************************************************************)
TypeOK ==
    /\ holder \in Candidate \cup {NoOne}
    /\ leads \in [Candidate -> BOOLEAN]
    /\ manned \in BOOLEAN
    /\ run \in [Candidate -> Place]
    /\ closed \in [Candidate -> BOOLEAN]
    /\ job \in [Candidate -> [Slot -> Job]]
    /\ \A h \in Candidate, k \in Slot : job[h][k].m \in 0..Known[h]
    /\ errCh \in [Candidate -> BOOLEAN]
    /\ rev \in Revision
    /\ applied \subseteq Migration
    /\ runs \in [Migration -> Nat]
    /\ faults \in 0..MaxFaults

\* A migration is started only when all before it have been applied
\* (findStartIndex, runMigrations), also by a handler whose host has lost the
\* claim while others migrate too and put the revision back or forward.
InOrder ==
    [][\A m \in Migration : runs'[m] # runs[m] => 1..(m - 1) \subseteq applied]_vars

\* A host that has started to serve has all its migrations applied.
ServesMigrated == \A h \in Candidate : run[h] = "done" => 1..Known[h] \subseteq applied

\* The claim is held by a host that has started no handler for it, or died since.
Orphan == holder # NoOne /\ ~manned

\* Every host gets to serve, whatever migrations fail, claims and events are
\* lost and handlers get in each other's way; unless a claim without a handler
\* stays for ever, or comes again and again.
EveryHostServes == []<>Orphan \/ \A h \in Candidate : []<>(run[h] = "done")

\* No claim without a handler stays in the way (README, disagreements).
EveryHostServesAlways == \A h \in Candidate : []<>(run[h] = "done")

\* No two handlers are at work at the same time (README, disagreements).
OneMigrator ==
    \A g, h \in Candidate, j, k \in Slot :
        job[g][j] # NoJob /\ job[h][k] # NoJob => g = h /\ j = k

\* The revision never goes back (README, disagreements).
RevisionAdvances == [][rev'.id >= rev.id]_vars
=============================================================================
