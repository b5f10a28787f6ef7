--------------------------- MODULE ElectedProofs ---------------------------
(***************************************************************************)
(* Proofs about the two users of the election: Migrate for any set of      *)
(* hosts, any builds and any bounds, Scheduler for any set of hosts and    *)
(* any bounds.                                                             *)
(*                                                                         *)
(* Neither needs anything of the election: that migrations are started in  *)
(* order and that a host serves only with all its migrations applied holds *)
(* however many handlers are at work on however many hosts.                *)
(***************************************************************************)
EXTENDS Migrate, Sequences, TLAPS

-----------------------------------------------------------------------------
(***************************************************************************)
(* The inductive invariant of the migrations.                              *)
(***************************************************************************)

\* The handler is at work on a migration.
AtWork(j) == j.at \in {"run", "running", "get", "put"}

\* What comes before the migration of a handler is among those that are done,
\* and so is the migration itself when the handler records it.
JobJustified(j, done) ==
    /\ AtWork(j) => j.m > 0 /\ 1..(j.m - 1) \subseteq done
    /\ j.at \in {"get", "put"} => j.m \in done

\* So is everything up to the stored revision, wherever it was put back to.
AppliedBefore ==
    /\ 1..rev.id \subseteq applied
    /\ \A h \in Candidate, k \in Slot : JobJustified(job[h][k], applied)

\* A host whose wait is over has all its migrations applied.
WaitEndsMigrated ==
    \A h \in Candidate :
        closed[h] \/ run[h] \in {"succeeded", "done"} => 1..Known[h] \subseteq applied

BuildsInv ==
    /\ TypeOK
    /\ AppliedBefore
    /\ WaitEndsMigrated

-----------------------------------------------------------------------------
(***************************************************************************)
(* Numbers and records                                                     *)
(***************************************************************************)

\* Every number of a host's list is a migration.
LEMMA KnownIsMigration ==
  ASSUME NEW h \in Candidate
  PROVE  Known[h] \in Nat \ {0} /\ 1..Known[h] \subseteq Migration
  BY KnownAssumption DEF Migration

\* Migrations are positive numbers.
LEMMA MigrationIsNat == \A m \in Migration : m \in Nat /\ m > 0
  BY KnownAssumption DEF Migration

\* What a handler stores about itself.
LEMMA JobAtType ==
  ASSUME NEW m \in Nat, NEW at \in {"none", "read", "run", "running", "get", "put"}
  PROVE  JobAt(at, m) \in Job /\ JobAt(at, m).at = at /\ JobAt(at, m).m = m
  BY DEF JobAt, Job, Revision, NoRevision

LEMMA NoJobType ==
  /\ NoJob \in Job /\ NoJob.m = 0 /\ NoJob.at = "none"
  /\ NoJobs \in [Slot -> Job] /\ \A k \in Slot : NoJobs[k] = NoJob
  BY JobAtType DEF NoJob, NoJobs

\* NextJob: nothing at the end of the list, or the next migration of it.
LEMMA NextJobType ==
  ASSUME NEW h \in Candidate, NEW m \in Nat \ {0}
  PROVE  /\ NextJob(h, m) \in Job
         /\ \/ m > Known[h] /\ NextJob(h, m) = NoJob
            \/ m <= Known[h] /\ NextJob(h, m).at = "run" /\ NextJob(h, m).m = m
<1> Known[h] \in Nat
  BY KnownIsMigration
<1>1. CASE m > Known[h]
  BY <1>1, NoJobType DEF NextJob
<1>2. CASE ~(m > Known[h])
  BY <1>2, JobAtType DEF NextJob
<1> QED  BY <1>1, <1>2

\* findStartIndex points behind what is applied.
LEMMA StartIsNext ==
  ASSUME TypeOK, AppliedBefore, NEW h \in Candidate
  PROVE  /\ FindStartIndex(h, rev.id) \in Nat \ {0}
         /\ 1..(FindStartIndex(h, rev.id) - 1) \subseteq applied
         /\ FindStartIndex(h, rev.id) > Known[h] => 1..Known[h] \subseteq applied
<1>1. rev.id \in Nat /\ Known[h] \in Nat \ {0}
  <2>1. rev.id \in {0} \cup Migration
    BY DEF TypeOK, Revision
  <2>2. rev.id \in Nat
    BY <2>1, MigrationIsNat
  <2> QED  BY <2>2, KnownIsMigration
<1>2. CASE rev.id <= Known[h]
  BY <1>1, <1>2 DEF FindStartIndex, AppliedBefore
<1>3. CASE ~(rev.id <= Known[h])
  BY <1>1, <1>3 DEF FindStartIndex
<1> QED  BY <1>2, <1>3

-----------------------------------------------------------------------------
(***************************************************************************)
(* Migrations                                                              *)
(***************************************************************************)

LEMMA InitBuilds == Init => BuildsInv
<1> SUFFICES ASSUME Init PROVE BuildsInv
  OBVIOUS
<1>1. TypeOK
  <2>1. /\ job \in [Candidate -> [Slot -> Job]]
        /\ \A h \in Candidate, k \in Slot : job[h][k].m \in 0..Known[h]
    <3>1. \A h \in Candidate : job[h] = NoJobs
      BY DEF Init
    <3>2. \A h \in Candidate, k \in Slot : job[h][k].m = 0
      BY <3>1, NoJobType
    <3>3. \A h \in Candidate : Known[h] \in Nat
      BY KnownIsMigration
    <3> QED  BY <3>2, <3>3, NoJobType DEF Init
  <2>2. /\ rev \in Revision /\ applied \subseteq Migration /\ runs \in [Migration -> Nat]
        /\ faults \in 0..MaxFaults
    BY BoundsAreNat DEF Init, Revision, NoRevision
  <2>3. /\ holder \in Candidate \cup {NoOne} /\ leads \in [Candidate -> BOOLEAN]
        /\ manned \in BOOLEAN /\ run \in [Candidate -> Place]
        /\ closed \in [Candidate -> BOOLEAN] /\ errCh \in [Candidate -> BOOLEAN]
    BY DEF Init, LeadInit, Place
  <2> QED  BY <2>1, <2>2, <2>3 DEF TypeOK
<1>2. WaitEndsMigrated
  BY DEF Init, WaitEndsMigrated
<1>3. AppliedBefore
  BY NoJobType DEF Init, AppliedBefore, JobJustified, AtWork, NoRevision
<1> QED  BY <1>1, <1>2, <1>3 DEF BuildsInv

\* Nothing of the migrations changes but that handlers go away or start to read.
LEMMA QuietBuilds ==
  ASSUME BuildsInv, UNCHANGED <<rev, applied, runs>>,
         holder' \in Candidate \cup {NoOne}, leads' \in [Candidate -> BOOLEAN],
         manned' \in BOOLEAN, run' \in [Candidate -> Place],
         closed' \in [Candidate -> BOOLEAN], errCh' \in [Candidate -> BOOLEAN],
         faults' \in 0..MaxFaults,
         job' \in [Candidate -> [Slot -> Job]],
         \A h \in Candidate, k \in Slot :
             \/ job'[h][k] = job[h][k]
             \/ job'[h][k].at \in {"none", "read"} /\ job'[h][k].m = 0,
         \A h \in Candidate :
             closed'[h] \/ run'[h] \in {"succeeded", "done"} =>
                 closed[h] \/ run[h] \in {"succeeded", "done"} \/ 1..Known[h] \subseteq applied
  PROVE  BuildsInv'
<1>1. TypeOK'
  <2>1. ASSUME NEW h \in Candidate, NEW k \in Slot
        PROVE  job'[h][k].m \in 0..Known[h]
    <3>1. job[h][k].m \in 0..Known[h]
      BY DEF BuildsInv, TypeOK
    <3>2. job'[h][k] = job[h][k] \/ job'[h][k].m = 0
      OBVIOUS
    <3> QED  BY <3>1, <3>2, KnownIsMigration
  <2>2. rev' \in Revision /\ applied' \subseteq Migration /\ runs' \in [Migration -> Nat]
    BY DEF BuildsInv, TypeOK
  <2> QED  BY <2>1, <2>2 DEF TypeOK
<1>2. AppliedBefore'
  BY DEF BuildsInv, AppliedBefore, JobJustified, AtWork
<1>3. WaitEndsMigrated'
  BY DEF BuildsInv, WaitEndsMigrated
<1> QED  BY <1>1, <1>2, <1>3 DEF BuildsInv

\* Run up to the election, and the election without a handler.
LEMMA StartBuilds ==
  ASSUME BuildsInv, NEW h \in Candidate,
         \/ HasPendingMigrations(h) \/ Watch(h) \/ LoseElection(h) \/ FindOwnClaim(h)
         \/ LoseAnswer(h) \/ LoseClaim(h) \/ ClaimExpires
  PROVE  BuildsInv'
<1>0. TypeOK /\ AppliedBefore
  BY DEF BuildsInv
<1>1. job' = job /\ UNCHANGED <<rev, applied, runs, errCh>>
  BY DEF HasPendingMigrations, Watch, LoseElection, FindOwnClaim, LoseAnswer, LoseClaim,
     ClaimExpires
<1>2. /\ holder' \in Candidate \cup {NoOne} /\ leads' \in [Candidate -> BOOLEAN]
      /\ manned' \in BOOLEAN
  BY <1>0 DEF HasPendingMigrations, Watch, LoseElection, FindOwnClaim, LoseAnswer, LoseClaim,
     ClaimExpires, Confirm, ClaimUnknown, StepDown, Lapse, TypeOK
<1>3. faults' \in 0..MaxFaults
  BY <1>0, BoundsAreNat DEF HasPendingMigrations, Watch, LoseElection, FindOwnClaim, LoseAnswer,
     LoseClaim, ClaimExpires, TypeOK
<1>4. run' \in [Candidate -> Place]
  BY <1>0 DEF HasPendingMigrations, Watch, LoseElection, FindOwnClaim, LoseAnswer, LoseClaim,
     ClaimExpires, TypeOK, Place
<1>5. closed' \in [Candidate -> BOOLEAN]
  <2>1. CASE Watch(h)
    BY <1>0, <2>1 DEF Watch, Loads, TypeOK
  <2>2. CASE LoseAnswer(h)
    <3>1. (closed[h] /\ run[h] # "watching") \in BOOLEAN
      OBVIOUS
    <3> QED  BY <1>0, <2>2, <3>1 DEF LoseAnswer, TypeOK
  <2> QED  BY <1>0, <2>1, <2>2 DEF HasPendingMigrations, LoseElection, FindOwnClaim, LoseClaim,
              ClaimExpires, TypeOK
<1>6. ASSUME NEW g \in Candidate, closed'[g] \/ run'[g] \in {"succeeded", "done"}
      PROVE  closed[g] \/ run[g] \in {"succeeded", "done"} \/ 1..Known[g] \subseteq applied
  <2>1. CASE HasPendingMigrations(h)
    BY <1>0, <1>6, <2>1, StartIsNext DEF HasPendingMigrations, TypeOK
  <2>2. CASE Watch(h)
    BY <1>0, <1>6, <2>2 DEF Watch, Loads, AppliedBefore, TypeOK
  <2>3. CASE LoseAnswer(h)
    BY <1>0, <1>6, <2>3 DEF LoseAnswer, TypeOK
  <2>4. CASE LoseElection(h) \/ FindOwnClaim(h)
    BY <1>0, <1>6, <2>4 DEF LoseElection, FindOwnClaim, TypeOK
  <2>5. CASE LoseClaim(h) \/ ClaimExpires
    BY <1>6, <2>5 DEF LoseClaim, ClaimExpires
  <2> QED  BY <2>1, <2>2, <2>3, <2>4, <2>5
<1>7. job' \in [Candidate -> [Slot -> Job]]
  BY <1>0, <1>1 DEF TypeOK
<1>8. \A g \in Candidate, k \in Slot : job'[g][k] = job[g][k]
  BY <1>1
<1>9. errCh' \in [Candidate -> BOOLEAN]
  BY <1>0, <1>1 DEF TypeOK
<1> QED  BY <1>1, <1>2, <1>3, <1>4, <1>5, <1>6, <1>7, <1>8, <1>9, QuietBuilds

\* The election is won and one more handler starts.
LEMMA WinBuilds ==
  ASSUME BuildsInv, NEW h \in Candidate, WinElection(h)
  PROVE  BuildsInv'
<1> DEFINE start == JobAt("read", 0)
<1>0. TypeOK
  BY DEF BuildsInv
<1>1. start \in Job /\ start.at = "read" /\ start.m = 0
  BY JobAtType
<1>2. PICK k \in Slot : job' = [job EXCEPT ![h][k] = start]
  BY DEF WinElection
<1> HIDE DEF start
<1>3. /\ job' \in [Candidate -> [Slot -> Job]]
      /\ \A g \in Candidate, j \in Slot : job'[g][j] = job[g][j] \/ job'[g][j] = start
  BY <1>0, <1>1, <1>2 DEF TypeOK
<1>4. /\ holder' \in Candidate \cup {NoOne} /\ leads' \in [Candidate -> BOOLEAN]
      /\ manned' \in BOOLEAN /\ run' \in [Candidate -> Place]
      /\ UNCHANGED <<closed, errCh, rev, applied, runs, faults>>
  BY <1>0 DEF WinElection, Claim, TypeOK, Place
<1>5. \A g \in Candidate : run'[g] \in {"succeeded", "done"} => run[g] \in {"succeeded", "done"}
  BY <1>0 DEF WinElection, TypeOK
<1>6. /\ closed' \in [Candidate -> BOOLEAN] /\ errCh' \in [Candidate -> BOOLEAN]
      /\ faults' \in 0..MaxFaults
  BY <1>0, <1>4 DEF TypeOK
<1> QED  BY <1>1, <1>3, <1>4, <1>5, <1>6, QuietBuilds

\* Run returns, or the process dies with it.
LEMMA EndBuilds ==
  ASSUME BuildsInv, NEW h \in Candidate,
         Done(h) \/ ReturnError(h) \/ Return(h) \/ Timeout(h) \/ Crash(h)
  PROVE  BuildsInv'
<1>0. TypeOK
  BY DEF BuildsInv
<1>1. faults' \in 0..MaxFaults
  BY <1>0, BoundsAreNat DEF TypeOK, Done, ReturnError, Stop, Return, Timeout, Crash
<1>2. CASE Done(h) \/ ReturnError(h)
  <2>1. PICK result \in {"succeeded", "failed"} :
          Stop(h, result) /\ (result = "succeeded" => closed[h])
    BY <1>2 DEF Done, ReturnError
  <2>2. /\ holder' \in Candidate \cup {NoOne} /\ leads' \in [Candidate -> BOOLEAN]
        /\ run' \in [Candidate -> Place]
        /\ \A g \in Candidate : run'[g] = IF g = h THEN result ELSE run[g]
    BY <1>0, <2>1 DEF Stop, TypeOK, Place
  <2>3. UNCHANGED <<manned, closed, job, errCh, rev, applied, runs>>
    BY <2>1 DEF Stop
  <2> QED  BY <1>0, <1>1, <2>1, <2>2, <2>3, QuietBuilds DEF TypeOK
<1>3. CASE Return(h) \/ Timeout(h) \/ Crash(h)
  <2>1. Reset(h) /\ UNCHANGED <<rev, applied, runs>>
    BY <1>3 DEF Return, Timeout, Crash, Exit
  <2>2. /\ closed' \in [Candidate -> BOOLEAN] /\ errCh' \in [Candidate -> BOOLEAN]
        /\ \A g \in Candidate : closed'[g] => closed[g]
    BY <1>0, <2>1 DEF Reset, TypeOK
  <2>3. /\ job' \in [Candidate -> [Slot -> Job]]
        /\ \A g \in Candidate, k \in Slot : job'[g][k] = job[g][k] \/ job'[g][k] = NoJob
    BY <1>0, <2>1, NoJobType DEF Reset, TypeOK
  <2>4. /\ holder' \in Candidate \cup {NoOne} /\ leads' \in [Candidate -> BOOLEAN]
        /\ manned' \in BOOLEAN
    BY <1>0, <1>3 DEF Return, Timeout, Crash, Exit, StepDown, TypeOK
  <2>5. /\ run' \in [Candidate -> Place]
        /\ \A g \in Candidate : run'[g] \in {"succeeded", "done"} => run[g] \in {"succeeded", "done"}
    BY <1>0, <1>3 DEF Return, Timeout, Crash, Exit, TypeOK, Place
  <2> QED  BY <1>1, <2>1, <2>2, <2>3, <2>4, <2>5, NoJobType, QuietBuilds
<1> QED  BY <1>2, <1>3

\* A handler moves on to job j.
LEMMA HandlerBuilds ==
  ASSUME BuildsInv, NEW h \in Candidate, NEW k \in Slot, NEW j \in Job, SetJob(h, k, j),
         UNCHANGED <<holder, leads, manned, run>>,
         j.m \in 0..Known[h],
         JobJustified(j, applied'),
         \/ UNCHANGED errCh
         \/ errCh' = [errCh EXCEPT ![h] = TRUE],
         rev' \in Revision, 1..rev'.id \subseteq applied',
         applied \subseteq applied', applied' \subseteq Migration,
         closed' \in [Candidate -> BOOLEAN],
         \A g \in Candidate : closed'[g] => closed[g] \/ rev'.id = Known[g],
         runs' \in [Migration -> Nat], faults' \in 0..MaxFaults
  PROVE  BuildsInv'
<1>0. TypeOK
  BY DEF BuildsInv
<1> DEFINE mine == [job[h] EXCEPT ![k] = j]
<1>1. mine \in [Slot -> Job] /\ \A i \in Slot : mine[i] = IF i = k THEN j ELSE job[h][i]
  BY <1>0 DEF TypeOK
<1>2. job' = [job EXCEPT ![h] = mine]
  BY DEF SetJob
<1> HIDE DEF mine
<1>3. /\ job' \in [Candidate -> [Slot -> Job]]
      /\ \A g \in Candidate, i \in Slot :
            job'[g][i] = IF g = h /\ i = k THEN j ELSE job[g][i]
  BY <1>0, <1>1, <1>2 DEF TypeOK
<1>4. TypeOK'
  <2>1. \A g \in Candidate, i \in Slot : job'[g][i].m \in 0..Known[g]
    BY <1>0, <1>3 DEF TypeOK
  <2>2. errCh' \in [Candidate -> BOOLEAN]
    BY <1>0 DEF TypeOK
  <2> QED  BY <1>0, <1>3, <2>1, <2>2 DEF TypeOK
<1>5. AppliedBefore'
  <2>1. ASSUME NEW g \in Candidate, NEW i \in Slot
        PROVE  JobJustified(job'[g][i], applied')
    <3>1. CASE g = h /\ i = k
      BY <1>3, <3>1 DEF JobJustified, AtWork
    <3>2. CASE ~(g = h /\ i = k)
      <4>1. job'[g][i] = job[g][i] /\ JobJustified(job[g][i], applied)
        BY <1>3, <3>2 DEF BuildsInv, AppliedBefore
      <4> QED  BY <4>1 DEF JobJustified, AtWork
    <3> QED  BY <3>1, <3>2
  <2> QED  BY <2>1 DEF AppliedBefore
<1>6. WaitEndsMigrated'
  BY DEF BuildsInv, WaitEndsMigrated
<1> QED  BY <1>4, <1>5, <1>6 DEF BuildsInv

\* A handler that has ended is justified.
LEMMA NoJobJustified == \A done : JobJustified(NoJob, done)
  BY NoJobType DEF JobJustified, AtWork

\* The facts about a handler that its next step starts from.
LEMMA JobFacts ==
  ASSUME BuildsInv, NEW h \in Candidate, NEW k \in Slot
  PROVE  /\ job[h][k] \in Job /\ job[h][k].m \in 0..Known[h] /\ Known[h] \in Nat
         /\ AtWork(job[h][k]) => job[h][k].m \in Migration
         /\ AtWork(job[h][k]) => job[h][k].m > 0 /\ 1..(job[h][k].m - 1) \subseteq applied
         /\ job[h][k].at \in {"get", "put"} => job[h][k].m \in applied
<1>1. job[h][k] \in Job /\ job[h][k].m \in 0..Known[h] /\ Known[h] \in Nat
  BY KnownIsMigration DEF BuildsInv, TypeOK
<1>2. /\ AtWork(job[h][k]) => job[h][k].m > 0 /\ 1..(job[h][k].m - 1) \subseteq applied
      /\ job[h][k].at \in {"get", "put"} => job[h][k].m \in applied
  BY DEF BuildsInv, AppliedBefore, JobJustified
<1>3. AtWork(job[h][k]) => job[h][k].m \in 1..Known[h]
  BY <1>1, <1>2
<1> QED  BY <1>1, <1>2, <1>3, KnownIsMigration

\* The next job of a list is justified when what comes before it is applied.
LEMMA NextJobJustified ==
  ASSUME NEW h \in Candidate, NEW m \in Nat \ {0}, 1..(m - 1) \subseteq applied'
  PROVE  /\ NextJob(h, m) \in Job /\ NextJob(h, m).m \in 0..Known[h]
         /\ JobJustified(NextJob(h, m), applied')
<1> DEFINE j == NextJob(h, m)
<1>1. /\ j \in Job /\ Known[h] \in Nat
      /\ \/ m > Known[h] /\ j = NoJob
         \/ m <= Known[h] /\ j.at = "run" /\ j.m = m
  BY NextJobType, KnownIsMigration
<1> HIDE DEF j
<1>2. j.m \in 0..Known[h] /\ j.at \in {"none", "run"} /\ (j.at = "run" => j.m = m)
  BY <1>1, NoJobType
<1>3. JobJustified(j, applied')
  BY <1>2 DEF JobJustified, AtWork
<1> QED  BY <1>1, <1>2, <1>3 DEF j

LEMMA RunMigrationsBuilds ==
  ASSUME BuildsInv, NEW h \in Candidate, NEW k \in Slot, Handler(h, k)
  PROVE  BuildsInv'
<1> TypeOK /\ AppliedBefore
  BY DEF BuildsInv
<1> USE JobFacts
<1>0. NoJob \in Job /\ NoJob.m \in 0..Known[h] /\ JobJustified(NoJob, applied')
  BY NoJobType, NoJobJustified, KnownIsMigration
<1>1. CASE ReadRevision(h, k)
  <2> DEFINE m == FindStartIndex(h, rev.id)
  <2>1. m \in Nat \ {0} /\ 1..(m - 1) \subseteq applied'
    BY <1>1, StartIsNext DEF ReadRevision
  <2>2. SetJob(h, k, NextJob(h, m))
    BY <1>1 DEF ReadRevision
  <2> HIDE DEF m
  <2>3. /\ NextJob(h, m) \in Job /\ NextJob(h, m).m \in 0..Known[h]
        /\ JobJustified(NextJob(h, m), applied')
    BY <2>1, NextJobJustified
  <2> QED  BY <1>1, <2>2, <2>3, HandlerBuilds DEF ReadRevision, TypeOK, AppliedBefore
<1>2. CASE BeginMigration(h, k)
  <2> DEFINE j == JobAt("running", job[h][k].m)
  <2>1. AtWork(job[h][k])
    BY <1>2 DEF BeginMigration, AtWork
  <2>2. j \in Job /\ j.at = "running" /\ j.m = job[h][k].m
    BY JobAtType
  <2>3. SetJob(h, k, j) /\ runs' \in [Migration -> Nat]
    BY <1>2, <2>1 DEF BeginMigration, TypeOK
  <2> HIDE DEF j
  <2>4. JobJustified(j, applied')
    BY <1>2, <2>1, <2>2 DEF JobJustified, AtWork, BeginMigration
  <2> QED  BY <1>2, <2>2, <2>3, <2>4, HandlerBuilds DEF BeginMigration, TypeOK, AppliedBefore
<1>3. CASE EndMigration(h, k)
  <2>1. AtWork(job[h][k])
    BY <1>3 DEF EndMigration, AtWork
  <2>2. applied \subseteq applied' /\ applied' \subseteq Migration
    BY <1>3, <2>1 DEF EndMigration, TypeOK
  <2>3. faults' \in 0..MaxFaults
    BY <1>3, BoundsAreNat DEF EndMigration, TypeOK
  <2>4. PICK i \in Job :
          /\ SetJob(h, k, i) /\ i.m \in 0..Known[h]
          /\ i.at \in {"none", "get"}
          /\ i.at = "get" => i.m = job[h][k].m /\ job[h][k].m \in applied'
          /\ UNCHANGED errCh \/ errCh' = [errCh EXCEPT ![h] = TRUE]
    <3>1. CASE HandlerFails(h, k)
      BY <3>1, NoJobType DEF HandlerFails
    <3>2. CASE /\ SetJob(h, k, JobAt("get", job[h][k].m))
               /\ applied' = applied \cup {job[h][k].m} /\ UNCHANGED errCh
      BY <3>2, JobAtType
    <3> QED  BY <1>3, <3>1, <3>2 DEF EndMigration
  <2>5. JobJustified(i, applied')
    BY <2>1, <2>2, <2>4 DEF JobJustified, AtWork
  <2> QED  BY <1>3, <2>2, <2>3, <2>4, <2>5, HandlerBuilds DEF EndMigration, TypeOK, AppliedBefore
<1>4. CASE GetRevision(h, k)
  <2> DEFINE j == [at |-> "put", m |-> job[h][k].m, read |-> rev]
  <2>1. j \in Job /\ j.at = "put" /\ j.m = job[h][k].m
    BY DEF TypeOK, Job
  <2>2. SetJob(h, k, j)
    BY <1>4 DEF GetRevision
  <2>3. AtWork(job[h][k])
    BY <1>4 DEF GetRevision, AtWork
  <2> HIDE DEF j
  <2>4. JobJustified(j, applied')
    BY <1>4, <2>1, <2>3 DEF JobJustified, AtWork, GetRevision
  <2> QED  BY <1>4, <2>1, <2>2, <2>4, HandlerBuilds DEF GetRevision, TypeOK, AppliedBefore
<1>5. CASE PutRevision(h, k)
  <2>1. AtWork(job[h][k]) /\ job[h][k].m \in applied
    BY <1>5 DEF PutRevision, AtWork
  <2> DEFINE m == job[h][k].m + 1
  <2>2. m \in Nat \ {0} /\ 1..(m - 1) \subseteq applied' /\ m - 1 = job[h][k].m
    BY <1>5, <2>1 DEF PutRevision
  <2>3. PICK missed \in SUBSET Candidate, lost \in BOOLEAN :
          /\ faults' = IF lost \/ missed # {} THEN faults + 1 ELSE faults
          /\ faults' <= MaxFaults
          /\ SeeRevision(job[h][k].m, missed)
          /\ IF lost THEN HandlerFails(h, k)
             ELSE SetJob(h, k, NextJob(h, m)) /\ UNCHANGED errCh
    BY <1>5 DEF PutRevision
  <2>4. rev' \in Revision /\ rev'.id = job[h][k].m /\ 1..rev'.id \subseteq applied'
    BY <1>5, <2>1, <2>2 DEF PutRevision, TypeOK, Revision
  <2>5. /\ closed' \in [Candidate -> BOOLEAN]
        /\ \A g \in Candidate : closed'[g] => closed[g] \/ rev'.id = Known[g]
    <3>1. \A g \in Candidate : closed[g] \in BOOLEAN
      BY DEF TypeOK
    <3>2. closed' \in [Candidate -> BOOLEAN]
      BY <2>3, <3>1, Zenon DEF SeeRevision
    <3>3. \A g \in Candidate : closed'[g] => closed[g] \/ job[h][k].m = Known[g]
      BY <2>3 DEF SeeRevision
    <3> QED  BY <2>4, <3>2, <3>3
  <2>6. faults' \in 0..MaxFaults
    BY <2>3, BoundsAreNat DEF TypeOK
  <2> HIDE DEF m
  <2>7. CASE lost
    <3>1. SetJob(h, k, NoJob) /\ errCh' = [errCh EXCEPT ![h] = TRUE]
      BY <2>3, <2>7 DEF HandlerFails
    <3>2. UNCHANGED <<holder, leads, manned, run, applied, runs>>
      BY <1>5 DEF PutRevision
    <3> QED  BY <1>0, <2>4, <2>5, <2>6, <3>1, <3>2, HandlerBuilds DEF TypeOK
  <2>8. CASE ~lost
    <3>1. /\ NextJob(h, m) \in Job /\ NextJob(h, m).m \in 0..Known[h]
          /\ JobJustified(NextJob(h, m), applied')
      BY <2>2, NextJobJustified
    <3> QED  BY <1>5, <2>3, <2>4, <2>5, <2>6, <2>8, <3>1, HandlerBuilds DEF PutRevision, TypeOK
  <2> QED  BY <2>7, <2>8
<1>6. CASE PutConflicts(h, k)
  BY <1>0, <1>6, HandlerBuilds DEF PutConflicts, HandlerFails, TypeOK, AppliedBefore
<1> QED  BY <1>1, <1>2, <1>3, <1>4, <1>5, <1>6 DEF Handler

\* Every step of the system keeps the invariant, whatever the builds.
LEMMA StepBuilds == BuildsInv /\ [Next]_vars => BuildsInv'
<1> SUFFICES ASSUME BuildsInv, [Next]_vars PROVE BuildsInv'
  OBVIOUS
<1>1. CASE ClaimExpires
  <2>1. PICK h \in Candidate : TRUE
    BY <1>1 DEF ClaimExpires, Lapse
  <2> QED  BY <1>1, <2>1, StartBuilds
<1>2. CASE UNCHANGED vars
  BY <1>2 DEF vars, BuildsInv, TypeOK, AppliedBefore, JobJustified, AtWork, WaitEndsMigrated
<1>3. ASSUME NEW h \in Candidate, Runner(h) \/ Crash(h) \/ LoseClaim(h) \/ LoseAnswer(h)
      PROVE  BuildsInv'
  BY <1>3, StartBuilds, WinBuilds, EndBuilds DEF Runner
<1> QED  BY <1>1, <1>2, <1>3, RunMigrationsBuilds DEF Next

LEMMA AlwaysBuilds == Spec => []BuildsInv
  BY InitBuilds, StepBuilds, PTL DEF Spec

\* Every variable keeps its type.
THEOREM MigrateTypeCorrect == Spec => []TypeOK
<1>1. BuildsInv => TypeOK
  BY DEF BuildsInv
<1> QED  BY <1>1, AlwaysBuilds, PTL

\* A host that has started to serve has all its migrations applied, whoever
\* has run them, whatever claims were lost and whatever the builds.
THEOREM ServesMigratedHolds == Spec => []ServesMigrated
<1>1. BuildsInv => ServesMigrated
  BY DEF BuildsInv, WaitEndsMigrated, ServesMigrated
<1> QED  BY <1>1, AlwaysBuilds, PTL

\* A migration is begun only when every earlier one has been applied, however
\* many handlers are at work and wherever they put the revision back to.
THEOREM InOrderHolds == Spec => InOrder
<1> DEFINE InOrderStep == \A m \in Migration : runs'[m] # runs[m] => 1..(m - 1) \subseteq applied
<1>1. ASSUME BuildsInv, [Next]_vars
      PROVE  [InOrderStep]_vars
  <2> SUFFICES ASSUME NEW m \in Migration, runs'[m] # runs[m]
               PROVE  1..(m - 1) \subseteq applied
    OBVIOUS
  <2>1. PICK h \in Candidate, k \in Slot : BeginMigration(h, k)
    BY <1>1 DEF Next, Runner, HasPendingMigrations, Watch, WinElection, FindOwnClaim, LoseAnswer,
       LoseElection, Done, ReturnError, Stop, Return, Timeout, Exit, Handler, ReadRevision,
       EndMigration, GetRevision, PutRevision, PutConflicts, Crash, ClaimExpires, LoseClaim, vars
  <2>2. m = job[h][k].m
    BY <1>1, <2>1 DEF BeginMigration, BuildsInv, TypeOK
  <2> QED  BY <1>1, <2>1, <2>2 DEF BuildsInv, AppliedBefore, JobJustified, AtWork, BeginMigration
<1>2. Spec => [][InOrderStep]_vars
  BY <1>1, AlwaysBuilds, PTL DEF Spec
<1> QED  BY <1>2 DEF InOrder

-----------------------------------------------------------------------------
(***************************************************************************)
(* Scheduler: the inductive invariant.  Between the events of its watch a  *)
(* host's table may be behind what is stored or, by its own activity,      *)
(* ahead of it; what is left of the events always ends with what is stored.*)
(***************************************************************************)

CONSTANTS MaxCalls, MaxExits, Rejected
VARIABLES up, log, seen, runners, cron, call, known, tick, exits, blind, over

S == INSTANCE Scheduler

\* What is still to be handled by a host ends with the stored job, whatever is
\* in its table now.
WillBeDeleted(h) == \E i \in (seen[h] + 1) .. Len(log) : log[i] = 0

\* The cron library has what the table says.
CronIsTable == \A h \in Candidate : cron[h] = {runners[h]} \ {S!NoJob}

\* A host that does not watch yet has an empty table.
TableIsFresh == \A h \in Candidate : up[h] # "up" => runners[h] = S!NoJob /\ seen[h] = 0

\* Where the operation is, and what it has written by then.
CallInStep ==
    /\ call.at \in {"delete", "unregister", "put", "register"} =>
         call.host \in Candidate /\ up[call.host] = "up"
    /\ call.at = "unregister" => S!Stored = 0
    /\ call.at = "put" => call.want # 0 /\ (S!Planned(known, call) # "create" => S!Stored = 0)
    /\ call.at = "register" => call.want # 0 /\ S!Stored = call.want

\* The revisions after the last delete are of one schedule.
OneSchedule ==
    /\ over => S!Stored # 0
    /\ ~over => \A i \in 1 .. Len(log) :
                   log[i] = S!Stored \/ \E j \in i .. Len(log) : log[j] = 0

\* A host whose watch has passed over nothing runs the stored job, or nothing
\* when events are left to handle, or the rest of its events has a delete.
Follows ==
    ~over => \A h \in Candidate \ blind : up[h] = "up" =>
        \/ WillBeDeleted(h)
        \/ runners[h].schedule = S!Stored
        \/ runners[h] = S!NoJob /\ seen[h] < Len(log)

SchedulerInv == S!TypeOK /\ CronIsTable /\ TableIsFresh /\ CallInStep /\ OneSchedule /\ Follows

-----------------------------------------------------------------------------
(***************************************************************************)
(* The table of a host and the sequence of revisions                       *)
(***************************************************************************)

\* The stored job is the last revision.
LEMMA StoredType ==
  ASSUME S!TypeOK
  PROVE  /\ S!Stored \in {0} \cup S!Schedule
         /\ Len(log) \in Nat
         /\ \A i \in 1 .. Len(log) : log[i] \in {0} \cup S!Schedule
         /\ Len(log) > 0 => S!Stored = log[Len(log)]
         /\ Len(log) = 0 => S!Stored = 0
<1>1. Len(log) \in Nat /\ \A i \in 1 .. Len(log) : log[i] \in {0} \cup S!Schedule
  BY DEF S!TypeOK
<1>2. Len(log) = 0 <=> log = << >>
  BY DEF S!TypeOK
<1> QED  BY <1>1, <1>2 DEF S!Stored

\* What a write makes of the sequence.
LEMMA AppendRevision ==
  ASSUME S!TypeOK, NEW v \in {0} \cup S!Schedule, log' = Append(log, v)
  PROVE  /\ log' \in Seq({0} \cup S!Schedule)
         /\ Len(log') = Len(log) + 1
         /\ \A i \in 1 .. Len(log) : log'[i] = log[i]
         /\ log'[Len(log) + 1] = v
         /\ S!Stored' = v
  BY StoredType DEF S!TypeOK, S!Stored

\* A job and the empty entry of the table.
LEMMA JobIsNoNoJob ==
  ASSUME S!BoundsAreNat
  PROVE
  /\ S!NoJob \notin S!Job
  /\ \A j \in S!Job \cup {S!NoJob} : (j.schedule = 0) <=> (j = S!NoJob)
  /\ \A j \in S!Job \cup {S!NoJob} : j.schedule \in {0} \cup S!Schedule
  BY DEF S!BoundsAreNat, S!Job, S!NoJob, S!Schedule

\* registerJob keeps the types, and the library has what the table has.
LEMMA RegisterJobTable ==
  ASSUME S!BoundsAreNat, S!TypeOK, CronIsTable, NEW h \in Candidate, NEW n \in S!Schedule,
         NEW x \in 0 .. MaxCalls,
         S!registerJob(h, [schedule |-> n, ctx |-> x])
  PROVE  /\ runners' \in [Candidate -> S!Job \cup {S!NoJob}]
         /\ cron' \in [Candidate -> SUBSET S!Job]
         /\ CronIsTable'
         /\ \A g \in Candidate \ {h} : runners'[g] = runners[g]
         /\ runners[h] # S!NoJob => runners'[h] = runners[h]
         /\ runners[h] = S!NoJob => runners'[h] = [schedule |-> n, ctx |-> x]
<1> DEFINE new == [schedule |-> n, ctx |-> x]
<1>1. new \in S!Job /\ new # S!NoJob
  BY JobIsNoNoJob DEF S!Job
<1>2. CASE runners[h] # S!NoJob
  BY <1>2 DEF S!registerJob, S!table, S!TypeOK, CronIsTable
<1>3. CASE runners[h] = S!NoJob
  <2>1. runners' = [runners EXCEPT ![h] = new] /\ cron' = [cron EXCEPT ![h] = @ \cup {new}]
    BY <1>3 DEF S!registerJob
  <2>2. cron[h] = {}
    BY <1>3 DEF CronIsTable
  <2> HIDE DEF new
  <2>3. runners' \in [Candidate -> S!Job \cup {S!NoJob}] /\ cron' \in [Candidate -> SUBSET S!Job]
    BY <1>1, <2>1 DEF S!TypeOK
  <2>4. runners'[h] = new /\ cron'[h] = {new}
    BY <2>1, <2>2 DEF S!TypeOK
  <2>5. \A g \in Candidate \ {h} : runners'[g] = runners[g] /\ cron'[g] = cron[g]
    BY <2>1 DEF S!TypeOK
  <2>6. CronIsTable'
    BY <1>1, <2>4, <2>5 DEF CronIsTable
  <2> QED  BY <1>3, <2>3, <2>4, <2>5, <2>6 DEF new
<1> QED  BY <1>2, <1>3

\* UnregisterJob does the same.
LEMMA UnregisterJobTable ==
  ASSUME S!TypeOK, CronIsTable, NEW h \in Candidate, S!UnregisterJob(h)
  PROVE  /\ runners' \in [Candidate -> S!Job \cup {S!NoJob}]
         /\ cron' \in [Candidate -> SUBSET S!Job]
         /\ CronIsTable'
         /\ \A g \in Candidate \ {h} : runners'[g] = runners[g]
         /\ runners'[h] = S!NoJob
<1>1. runners' \in [Candidate -> S!Job \cup {S!NoJob}] /\ cron' \in [Candidate -> SUBSET S!Job]
  BY DEF S!TypeOK, S!UnregisterJob
<1>2. runners'[h] = S!NoJob /\ cron'[h] = {}
  BY DEF S!TypeOK, S!UnregisterJob, CronIsTable
<1>3. \A g \in Candidate \ {h} : runners'[g] = runners[g] /\ cron'[g] = cron[g]
  BY DEF S!TypeOK, S!UnregisterJob
<1> QED  BY <1>1, <1>2, <1>3 DEF CronIsTable

-----------------------------------------------------------------------------
(***************************************************************************)
(* The steps of a host                                                     *)
(***************************************************************************)

\* What leaves the store alone keeps what is said about it.
LEMMA SameStore ==
  ASSUME SchedulerInv, UNCHANGED <<log, over>>
  PROVE  OneSchedule' /\ S!Stored' = S!Stored
  BY DEF SchedulerInv, OneSchedule, S!Stored

\* The table of a host, when no other one changes and the store is left alone.
LEMMA FollowsHost ==
  ASSUME SchedulerInv, UNCHANGED <<log, over>>, NEW h \in Candidate,
         \A g \in Candidate \ {h} : /\ up'[g] = up[g] /\ seen'[g] = seen[g]
                                    /\ runners'[g] = runners[g]
                                    /\ g \notin blind' => g \notin blind,
         ~over /\ up'[h] = "up" /\ h \notin blind' =>
             \/ WillBeDeleted(h)'
             \/ runners'[h].schedule = S!Stored
             \/ runners'[h] = S!NoJob /\ seen'[h] < Len(log)
  PROVE  Follows'
<1>1. S!Stored' = S!Stored
  BY SameStore
<1>2. \A g \in Candidate \ {h} : WillBeDeleted(g)' <=> WillBeDeleted(g)
  BY DEF WillBeDeleted
<1> QED  BY <1>1, <1>2 DEF SchedulerInv, Follows

\* A process that ends takes its table and its call with it.
LEMMA EndsInv ==
  ASSUME SchedulerInv, NEW h \in Candidate, S!Ends(h), UNCHANGED <<log, known, tick, over>>
  PROVE  SchedulerInv'
<1>1. S!TypeOK'
  <2>1. seen' \in [Candidate -> 0 .. Len(log')]
    BY StoredType DEF SchedulerInv, S!TypeOK, S!Ends
  <2>2. call' \in [n : 0..MaxCalls, want : {0} \cup S!Schedule, stanza : BOOLEAN,
                   host : Candidate \cup {NoOne},
                   at : {"idle", "refresh", "begin", "delete", "unregister", "put", "register"}]
    BY DEF SchedulerInv, S!TypeOK, S!Ends
  <2>3. runners' \in [Candidate -> S!Job \cup {S!NoJob}] /\ cron' \in [Candidate -> SUBSET S!Job]
        /\ up' \in [Candidate -> {"down", "starting", "up"}] /\ blind' \subseteq Candidate
    BY DEF SchedulerInv, S!TypeOK, S!Ends
  <2> QED  BY <2>1, <2>2, <2>3 DEF SchedulerInv, S!TypeOK
<1>2. CronIsTable' /\ TableIsFresh'
  BY DEF SchedulerInv, S!TypeOK, S!Ends, CronIsTable, TableIsFresh
<1>3. CallInStep'
  <2>1. CASE call.host = h
    BY <2>1 DEF SchedulerInv, S!TypeOK, S!Ends, CallInStep
  <2>2. CASE call.host # h
    <3>1. call' = call /\ S!Stored' = S!Stored /\ \A g \in Candidate \ {h} : up'[g] = up[g]
      BY <2>2, SameStore DEF S!Ends, SchedulerInv, S!TypeOK
    <3>2. S!Planned(known, call)' = S!Planned(known, call)
      BY <3>1 DEF S!Planned
    <3> QED  BY <2>2, <3>1, <3>2 DEF SchedulerInv, CallInStep
  <2> QED  BY <2>1, <2>2
<1>4. Follows'
  <2>1. up'[h] = "down" /\ \A g \in Candidate \ {h} :
            /\ up'[g] = up[g] /\ seen'[g] = seen[g] /\ runners'[g] = runners[g]
            /\ g \notin blind' => g \notin blind
    BY DEF SchedulerInv, S!TypeOK, S!Ends
  <2> QED  BY <2>1, FollowsHost
<1> QED  BY <1>1, <1>2, <1>3, <1>4, SameStore DEF SchedulerInv

\* A host that stays up, or comes up, leaves the call alone.
LEMMA CallOfHost ==
  ASSUME SchedulerInv, UNCHANGED <<log, call, known, over>>,
         \A g \in Candidate : up[g] = "up" => up'[g] = "up"
  PROVE  CallInStep'
<1>1. S!Stored' = S!Stored /\ S!Planned(known, call)' = S!Planned(known, call)
  BY SameStore DEF S!Planned
<1> QED  BY <1>1 DEF SchedulerInv, CallInStep

\* The start of a server, and the load of its watch.
LEMMA StartInv ==
  ASSUME SchedulerInv, NEW h \in Candidate, S!Start(h)
  PROVE  SchedulerInv'
<1>1. UNCHANGED <<log, seen, runners, cron, call, known, tick, blind, over>>
  BY DEF S!Start, S!table, S!budget
<1>2. up' = [up EXCEPT ![h] = "starting"] /\ up[h] = "down"
  BY DEF S!Start
<1>3. S!TypeOK' /\ CronIsTable' /\ TableIsFresh'
  BY <1>1, <1>2 DEF SchedulerInv, S!TypeOK, CronIsTable, TableIsFresh
<1>4. CallInStep'
  BY <1>1, <1>2, CallOfHost DEF SchedulerInv, S!TypeOK
<1>5. Follows'
  BY <1>1, <1>2, FollowsHost DEF SchedulerInv, S!TypeOK
<1> QED  BY <1>1, <1>3, <1>4, <1>5, SameStore DEF SchedulerInv

\* A watch that begins has loaded the stored job and every revision.
LEMMA WatchJobChangesInv ==
  ASSUME S!BoundsAreNat, SchedulerInv, NEW h \in Candidate, S!WatchJobChanges(h)
  PROVE  SchedulerInv'
<1>0. UNCHANGED <<log, known, tick, over>> /\ up[h] = "starting"
  BY DEF S!WatchJobChanges, S!budget
<1>1. CASE S!Refused(h, S!Stored)
  BY <1>0, <1>1, EndsInv DEF S!WatchJobChanges
<1>2. CASE ~S!Refused(h, S!Stored)
  <2>1. /\ up' = [up EXCEPT ![h] = "up"] /\ seen' = [seen EXCEPT ![h] = Len(log)]
        /\ S!Loaded(h) /\ call' = call /\ blind' = blind
    BY <1>2 DEF S!WatchJobChanges
  <2>2. runners[h] = S!NoJob
    BY <1>0 DEF SchedulerInv, TableIsFresh
  <2>3. /\ runners' \in [Candidate -> S!Job \cup {S!NoJob}] /\ cron' \in [Candidate -> SUBSET S!Job]
        /\ CronIsTable' /\ \A g \in Candidate \ {h} : runners'[g] = runners[g]
        /\ runners'[h].schedule = S!Stored
    <3>1. CASE S!Stored = 0
      BY <2>1, <2>2, <3>1 DEF S!Loaded, S!table, SchedulerInv, S!TypeOK, CronIsTable, S!NoJob
    <3>2. CASE S!Stored # 0
      <4>1. S!Stored \in S!Schedule /\ S!registerJob(h, [schedule |-> S!Stored, ctx |-> 0])
        BY <2>1, <3>2, StoredType DEF S!Loaded, SchedulerInv
      <4>2. 0 \in 0 .. MaxCalls
        BY DEF S!BoundsAreNat
      <4> QED  BY <2>2, <4>1, <4>2, RegisterJobTable DEF SchedulerInv
    <3> QED  BY <3>1, <3>2
  <2>4. S!TypeOK'
    <3>1. seen' \in [Candidate -> 0 .. Len(log')] /\ up' \in [Candidate -> {"down", "starting", "up"}]
      BY <1>0, <2>1, StoredType DEF SchedulerInv, S!TypeOK
    <3> QED  BY <1>0, <2>1, <2>3, <3>1 DEF SchedulerInv, S!TypeOK
  <2>5. TableIsFresh'
    BY <2>1, <2>3 DEF SchedulerInv, S!TypeOK, TableIsFresh
  <2>6. CallInStep'
    BY <1>0, <2>1, CallOfHost DEF SchedulerInv, S!TypeOK
  <2>7. Follows'
    BY <1>0, <2>1, <2>3, FollowsHost DEF SchedulerInv, S!TypeOK
  <2> QED  BY <1>0, <2>3, <2>4, <2>5, <2>6, <2>7, SameStore DEF SchedulerInv
<1> QED  BY <1>1, <1>2

\* An event: a delete empties the table, and after the last delete every event
\* is one of the stored job.
LEMMA HandleEventInv ==
  ASSUME S!BoundsAreNat, SchedulerInv, NEW h \in Candidate, S!HandleEvent(h)
  PROVE  SchedulerInv'
<1> DEFINE n == log[seen[h] + 1]
<1>0. UNCHANGED <<log, known, tick, over>> /\ up[h] = "up" /\ seen[h] < Len(log)
  BY DEF S!HandleEvent, S!budget
<1>1. CASE S!Refused(h, n)
  BY <1>0, <1>1, EndsInv DEF S!HandleEvent
<1>2. CASE ~S!Refused(h, n)
  <2>1. /\ seen' = [seen EXCEPT ![h] = @ + 1] /\ S!Handled(h, n) /\ up' = up /\ call' = call
        /\ blind' = IF n = 0 THEN blind \ {h} ELSE blind
    BY <1>2 DEF S!HandleEvent
  <2>2. seen[h] \in Nat /\ seen[h] + 1 \in 1 .. Len(log) /\ Len(log) \in Nat
        /\ n \in {0} \cup S!Schedule
    BY <1>0, StoredType DEF SchedulerInv, S!TypeOK
  <2>3. /\ runners' \in [Candidate -> S!Job \cup {S!NoJob}] /\ cron' \in [Candidate -> SUBSET S!Job]
        /\ CronIsTable' /\ \A g \in Candidate \ {h} : runners'[g] = runners[g]
        /\ n = 0 => runners'[h] = S!NoJob
        /\ n # 0 /\ runners[h] # S!NoJob => runners'[h] = runners[h]
        /\ n # 0 /\ runners[h] = S!NoJob => runners'[h].schedule = n
    <3>1. CASE n = 0
      BY <2>1, <3>1, UnregisterJobTable DEF S!Handled, SchedulerInv
    <3>2. CASE n # 0
      <4>1. n \in S!Schedule /\ S!registerJob(h, [schedule |-> n, ctx |-> 0]) /\ 0 \in 0 .. MaxCalls
        BY <2>1, <2>2, <3>2 DEF S!BoundsAreNat, S!Handled
      <4> HIDE DEF n
      <4> QED  BY <3>2, <4>1, RegisterJobTable DEF SchedulerInv
    <3> QED  BY <3>1, <3>2
  <2>4. seen' \in [Candidate -> 0 .. Len(log)] /\ seen'[h] = seen[h] + 1
        /\ \A g \in Candidate \ {h} : seen'[g] = seen[g]
    BY <1>0, <2>1, <2>2 DEF SchedulerInv, S!TypeOK
  <2>5. S!TypeOK'
    BY <1>0, <2>1, <2>3, <2>4 DEF SchedulerInv, S!TypeOK
  <2>6. TableIsFresh'
    BY <1>0, <2>1, <2>3, <2>4 DEF SchedulerInv, TableIsFresh
  <2>7. CallInStep'
    BY <1>0, <2>1, CallOfHost
  <2>8. ASSUME ~over, h \notin blind'
        PROVE  \/ WillBeDeleted(h)' \/ runners'[h].schedule = S!Stored
               \/ runners'[h] = S!NoJob /\ seen'[h] < Len(log)
    <3>1. CASE \E i \in (seen[h] + 2) .. Len(log) : log[i] = 0
      BY <1>0, <2>2, <2>4, <3>1 DEF WillBeDeleted
    <3>2. CASE ~(\E i \in (seen[h] + 2) .. Len(log) : log[i] = 0) /\ n = 0
      <4>1. CASE seen[h] + 1 < Len(log)
        BY <2>3, <2>4, <3>2, <4>1
      <4>2. CASE seen[h] + 1 = Len(log)
        <5>1. S!Stored = 0
          BY <2>2, <3>2, <4>2, StoredType DEF SchedulerInv
        <5> QED  BY <2>3, <3>2, <5>1 DEF S!NoJob
      <4> QED  BY <2>2, <4>1, <4>2
    <3>3. CASE ~(\E i \in (seen[h] + 2) .. Len(log) : log[i] = 0) /\ n # 0
      <4>1. ~ \E j \in (seen[h] + 1) .. Len(log) : log[j] = 0
        BY <2>2, <3>3
      <4>2. n = S!Stored
        BY <2>2, <2>8, <4>1 DEF SchedulerInv, OneSchedule
      <4>3. runners[h].schedule = S!Stored \/ runners[h] = S!NoJob
        BY <1>0, <2>1, <2>8, <3>3, <4>1 DEF SchedulerInv, Follows, WillBeDeleted
      <4> QED  BY <2>3, <3>3, <4>2, <4>3
    <3> QED  BY <3>1, <3>2, <3>3
  <2>9. Follows'
    BY <1>0, <2>1, <2>3, <2>4, <2>8, FollowsHost
  <2> QED  BY <1>0, <2>3, <2>5, <2>6, <2>7, <2>9, SameStore DEF SchedulerInv
<1> QED  BY <1>1, <1>2

\* A watch that is interrupted passes over events, and its host is blind.
LEMMA InterruptInv ==
  ASSUME SchedulerInv, NEW h \in Candidate, S!Interrupt(h)
  PROVE  SchedulerInv'
<1>1. UNCHANGED <<up, log, runners, cron, call, known, tick, over>> /\ blind' = blind \cup {h}
  BY DEF S!Interrupt, S!table
<1>2. PICK r \in (seen[h] + 1)..Len(log) : seen' = [seen EXCEPT ![h] = r]
  BY DEF S!Interrupt
<1>3. seen[h] \in 0..Len(log) /\ Len(log) \in Nat /\ up[h] = "up"
  BY StoredType DEF SchedulerInv, S!TypeOK, S!Interrupt
<1>4. /\ seen' \in [Candidate -> 0..Len(log)] /\ blind' \subseteq Candidate
      /\ \A g \in Candidate \ {h} : seen'[g] = seen[g]
  BY <1>1, <1>2, <1>3 DEF SchedulerInv, S!TypeOK
<1>5. S!TypeOK'
  BY <1>1, <1>4 DEF SchedulerInv, S!TypeOK
<1>6. CronIsTable' /\ TableIsFresh'
  BY <1>1, <1>3, <1>4 DEF SchedulerInv, CronIsTable, TableIsFresh
<1>7. CallInStep'
  BY <1>1, CallOfHost
<1>8. Follows'
  BY <1>1, <1>4, FollowsHost
<1> QED  BY <1>1, <1>5, <1>6, <1>7, <1>8, SameStore DEF SchedulerInv

-----------------------------------------------------------------------------
(***************************************************************************)
(* The operation                                                           *)
(***************************************************************************)

CallType  == [n : 0..MaxCalls, want : {0} \cup S!Schedule, stanza : BOOLEAN,
          host : Candidate \cup {NoOne},
          at : {"idle", "refresh", "begin", "delete", "unregister", "put", "register"}]
KnownType == [schedule : {0} \cup S!Schedule, recreate : BOOLEAN, error : BOOLEAN]

\* What changes the call and what is known of it only.
LEMMA CallOnly ==
  ASSUME SchedulerInv, UNCHANGED <<up, log, seen, runners, cron, tick, blind, over>>,
         call' \in CallType, known' \in KnownType, CallInStep'
  PROVE  SchedulerInv'
<1>1. S!TypeOK'
  BY DEF SchedulerInv, S!TypeOK, CallType, KnownType
<1>2. CronIsTable' /\ TableIsFresh'
  BY DEF SchedulerInv, CronIsTable, TableIsFresh
<1>3. Follows' /\ OneSchedule'
  BY SameStore DEF SchedulerInv, Follows, WillBeDeleted
<1> QED  BY <1>1, <1>2, <1>3 DEF SchedulerInv

\* The activity returns, and the operation is over.
LEMMA ReturnType ==
  ASSUME SchedulerInv, NEW ok \in BOOLEAN, S!Return(ok)
  PROVE  call' \in CallType /\ known' \in KnownType /\ call'.at = "idle" /\ CallInStep'
<1>1. call' \in CallType /\ call'.at = "idle"
  BY DEF S!Return, SchedulerInv, S!TypeOK, CallType
<1>2. known' \in KnownType
  <2>1. (~ok) \in BOOLEAN /\ (~ok /\ S!Planned(known, call) = "create") \in BOOLEAN
    BY Zenon
  <2>2. call.want \in {0} \cup S!Schedule /\ known \in KnownType /\ S!Absent \in KnownType
    BY DEF SchedulerInv, S!TypeOK, CallType, KnownType, S!Absent
  <2>3. \A e, r \in BOOLEAN : [schedule |-> call.want, error |-> e, recreate |-> r] \in KnownType
    BY <2>2 DEF KnownType
  <2> QED  BY <2>1, <2>2, <2>3, Zenon DEF S!Return
<1>3. CallInStep'
  BY <1>1 DEF CallInStep
<1> QED  BY <1>1, <1>2, <1>3

\* A write of the store.  A delete is on the way to every host; a put finds no
\* job or its own schedule, unless the history variable says so.
LEMMA WriteInv ==
  ASSUME S!BoundsAreNat, SchedulerInv, NEW v \in {0} \cup S!Schedule, S!Write(v),
         UNCHANGED <<up, seen, runners, blind>>,
         v # 0 /\ S!Planned(known, call) # "create" => S!Stored = 0
  PROVE  /\ log' \in Seq({0} \cup S!Schedule)
         /\ seen' \in [Candidate -> 0 .. Len(log')]
         /\ S!Stored' = v
         /\ OneSchedule' /\ Follows'
<1>0. S!TypeOK
  BY DEF SchedulerInv
<1>1. CASE v = 0 /\ S!Stored = 0
  <2>1. log' = log /\ ~over' /\ ~over
    BY <1>1 DEF S!Write, SchedulerInv, OneSchedule
  <2>2. S!Stored' = 0
    BY <1>1, <2>1 DEF S!Stored
  <2> QED  BY <1>0, <1>1, <2>1, <2>2 DEF SchedulerInv, S!TypeOK, OneSchedule, Follows, WillBeDeleted
<1>2. CASE ~(v = 0 /\ S!Stored = 0)
  <2>1. log' = Append(log, v)
    BY <1>2 DEF S!Write
  <2>2. /\ log' \in Seq({0} \cup S!Schedule) /\ S!Stored' = v
        /\ Len(log') = Len(log) + 1 /\ Len(log) \in Nat
        /\ \A i \in 1 .. Len(log) : log'[i] = log[i]
        /\ log'[Len(log) + 1] = v
    BY <1>0, <2>1, AppendRevision, StoredType
  <2>3. seen' \in [Candidate -> 0 .. Len(log')] /\ \A h \in Candidate : seen[h] \in 0 .. Len(log)
    BY <1>0, <2>2 DEF S!TypeOK
  <2>4. \A h \in Candidate : WillBeDeleted(h) => WillBeDeleted(h)'
    BY <2>2, <2>3 DEF WillBeDeleted
  <2>5. CASE v = 0
    <3>1. \A i \in 1 .. Len(log') : \E j \in i .. Len(log') : log'[j] = 0
      <4> SUFFICES ASSUME NEW i \in 1 .. Len(log') PROVE \E j \in i .. Len(log') : log'[j] = 0
        OBVIOUS
      <4>1. Len(log') \in i .. Len(log') /\ log'[Len(log')] = 0
        BY <2>2, <2>5
      <4> QED  BY <4>1
    <3>2. \A h \in Candidate : WillBeDeleted(h)'
      <4> SUFFICES ASSUME NEW h \in Candidate PROVE \E j \in (seen[h] + 1) .. Len(log') : log'[j] = 0
        BY DEF WillBeDeleted
      <4>1. seen[h] + 1 \in 1 .. Len(log')
        BY <2>2, <2>3
      <4> QED  BY <3>1, <4>1
    <3>3. ~over'
      BY <2>5 DEF S!Write
    <3> QED  BY <2>2, <2>3, <3>1, <3>2, <3>3 DEF OneSchedule, Follows
  <2>6. CASE v # 0
    <3>1. ~over' => ~over /\ S!Stored \in {0, v}
      BY <2>6 DEF S!Write
    <3>2. S!Stored' # 0
      BY <2>2, <2>6
    <3>3. ASSUME ~over', NEW i \in 1 .. Len(log')
          PROVE  log'[i] = v \/ \E j \in i .. Len(log') : log'[j] = 0
      <4>1. CASE i = Len(log) + 1
        BY <2>2, <4>1
      <4>2. CASE i \in 1 .. Len(log)
        <5>1. CASE S!Stored = 0
          <6>1. Len(log) \in i .. Len(log') /\ Len(log) \in 1 .. Len(log) /\ log[Len(log)] = 0
            BY <1>0, <2>2, <4>2, <5>1, StoredType
          <6> QED  BY <2>2, <6>1
        <5>2. CASE S!Stored = v
          <6>1. log[i] = v \/ \E j \in i .. Len(log) : log[j] = 0
            BY <3>1, <3>3, <4>2, <5>2 DEF SchedulerInv, OneSchedule
          <6> QED  BY <2>2, <4>2, <6>1
        <5> QED  BY <3>1, <3>3, <5>1, <5>2
      <4> QED  BY <2>2, <4>1, <4>2
    <3>4. OneSchedule'
      BY <2>2, <3>2, <3>3 DEF OneSchedule
    <3>5. ASSUME ~over', NEW h \in Candidate \ blind, up[h] = "up", ~WillBeDeleted(h)'
          PROVE  runners[h].schedule = v \/ (runners[h] = S!NoJob /\ seen[h] < Len(log'))
      <4>1. runners[h].schedule = S!Stored \/ runners[h] = S!NoJob
        BY <2>4, <3>1, <3>5 DEF SchedulerInv, Follows
      <4>2. S!Stored = 0 /\ runners[h].schedule = 0 => runners[h] = S!NoJob
        BY <1>0, JobIsNoNoJob DEF S!TypeOK
      <4>3. seen[h] < Len(log')
        BY <2>2, <2>3
      <4> QED  BY <3>1, <3>5, <4>1, <4>2, <4>3
    <3>6. Follows'
      BY <2>2, <3>5 DEF Follows
    <3> QED  BY <2>2, <2>3, <3>4, <3>6
  <2> QED  BY <2>5, <2>6
<1> QED  BY <1>1, <1>2

\* A write together with what it does to the call.
LEMMA WriteStep ==
  ASSUME S!BoundsAreNat, SchedulerInv, NEW v \in {0} \cup S!Schedule, S!Write(v),
         UNCHANGED <<up, seen, runners, cron, tick, blind>>,
         v # 0 /\ S!Planned(known, call) # "create" => S!Stored = 0,
         call' \in CallType, known' \in KnownType, S!Stored' = v => CallInStep'
  PROVE  SchedulerInv'
<1>1. /\ log' \in Seq({0} \cup S!Schedule) /\ seen' \in [Candidate -> 0 .. Len(log')]
      /\ OneSchedule' /\ Follows' /\ CallInStep'
  BY WriteInv
<1>2. S!TypeOK'
  BY <1>1 DEF SchedulerInv, S!TypeOK, CallType, KnownType
<1>3. CronIsTable' /\ TableIsFresh'
  BY DEF SchedulerInv, CronIsTable, TableIsFresh
<1> QED  BY <1>1, <1>2, <1>3 DEF SchedulerInv

\* A failed request ends the operation, whether it was applied or not.
LEMMA RequestFailsInv ==
  ASSUME S!BoundsAreNat, SchedulerInv, NEW v \in {0} \cup S!Schedule, S!RequestFails(v),
         UNCHANGED <<up, seen, runners, cron, tick, blind>>,
         v # 0 /\ S!Planned(known, call) # "create" => S!Stored = 0
  PROVE  SchedulerInv'
<1>1. call' \in CallType /\ known' \in KnownType /\ CallInStep'
  BY ReturnType DEF S!RequestFails
<1>2. CASE S!Write(v)
  BY <1>1, <1>2, WriteStep
<1>3. CASE UNCHANGED <<log, over>>
  BY <1>1, <1>3, CallOnly
<1> QED  BY <1>2, <1>3 DEF S!RequestFails

\* What an operation is before it writes.
LEMMA CallIsTyped ==
  ASSUME SchedulerInv
  PROVE  call \in CallType /\ known \in KnownType /\ call.want \in {0} \cup S!Schedule
         /\ (call.at \in {"delete", "unregister", "put", "register"} => call.host \in Candidate)
  BY DEF SchedulerInv, S!TypeOK, CallType, KnownType, CallInStep

LEMMA RequestInv ==
  ASSUME S!BoundsAreNat, SchedulerInv, S!Request
  PROVE  SchedulerInv'
<1>1. PICK want \in {0, known.schedule, call.n + 1}, stanza \in BOOLEAN :
         call' = [n |-> call.n + 1, want |-> want, stanza |-> stanza, host |-> NoOne,
                  at |-> IF known.schedule = 0 THEN "begin" ELSE "refresh"]
  BY DEF S!Request
<1>2. call.n + 1 \in 1 .. MaxCalls
  BY DEF S!BoundsAreNat, S!Request, SchedulerInv, S!TypeOK
<1>3. call' \in CallType /\ call'.at \in {"begin", "refresh"}
  BY <1>1, <1>2 DEF SchedulerInv, S!TypeOK, CallType, S!Schedule
<1>4. CallInStep'
  BY <1>3 DEF CallInStep
<1>5. UNCHANGED <<up, log, seen, runners, cron, known, tick, blind, over>>
  BY DEF S!Request, S!table, S!budget
<1> QED  BY <1>3, <1>4, <1>5, CallOnly, CallIsTyped

LEMMA RefreshInv ==
  ASSUME SchedulerInv, NEW h \in Candidate, S!Refresh(h)
  PROVE  SchedulerInv'
<1>1. call' \in CallType /\ call'.at \in {"begin", "idle"}
  BY CallIsTyped DEF S!Refresh, CallType
<1>2. known' \in KnownType
  <2>1. (known.recreate \/ runners[h] = S!NoJob) \in BOOLEAN
    BY Zenon
  <2>2. \A b \in BOOLEAN : [known EXCEPT !.recreate = b] \in KnownType
    BY CallIsTyped DEF KnownType
  <2>3. known' = [known EXCEPT !.recreate = known.recreate \/ runners[h] = S!NoJob]
    BY DEF S!Refresh
  <2> QED  BY <2>1, <2>2, <2>3, Zenon
<1>3. CallInStep'
  BY <1>1 DEF CallInStep
<1> QED  BY <1>1, <1>2, <1>3, CallOnly DEF S!Refresh, S!table, S!budget

\* A step of the activity at its host.
LEMMA BeginInv ==
  ASSUME SchedulerInv, NEW h \in Candidate, S!Begin(h)
  PROVE  SchedulerInv'
<1>1. call' = [call EXCEPT !.at = S!FirstStep(S!Planned(known, call)), !.host = h] /\ up[h] = "up"
  BY DEF S!Begin
<1>2. S!FirstStep(S!Planned(known, call)) \in {"put", "delete"}
  BY DEF S!FirstStep
<1>3. /\ call' \in CallType /\ call'.host = h /\ call'.want = call.want /\ call'.stanza = call.stanza
      /\ call'.at = S!FirstStep(S!Planned(known, call))
  BY <1>1, <1>2, CallIsTyped DEF CallType
<1>4. UNCHANGED <<up, log, seen, runners, cron, known, tick, blind, over>>
  BY DEF S!Begin, S!table, S!budget
<1>5. S!Planned(known, call)' = S!Planned(known, call)
  BY <1>3, <1>4 DEF S!Planned
<1>6. call'.at = "put" => S!Planned(known, call) = "create" /\ call.want # 0
  BY <1>3 DEF S!FirstStep, S!Planned
<1>7. CallInStep'
  BY <1>1, <1>2, <1>3, <1>4, <1>5, <1>6 DEF CallInStep
<1> QED  BY <1>3, <1>4, <1>7, CallOnly, CallIsTyped

LEMMA DeleteStoredInv ==
  ASSUME S!BoundsAreNat, SchedulerInv, S!DeleteStored
  PROVE  SchedulerInv'
<1>1. UNCHANGED <<up, seen, runners, cron, tick, blind>> /\ call.at = "delete"
  BY DEF S!DeleteStored, S!table
<1>2. CASE S!Write(0) /\ call' = [call EXCEPT !.at = "unregister"] /\ known' = known
  <2>1. call' \in CallType /\ call'.at = "unregister" /\ call'.host = call.host
    BY <1>2, CallIsTyped DEF CallType
  <2>2. up[call.host] = "up" /\ call.host \in Candidate
    BY <1>1 DEF SchedulerInv, CallInStep
  <2>3. S!Stored' = 0 => CallInStep'
    BY <1>1, <2>1, <2>2 DEF CallInStep
  <2> QED  BY <1>1, <1>2, <2>1, <2>3, WriteStep, CallIsTyped
<1>3. CASE S!RequestFails(0)
  BY <1>1, <1>3, RequestFailsInv
<1> QED  BY <1>2, <1>3 DEF S!DeleteStored

LEMMA PutStoredInv ==
  ASSUME S!BoundsAreNat, SchedulerInv, S!PutStored
  PROVE  SchedulerInv'
<1>1. UNCHANGED <<up, seen, runners, cron, tick, blind>> /\ call.at = "put"
  BY DEF S!PutStored, S!table
<1>2. /\ call.want # 0 /\ call.want \in {0} \cup S!Schedule
      /\ call.host \in Candidate /\ up[call.host] = "up"
      /\ S!Planned(known, call) # "create" => S!Stored = 0
  BY <1>1, CallIsTyped DEF SchedulerInv, CallInStep
<1>3. CASE S!Write(call.want) /\ call' = [call EXCEPT !.at = "register"] /\ known' = known
  <2>1. call' \in CallType /\ call'.at = "register" /\ call'.host = call.host /\ call'.want = call.want
    BY <1>3, CallIsTyped DEF CallType
  <2>2. S!Stored' = call.want => CallInStep'
    BY <1>1, <1>2, <2>1 DEF CallInStep
  <2> QED  BY <1>1, <1>2, <1>3, <2>1, <2>2, WriteStep, CallIsTyped
<1>4. CASE S!RequestFails(call.want)
  BY <1>1, <1>2, <1>4, RequestFailsInv
<1> QED  BY <1>3, <1>4 DEF S!PutStored

\* A step of the activity on the table of its host, which then has the stored
\* job or none when none is stored.
LEMMA LocalStep ==
  ASSUME SchedulerInv, NEW h \in Candidate, up[h] = "up", UNCHANGED <<up, log, seen, tick, blind, over>>,
         runners' \in [Candidate -> S!Job \cup {S!NoJob}], cron' \in [Candidate -> SUBSET S!Job],
         CronIsTable', \A g \in Candidate \ {h} : runners'[g] = runners[g],
         ~over => \/ runners'[h] = runners[h]
                  \/ runners'[h].schedule = S!Stored,
         call' \in CallType, known' \in KnownType, CallInStep'
  PROVE  SchedulerInv'
<1>1. S!TypeOK'
  BY DEF SchedulerInv, S!TypeOK, CallType, KnownType
<1>2. TableIsFresh'
  BY DEF SchedulerInv, TableIsFresh
<1>3. Follows'
  <2>1. WillBeDeleted(h)' <=> WillBeDeleted(h)
    BY DEF WillBeDeleted
  <2> QED  BY <2>1, FollowsHost DEF SchedulerInv, Follows
<1> QED  BY <1>1, <1>2, <1>3, SameStore DEF SchedulerInv

LEMMA DeleteLocalInv ==
  ASSUME SchedulerInv, S!DeleteLocal
  PROVE  SchedulerInv'
<1>1. /\ call.at = "unregister" /\ S!UnregisterJob(call.host)
      /\ UNCHANGED <<up, log, seen, tick, blind, over>>
  BY DEF S!DeleteLocal, S!budget
<1>2. call.host \in Candidate /\ up[call.host] = "up" /\ S!Stored = 0
  BY <1>1 DEF SchedulerInv, CallInStep
<1>3. /\ runners' \in [Candidate -> S!Job \cup {S!NoJob}] /\ cron' \in [Candidate -> SUBSET S!Job]
      /\ CronIsTable' /\ \A g \in Candidate \ {call.host} : runners'[g] = runners[g]
      /\ runners'[call.host].schedule = S!Stored
  BY <1>1, <1>2, UnregisterJobTable DEF SchedulerInv, S!NoJob
<1>4. call' \in CallType /\ known' \in KnownType /\ CallInStep'
  <2>1. CASE call.want = 0
    BY <2>1, ReturnType DEF S!DeleteLocal
  <2>2. CASE call.want # 0
    <3>1. call' = [call EXCEPT !.at = "put"] /\ known' = known
      BY <2>2 DEF S!DeleteLocal
    <3>2. call' \in CallType /\ call'.at = "put" /\ call'.host = call.host /\ call'.want = call.want
      BY <3>1, CallIsTyped DEF CallType
    <3>3. S!Stored' = 0
      BY <1>1, <1>2 DEF S!Stored
    <3> QED  BY <1>1, <1>2, <2>2, <3>1, <3>2, <3>3, CallIsTyped DEF CallInStep
  <2> QED  BY <2>1, <2>2
<1> QED  BY <1>1, <1>2, <1>3, <1>4, LocalStep

LEMMA PutLocalInv ==
  ASSUME S!BoundsAreNat, SchedulerInv, S!PutLocal
  PROVE  SchedulerInv'
<1>1. call.at = "register" /\ UNCHANGED <<up, log, seen, tick, blind, over>>
  BY DEF S!PutLocal, S!budget
<1>2. /\ call.host \in Candidate /\ up[call.host] = "up"
      /\ call.want \in S!Schedule /\ S!Stored = call.want /\ call.n \in 0 .. MaxCalls
  BY <1>1, CallIsTyped DEF SchedulerInv, CallInStep, CallType
<1>3. CASE S!Refused(call.host, call.want)
  <2>1. S!Return(FALSE) /\ UNCHANGED <<runners, cron>>
    BY <1>3 DEF S!PutLocal, S!table
  <2>2. call' \in CallType /\ known' \in KnownType /\ CallInStep'
    BY <2>1, ReturnType
  <2> QED  BY <1>1, <2>1, <2>2, CallOnly
<1>4. CASE ~S!Refused(call.host, call.want)
  <2>1. S!registerJob(call.host, [schedule |-> call.want, ctx |-> call.n]) /\ S!Return(TRUE)
    BY <1>4 DEF S!PutLocal
  <2>2. call' \in CallType /\ known' \in KnownType /\ CallInStep'
    BY <2>1, ReturnType
  <2>3. /\ runners' \in [Candidate -> S!Job \cup {S!NoJob}] /\ cron' \in [Candidate -> SUBSET S!Job]
        /\ CronIsTable' /\ \A g \in Candidate \ {call.host} : runners'[g] = runners[g]
        /\ runners'[call.host] = runners[call.host] \/ runners'[call.host].schedule = S!Stored
    BY <1>2, <2>1, RegisterJobTable DEF SchedulerInv
  <2> QED  BY <1>1, <1>2, <2>2, <2>3, LocalStep
<1> QED  BY <1>3, <1>4

-----------------------------------------------------------------------------
(***************************************************************************)
(* The theorems                                                            *)
(***************************************************************************)

LEMMA SchedulerInitInv == S!BoundsAreNat /\ S!Init => SchedulerInv
<1> SUFFICES ASSUME S!BoundsAreNat, S!Init PROVE SchedulerInv
  OBVIOUS
<1>1. Len(log) = 0 /\ log \in Seq({0} \cup S!Schedule) /\ S!Stored = 0
  BY DEF S!Init, S!Stored
<1>2. S!TypeOK
  BY <1>1 DEF S!BoundsAreNat, S!Init, S!TypeOK, S!Absent
<1> QED  BY <1>1, <1>2 DEF S!Init, SchedulerInv, CronIsTable, TableIsFresh, CallInStep, OneSchedule,
                           Follows, S!NoJob

\* Every step keeps the invariant.
LEMMA SchedulerStepInv == S!BoundsAreNat /\ SchedulerInv /\ [S!Next]_(S!vars) => SchedulerInv'
<1> SUFFICES ASSUME S!BoundsAreNat, SchedulerInv, [S!Next]_(S!vars) PROVE SchedulerInv'
  OBVIOUS
<1>1. ASSUME NEW h \in Candidate, S!Elect(h) \/ S!Fire(h)
      PROVE  SchedulerInv'
  <2>1. UNCHANGED <<up, log, seen, runners, cron, call, known, blind, over>>
    BY <1>1 DEF S!Elect, S!Fire, S!table, S!budget
  <2>2. tick' \in {"none", "started", "notModifiable", "canceled"}
    BY <1>1 DEF S!Elect, S!Fire, SchedulerInv, S!TypeOK
  <2>3. S!TypeOK' /\ CronIsTable' /\ TableIsFresh' /\ OneSchedule' /\ Follows'
    BY <2>1, <2>2, SameStore DEF SchedulerInv, S!TypeOK, CronIsTable, TableIsFresh, Follows, WillBeDeleted
  <2>4. CallInStep'
    BY <1>1, <2>1, CallOfHost
  <2> QED  BY <2>3, <2>4 DEF SchedulerInv
<1>2. ASSUME NEW h \in Candidate, S!Crash(h)
      PROVE  SchedulerInv'
  BY <1>2, EndsInv DEF S!Crash
<1>3. CASE UNCHANGED S!vars
  <2>1. CallInStep'
    BY <1>3 DEF S!vars, SchedulerInv, CallInStep, S!Stored, S!Planned
  <2> QED  BY <1>3, <2>1, CallOnly, CallIsTyped DEF S!vars
<1> QED  BY <1>1, <1>2, <1>3, StartInv, WatchJobChangesInv, HandleEventInv, InterruptInv,
            RequestInv, RefreshInv, BeginInv, DeleteStoredInv, DeleteLocalInv, PutStoredInv, PutLocalInv
         DEF S!Next, S!Service, S!Activity

\* A host that has handled every event has the stored job.
LEMMA InvRunsStored == S!BoundsAreNat /\ SchedulerInv => S!RunsStored
<1> SUFFICES ASSUME S!BoundsAreNat, SchedulerInv, ~over,
                    NEW h \in Candidate \ blind, up[h] = "up", seen[h] = Len(log)
             PROVE  S!Scheduled(h) = S!Due /\ cron[h] = {runners[h]} \ {S!NoJob}
  BY DEF S!RunsStored, S!RunsDue
<1>1. cron[h] = {runners[h]} \ {S!NoJob} /\ runners[h] \in S!Job \cup {S!NoJob}
  BY DEF SchedulerInv, CronIsTable, S!TypeOK
<1>2. ~WillBeDeleted(h)
  BY StoredType DEF SchedulerInv, WillBeDeleted
<1>3. runners[h].schedule = S!Stored
  BY <1>2, StoredType DEF SchedulerInv, Follows
<1>4. CASE runners[h] = S!NoJob
  BY <1>1, <1>3, <1>4 DEF S!Scheduled, S!Due, S!NoJob
<1>5. CASE runners[h] # S!NoJob
  <2>1. S!Stored # 0 /\ cron[h] = {runners[h]}
    BY <1>1, <1>3, <1>5, JobIsNoNoJob
  <2> QED  BY <1>1, <1>3, <2>1 DEF S!Scheduled, S!Due
<1> QED  BY <1>4, <1>5

\* Every variable keeps its type, whatever dies, fails or is refused.
THEOREM SchedulerTypeCorrect == S!BoundsAreNat => (S!Spec => []S!TypeOK)
<1> SUFFICES ASSUME S!BoundsAreNat PROVE S!Spec => []S!TypeOK
  OBVIOUS
<1>1. S!Init => SchedulerInv
  BY SchedulerInitInv
<1>2. SchedulerInv /\ [S!Next]_(S!vars) => SchedulerInv'
  BY SchedulerStepInv
<1>3. SchedulerInv => S!TypeOK
  BY DEF SchedulerInv
<1> QED  BY <1>1, <1>2, <1>3, PTL DEF S!Spec

\* A host that has handled every event of its watch runs exactly the stored
\* job, once, although RegisterJob and DeleteJob write its table between the
\* events, hosts die and start in between and requests fail.  The exceptions are
\* a job created over one of another schedule, which registerJob keeps, and a
\* host whose watch has passed over events, until the next delete it delivers.
THEOREM RunsStoredHolds == S!BoundsAreNat => (S!Spec => []S!RunsStored)
<1> SUFFICES ASSUME S!BoundsAreNat PROVE S!Spec => []S!RunsStored
  OBVIOUS
<1>1. S!Init => SchedulerInv
  BY SchedulerInitInv
<1>2. SchedulerInv /\ [S!Next]_(S!vars) => SchedulerInv'
  BY SchedulerStepInv
<1>3. SchedulerInv => S!RunsStored
  BY InvRunsStored
<1> QED  BY <1>1, <1>2, <1>3, PTL DEF S!Spec

=============================================================================
