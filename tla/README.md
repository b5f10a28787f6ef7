# A TLA+ model of the pgEdge Control Plane

The Control Plane runs one server process per host.  The processes share
nothing but an etcd cluster, which they partly embed.  An API request changes
records in etcd and starts a *workflow*; the workflow is a durable program
whose steps (*activities*) any host of a queue may execute.  Everything that
makes this correct is therefore a question about many processes that read and
conditionally write a few etcd records: who leads, who owns a task, whether a
cached read is old, whether a record still means what its reader thought.

This directory holds TLA+ modules of those parts, the TLC configurations that
check them on small instances, and TLAPS proofs of the results that matter most
for instances of every size.  `PROJECT.json` links every definition to the
source lines that it models and lists runs, mutants, theorems and hazards.

All paths below are relative to `server/internal/` unless they say otherwise.

## 1. Inventory

### 1.1 Parts that are modelled

| Part (source) | State it keeps | Operations | Interacts with |
|---|---|---|---|
| **Election** (`election/`) | one claim per election in etcd, under a lease; per candidate: running, isLeader, a ticker goroutine, a watch, a mutex, an error channel | `Start`, `Stop`, `checkClaim`, `attemptClaim`, `release`, ticker, watch handler | used by `scheduler` and `migrate`; storage |
| **Storage cache** (`storage/cache.go`, `watch.go`, `txn.go`) | map of items with revisions, tombstones, `lastWatchRevision`, revision of the watch | `Start`, `Stop`, reads, write-through of puts, deletes, transactions; event handler | used by the workflow backend for its queues |
| **Workflow tasks** (`workflows/backend/etcd/`) | instance, queue item, lock, sticky record, pending events, history | `CreateWorkflowInstance`, `SignalWorkflow`, `CancelWorkflowInstance`, `GetWorkflowTask`, `ExtendWorkflowTask`, `CompleteWorkflowTask`, `RemoveWorkflowInstance` | cache; the workflow library, which polls |
| **Activity tasks and worker** (same, `workflows/worker.go`) | queue item, lock, result events | `GetActivityTask`, `ExtendActivityTask`, `CompleteActivityTask`, `Start`, `Shutdown` of the worker | cache; workflow tasks |
| **Database lifecycle** (`api/apiv1/post_init_handlers.go`, `database/service.go`, `workflows/*.go`) | database record with its state, specification, task, workflow, persisted `resource.State` | create, update, upgrade, restore, delete, cancel, and the workflows behind them | everything above |
| **Task records** (`task/service.go`, `task/task.go`) | one record per task | `CreateTask`, `UpdateTask`, the link to the workflow, cancellation | handlers, workflows |
| **Task watcher** (`task/watcher.go`) | registry of shared watch streams, subscriptions | `NewWatcher`, `Close`, stream handler, error propagation, shutdown | task records; the activities that apply events |
| **Migrations** (`migrate/`) | the revision in etcd; per host: the runner, its watch, the claim handler | `Run`, `watch`, `runMigrations`, `runMigration`, `updateRevision`, timeout | election; start-up of every host |
| **Ports** (`ports/`, `database/service.go`) | a bitmap per range in etcd, the ports in instance and service specifications | `AllocatePort`, `ReleasePort`, `ReconcileInstanceSpec`, `DeleteInstanceSpec`, `DeleteDatabase` | activities of update and delete workflows on several hosts |
| **Scheduler** (`scheduler/`) | jobs in etcd; per host: a table of runners, the jobs of the cron library, a watch, the elector | `Start`, `RegisterJob`, `DeleteJob`, `JobExists`, the handler of the watch, `Run` | the resource of a job, applied on any host; election |
| **Resource planner** (`resource/`, `database/operations/`) | none: functions of the persisted and the desired states | `PlanRefresh`, `PlanAll`, `UpdateDatabase`, `RestoreDatabase` | the update, delete, restore and host-removal workflows |
| **Resource application** (`workflows/common.go`, `activities/`, the resources of `database/`) | the persisted `resource.State` and the workflow's copy of it | `RefreshCurrentState`, `applyEvents`, `PersistState`; create, update, delete and refresh of instances, nodes, databases, slots, subscriptions, sync events | Patroni, Postgres and Spock, which are external |
| **etcd membership** (`etcd/`, `app/`, the handlers before initialisation, `host/`) | on each disk: generated config, credentials, data directory; in etcd: members, users, host records | `Start`, `initialize`, `Join`, `ChangeMode`, `RemoveMember`, `AddHost`, `RemoveHost`, `App.Run` | everything needs it; remove-host is a workflow |

### 1.2 Parts that are not modelled (yet)

| Part | Why | Later |
|---|---|---|
| Subnets (`ipam/`) | the scheme of `ports/` with one caller and fewer retries | – |
| Backup, switchover, failover, restart of an instance | one resource or one command each; the records of the database stay | planned |
| Monitors, instance and service records (`monitor/`, `database/instance*.go`) | status records written periodically; the resources are in `Provision` | planned |
| Status of hosts, cluster record (`host/`, `cluster/`) | records written by one writer each, or once | – |
| Go client, MQTT endpoint (`client/`, `mqtt/`) | choice of a server; request and response | maybe |
| Storage operations (`storage/get.go`, `put.go`, `delete.go`) | one etcd request each; their meaning is part of every module | – |
| Database specification, API conversion and validation, configuration, utilities | data types and pure functions without state; the generated config is in `Membership` | – |
| Orchestrators, Docker, file system, Patroni, pgBackRest, Postgres | I/O on one host, driven by the planner; all that one instance consists of is one resource in `Operations` | – |
| Issuing and renewing certificates | cryptography | – |
| API servers, design and generated code, tests | transport, generated code.  Start-up is in `Membership`, shutdown order in `ActivityTasks` | – |

### 1.3 What is hard

* **Everything is read, then written.**  A record is read in one request and
  written in another.  The guard of the write is an etcd *version*, a per-key
  counter that restarts at 1 when a key is created again, or a state, or nothing.
* **Leases.**  Claims and locks vanish when they are not renewed in time, while
  their holder still works.
* **Two paths to a cache.**  A write reaches the cache of its own process by the
  write-through and by the watch, in either order.
* **Several writers of one record.**  The handler, the workflow and the cancel
  requests all write the whole task record, each from a copy of its own.
* **Partial failure.**  A handler changes records, creates a task, creates a
  workflow and links them, and must undo the first when the last fails.
* **Cancellation.**  In a canceled workflow no further activity is started unless
  a context was made for it.

* **Plans over things that do not stand still.**  A node is added while its peers go on
  committing, and each step of the plan is an activity that may fail, half succeed, or
  succeed unrecorded.
* **What a host is stands in four places.**  Its config, its data directory, the membership of etcd and its
  record are changed one after the other; a process that is started again decides from the first two.

The `hazards` of `PROJECT.json` name the lines, with the properties that are
aimed at each.

## 2. The modules

Each request to etcd and each critical section of a mutex is one step.  A module
`M` has a companion `MCM`, which only adds the symmetry set for TLC or names the constants
of the instance; they get their values in `MCM_<question>.cfg`.  Operators named `Mut...` are
deliberately wrong variants of the operator below them; they are used by no
specification and serve to show that the properties can fail.

### 2.1 `Election`

`claim` is the stored key (leader and key version); the rest is per candidate.
`pc[c] = "idle"` means that `c.mu` is free, otherwise it names the next request
of the operation `op[c]` that holds it.  `queued[c]` are the goroutines that wait
for the mutex: Go gives no order, so any of them may get it, and one that was
queued before `Stop` still runs after it.

| Action | Code |
|---|---|
| `Start`, `OpenWatch`, `Stop` | `Candidate.Start`, `Stop` |
| `Tick`, `LoopExit`, `WatchDelete`, `LockAndCheckClaim`, `ReadError` | the ticker goroutine, `watch`, `lockAndCheckClaim`, the reader of `Error()` |
| `CheckGet`, `RefreshClaim`, `RefreshMismatch` | the loop of `checkClaim` |
| `AttemptClaim` | `attemptClaim` |
| `ReleaseGet`, `ReleaseDelete` | `release` |
| `RequestFails`, `AnswerLost`, `LeaseExpires`, `Crash` | the environment: a request that fails unapplied, a write that is applied while its answer is lost, the lease, a restart with the same id |

`Punctual` is the assumption that makes an election by lease safe at all: a
holder that takes part, or that is in the middle of an operation, does not lose
its lease.  It renews at a third of the TTL, so it may miss two renewals.

`Leadership` is the abstract specification: a claim with a holder, taken when it is free,
confirmed, given up, or lapsed when its holder does not lead.  Under `Punctual`
`Election` implements it (`ImplementsLeadership`), with `claim.leader` as the holder and
"runs and believes to lead" as leadership.  `Migrate` is built on it.

### 2.2 `Cache`

etcd is the sequence `hist` of its revisions; a value is named by the revision
that wrote it and 0 is "no value".  `items`, `lastWatch` and `tombstones` are the
fields of the cache, `wrev` and `pending` the watch, `inflight` the operations of
this process that etcd has committed and whose `UpdateCache` is still to come.
`floor[k]` is a history variable: the newest revision of `k` that the cache has
been told about, by either path.  A local operation is a put, a delete, a `DeletePrefix` or a transaction over several
keys; the other processes do the same.  `Receive` brings the next revision or all outstanding ones in one response, whose
events all carry the revision of its header.  `Interrupt` is etcd ending the watch, which goes on at the revision of the
error.  `missed` are the keys whose last event has been lost in one of the two ways of section 5: an interruption left it
out, or it is a put that came in the same response as the value it replaces (`Shadowed`).  `Split` is the middle of a
response: the first of its events has been handled and others have not.

### 2.3 `WorkflowTasks`

One execution, all its etcd records, and the hosts that poll for it.  A version
check is modelled by the set of hosts whose copy of the record is still current
(`itemOf`, `hbItem`, `instOf`): a write of the record empties the set.  The lock
carries `run`, because a lock of an earlier run of the *same* host may be taken
over at once (`CanBeReassignedTo`).  `GetStaleItem` is a queue item from a cache
that lags.  The heartbeat of a host runs beside its work (`hb`).  The workflow
code itself is external: it returns "still active" or "finished".

### 2.4 `ActivityTasks`

One activity, the hosts of its queue and their goroutines (`Slot`); at most one
goroutine of a host polls at a time (`activityMu`).  Crash, boot and the graceful
shutdown are steps: `Shutdown` ends polling and stops the caches, `Exit` waits for
the goroutines, as `Worker.Shutdown` does in that order.

### 2.5 `Lifecycle`

One database and the operations `Op` that users request.  A specification is
abstracted to the set of operations whose changes it contains, so that "the
change got lost" is visible.  `actual` is what exists on the hosts, `known` what
the persisted `resource.State` says, `whole` is FALSE while a plan is half applied.

* Handlers (`pc`): `FetchDatabase` (the read of the handler of an update or a restore, from which it takes what the
  request leaves out: `Defaulted`), `ReadDatabase` (the read of the service, kept as `saw[o].base`: only this one is
  versioned), conditional write of the records, `CreateTask`, `CreateWorkflow`, `LinkTask`, `Rollback`, with a failure
  branch at each.  A handler is not durable: `Crash` ends it anywhere, and nobody goes on with it.
* Workflows (`wf`): start, refresh, plan, apply (two steps), persist, finish
  (state or `DeleteDbEntities`), complete; `Failed` is `handleError`, `Exit` the
  deferred function.
* `CancelTask` makes `ctx.Err()` non-nil: an activity that has begun runs to its
  end, one that has not been started returns an error.

`MayFail` says which steps may fail, `Cancels` which kinds of task may be
canceled, `faults` what has failed so far, `ForceFlag` whether requests carry it, `Recreate` whether a deleted name
may be created again.  The state "degraded" is never stored by the code and
does not occur.  `settled` is history: how often a workflow has set the state.  `Stranded`, `Undone`, `Unrecorded` and
`Overwritten` are the failures that the code does not recover from (section 5); each property is required as long as
none has happened of those that matter to it.

### 2.6 `Tasks`

The record of one task and its writers: the handler that links it, the workflow
(`UpdateStart`, `UpdateComplete`, `UpdateFail`, `UpdateCancel`), and cancel
requests.  `Service.UpdateTask` takes a record that its caller read earlier, reads
the stored one *again* for its version and writes the caller's copy under that
version: `Reread` and `Write` are separate steps.  `DeleteTask` may come at any time, because `DeleteAllTasks` asks for no
state; version 0 stands for a record that is gone.

### 2.7 `TaskWatcher`

`log` is the sequence of statuses of the task.  Each critical section of
`registry.mu`, `sharedWatcher.mu` and `shutdownOnce` is one step: `AcquireShared`,
`AcquireNew`, `Release`, `Remove`, `CloseStream`, `Closed`, `HandleEvent`,
`FinishOne`, `TakeError`, `SendError`.

### 2.8 `TaskFeed`

`Tasks` and `TaskWatcher` on one record: every write of a writer is an event of the streams
(`WriterStep`), its deletion included, and the callers are the activities of
the workflow, which subscribe while it works (`ApplyEvent`) and give up what they do when they are told
of a cancellation.

### 2.9 `Migrate`

`holder` and `leads` are those of `Leadership`.  `run[h]` is where `Runner.Run` is, `job[h][k]` where the handlers are
that a host runs at a time (at most `MaxHandlers`), `closed[h]` says that `doneCh` is closed.  A handler runs in a goroutine
of its own and does not hear that its host has lost the claim: `LoseClaim` is a claim that expires under a working handler,
whose host may win again and start a second one.  `FindOwnClaim` is a host that was restarted within the TTL:
`checkClaim` finds its own claim, and no handler is started.  `LoseAnswer` is a claim that was written while its answer was
lost, with the same end.  `manned` says that a handler was started for the claim and its process lives; a claim without one
is an `Orphan`.  `rev` is the stored revision with its version, read and written in two steps; its answer may be lost, and a
watch may pass over its event.  `applied` is what migrations have done, `runs` how often.

### 2.10 `Resources`, `Operations`, `Provision`

`Resources` is the planner as operators over a state, which is a function from identifiers to
data and a resource version: the dependency graph, the layered sort, and the refresh, create and delete plans.  `Diff`
finds no difference between data of two versions; what saves an operation after an upgrade of the control plane (`Upgrade`)
is that its refresh comes first and stamps the current version on what it finds.  `Operations` has the resources
of a database (what each depends on, by identifier or by type, and where it runs; `conf` is the `pg_service.conf` of the
systemd orchestrator, which depends on all nodes) and the desired states that an update, a delete and a restore go
through: rolling updates, replicas before primaries, and for a new node the dance of slots, sync events, waits, the copy
and the advance of slot and origin.

`Provision` runs them.  `kept` is the persisted state, `cur` the workflow's copy, `todo` the phases to come,
`pg` the world: instances and their leaders, databases, transactions, slots, origins, subscriptions.  A phase is one step,
because all its events are awaited; an event may fail, fail after its effect, or succeed without being
recorded (`forgot`, history: so has one, or a state was not persisted).  `Learned`, `Missing`, `Fails` and `Ready` say for each resource type what its methods find out, when
`Refresh` reports it gone, when it fails for want of something, and what it waits for.  Spock's
`sub_create`, the copy and the replication are external; a transaction that is applied twice sets `twice`.

### 2.11 `Ports`

`marked` is the bitmap in etcd, `current` the activities whose copy of it has the stored version, `spec` and
`version` the instance specifications.  An activity reconciles one specification (`allocate`, `store`, `release` of the
ports that the new one no longer has, or `rollback`), deletes one (`delete`), or deletes those of a database (`clear`).
A service instance is an instance without a Patroni port.  `RestoreAllocator` and the write are separate steps; a conflict costs an attempt.
`lost` and `spoiled` are history: ports that a fault has leaked, and ports that were released while a stored
specification still names them (`Spoils`).  `Exclusive` says that no two activities work on the same specification, which
is what the state of the database record guarantees (`OneOperation` of `Lifecycle`).  A specification may name ports
itself (`Explicit`), inside the range too; `Drawn` are the ports of the range that none does.  A write may be refused
(`StoreFails`) or applied and reported as failed (`AnswerLost`).

### 2.12 `Scheduler`

The backup job of one node.  `log` is the sequence of values that its key in etcd has had, `seen[h]` how
far the watch of a host has come, `runners[h]` and `cron[h]` are the table of the service and what the cron library
really has.  `call` is the operation on the database as far as the job is concerned: it refreshes the resource on any host
(`JobExists` asks that host's table), plans a create, an update or a delete, and runs it on any host, request by
request.  `known` is the resource in the persisted state, with its error and its wish to be recreated.  A job carries the context
that it was registered with.  `Elect` is every step of `Leadership`, `Fire` a job that is due on a host that leads.
`Interrupt` is etcd ending the watch of a host, which goes on behind the events it has not delivered.
`over` and `blind` are history: the stored job was created over one of another schedule; the hosts whose watch has passed
over events and has not delivered a delete since.
`RunsStored` is about every state, those in the middle of an operation included.

### 2.13 `Membership`

Hosts with what is on their disks: `gen` (mode and endpoints of the generated config), `certs` and `key` (the cluster
that signed the credentials, and whether the password is the one that etcd has), `data` (the member that the data directory
belongs to).  `pc[h]` is how far the process has come, `path[h]` what it is about: `init` and `join` are handlers of an
uninitialized host, `promote` and `demote` the two `ChangeMode`, `plain` a start without any of them.

| Action | Code |
|---|---|
| `Start`, `Boot`, `Expelled` | `provideEtcd` and `App.Run`; `runInitialized` with `UpdateHost`; the error of the embedded server |
| `InitCluster`, `Found`, `Secure`, `EnableAuth` | the handler and `initialize` |
| `StartEmbedded`, `Started`, `StartFails` | `start`, `startEmbedded`, the certificate service |
| `GetJoinOptions`, `Join`, `JoinRemote`, `AddLearner`, `StartLearner`, `Promote`, `Joined` | `JoinCluster` and the `Join` of either mode; each has its failure |
| `Connect`, `List`, `LeaveList`, `Leave`, `Wipe`, `Demoted` | the two `ChangeMode`, with `RemoveMember` in its two requests |
| `RemoveHost`, `RemoveList`, `RemoveMember`, `RemoveUser`, `RemoveRecord` | the handler and the activity, at the host that got the request |
| `Crash`, `Timeout`, `Reconfigure`, `Restart`, `ClearDataDir` | the environment and the operator |

etcd is external: a request needs a majority of the voters and, once RBAC is enabled, a certificate and a password that it
knows (`Accepted`; before that nobody is asked, and the server of a host and its own client use the same certificates
directory); a learner answers no request, there is at most one learner, and `StrictReconfigCheck` guards additions and removals.
The leader that a joining host is told is taken to be any voter.  The operator initializes one cluster, starts again what
has ended, and clears `data_dir` of a host that was removed.  `pc[h] = "apart"` is a host that serves the API from the data
of a cluster that its credentials do not belong to; what it then does there is not followed.  Removals are activities
`job[i]` that run side by side, as nothing serializes them.  `raced` is history: a host that joined or became a server while it was
being removed, or whose password was changed after it had stored it.  A member that is added again has a new ID, which
an activity that has listed the old one does not find; the model tells the two apart by `raced` only.  Clusters are numbered in the order they are founded, and there is room
for one per change of mode besides the first (`Cluster`).  `MaxModeChanges`, `MaxRemovals` and `MaxTroubles` bound each kind of
event, `MaxEvents` all of them together.

### 2.14 How the modules lean on each other

Three are composed: `TaskFeed` extends `Tasks` and instantiates `TaskWatcher`, `Migrate` and `Scheduler` use the
actions of `Leadership`, which `Election` implements, and `Provision` extends `Operations`, which extends
`Resources`.  The other links are: `WorkflowTasks`
and `ActivityTasks` read their queues through a cache that may lag and then
catches up, which is what `Cache` shows (`FreshReads`, `Converges`); `Lifecycle`
assumes that the engine drives a workflow to its end and runs each activity, which is what
`EventsAreHandled` and `ResultArrives` show; the task steps of `Lifecycle` are
`Tasks` in the small.

## 3. The runs

`tlc -workers 2 -config MCX_y.cfg MCX` for each (`Membership` needs no `MC` module):

| Run | Instance | Checks | Shows |
|---|---|---|---|
| `election_punctual` | 2 candidates, 2 faults, punctual | `AtMostOneLeader`, `ImplementsLeadership` | at most one candidate that takes part believes to lead, with failing requests, lost answers, crashes and restarts; the claim behaves as `Leadership` says |
| `election_live` | 2 candidates, leases may expire at any time | `RefetchFindsOther`, `StaleLeaderStepsDown`, `Succession` | a mismatch is resolved by one more read; a deposed leader learns of it; the claim always comes back to a candidate that takes part |
| `cache_order` | 2 keys, 3 revisions, 2 operations in flight; transactions, prefix deletes, responses of one or all outstanding revisions, interruptions | `FreshReads`, `CaughtUp`, `Converges` | no order of write-through and watch makes the cache go back behind what it was told, a cache that has handled everything equals etcd, and it gets there; but for keys whose last event was lost (`missed`) and the middle of a response (`Split`) |
| `workflow_own` | 2 hosts, 2 events, 1 fault, punctual | `OwnedAndHandledOnce`, `NoLostEvent`, `EventsAreHandled` | one owner at a time, no event lost or handled twice, and all are handled |
| `activity_own` | 2 hosts with 2 goroutines, 1 fault, 1 shutdown, 3 starts, punctual | `RunAndRecordedOnce`, `ResultArrives` | one result, one runner at a time, nothing lost over crash and shutdown |
| `lifecycle_ops` | 2 operations of every kind, 2 failures of any step of the handlers and workflows or crashes of a handler, cancellation | `OneOperation`, `SpecApplied`, `NoOrphan`, `KnownIsActual`, `AcceptedOnCurrent`, `Settles` | operations exclude each other and are accepted only in a modifiable state, over the specification they were checked against; "available" means applied and persisted; a database leaves every state in progress, but for the failures of section 5 |
| `task_feed` | 1 cancel request, deletion of the task, 2 activities, 2 shared watchers, 1 stream error | `TruthfulStatus`, `HeardMeansEnded`, `InterruptedRightly`, `NoLeakedStream` | the record tells the truth, a task whose workflow heard of a cancellation ends, what activities are told is what the record says, nothing is interrupted unless somebody asked for it, streams do not leak |
| `migrate_startup` | 2 hosts of one build with up to 2 handlers each, 2 migrations, 2 faults | `InOrder`, `ServesMigrated`, `EveryHostServes` | migrations are started in order, also by handlers that have lost their claim and work beside others; nobody serves before all are applied; everybody serves in the end, unless a claim without a handler stays in the way |
| `provision_ops` | 13 scripts over 2 or 3 nodes, 1 fault and 1 retry, 2 nodes that clients commit on | `DependencyOrder`, `Rolling`, `AddedWhole`, `NoReplay`, `SuccessMeansDesired`, `Settles` | plans respect dependencies whatever failed before; one node at a time is touched, its primary last; a new node has every transaction and none twice; success means what was asked for, except what a forgotten result hides |
| `scheduler_jobs` | 2 hosts, 2 operations, 1 crash, 1 failed request or interrupted watch | `RunsStored`, `EveryHostFollows` | whatever the order of activity and watch, a host that is up to date runs the stored job and nothing else, once, and every host gets there, but for `over` and `blind` |
| `ports_ranges` | 2 activities, an instance and a service on 2 hosts of one address, 3 ports of which one is busy and one named by a specification, 1 fault (a lost answer is one) | `UniquePorts`, `MarkedMeansOwned` | no drawn port has two owners, one in a specification is marked, what is marked is owned or was leaked by a fault |
| `membership_modes` (module `Membership`) | 3 hosts, all servers or one a client; 2 changes of mode, 2 removals, 1 crash, timeout or repeated request, in all mixes of 3 | `NoSplitBrain`, `ModeIsReal`, `Removable` | hosts that serve belong to one cluster, unless one serves the remains of an interrupted initialization; a host that serves is what it is configured to be, in all four places; a voter can start or be removed |

The modules also have a type invariant each.  It is a theorem for `Election`, `Cache`, `Lifecycle`, `ActivityTasks`,
`WorkflowTasks`, `Migrate`, `TaskFeed`, `Ports`, `Scheduler` and `Membership` (section 6); for the others it holds in the instances above.

### Bounds

Two candidates, hosts or callers suffice for every race of the code: each
conditional write compares one record with one copy, so a third actor only repeats what the
second does.  Where that is not obvious the theorems of section 6 remove the
bound (elections of any size, any number of keys, operations, hosts, events, activities, instances and ports, clusters of any size
with any number of changes of mode, removals and faults).
They earned their keep once: with two operations `OneOperationAlways` was not violated by a workflow that sets the state a second
time, and the attempt to prove it for any number showed that three are enough to (section 5).
`MaxVersion = 2` lets a claim be created, renewed and, after an expiry, created
again at a version that was seen before.  `MaxRev = 3` is a load and every mixture of three
writes of this process and of others with an interruption (857,000 states); `MaxRev = 4` with one operation in flight
(4.1 million) shows nothing else.  `MaxSeq = 2` and two events are a first task, a
second one, and a completion that comes late.  `MaxRuns = 3` is one run, one after
a crash, one after a shutdown.  Two hosts start
together in `Migrate`, so that one can win and lose its claim while the other wins, with two migrations, so that a
handler can be between them, and two faults, so that two handlers can go on without a claim; three hosts with one fault pass too.
In `Provision` a request is a fixed script (create, update, add a node with
peers, remove a host, restore, delete), because the specifications are data; two or three nodes, two
instances in one of them, one transaction per writer.  In `Ports` a range of three ports, one of them
busy on the host and one named by a specification, for an instance with two ports and a service with one: it can be exhausted and every port is wanted again
after it was released.  In `Scheduler` two operations
suffice to replace a job, or to create it over one that is stored; any number is a theorem.
In `Membership` three hosts are the smallest cluster that a member can leave; all mixes of three events are 2.4 million states.
Also checked: one change of mode, two removals and one trouble in full (9.2 million), two, one and one (4.5 million), two
troubles with a change or a removal, and two hosts with each bound at 2.  That its invariants hold beyond
these bounds is a theorem.  Faults are bounded so that the interesting
behaviour is what follows a failure and not an endless row of them.

Deadlock is checked for the elections and the ports, which never stop.  In the other modules
the bounded number of operations, events or revisions is used up at last, so their configurations
allow it.

### Fairness

* `Election`: a goroutine that can move does (weak fairness on the ticker, the mutex and
  the reader of `Error()`); a request is answered and a loop that is asked to stop again and
  again leaves it (strong fairness: Go's `select` chooses at random among ready channels
  and mutexes do not starve); a lease that is not renewed any more runs out.
  `WatchDelete` needs no fairness, because the ticker alone is enough.
* `Cache`: etcd sends what the watch has not seen and its goroutine handles it.
* `WorkflowTasks`, `ActivityTasks`: hosts poll for ever (the worker polls every 200 ms)
  and finish what they began; strong fairness of `GetItem`, because a cache that lags
  again and again still catches up; leases run out; hosts that are down come back.  No
  fairness of requests that fail, crash, cancel or shut down.
* `Lifecycle`: a handler goes on until it returns or its process dies (`Crash`, bounded by `MaxFaults`): it is not durable.
  Workflows run to their end, which the two modules before justify.  No request, cancellation or failure is ever forced.
* `TaskWatcher`: the goroutines of the watchers run on; nobody need acquire or close.
* `Migrate`: every host that can take a step of its runner or a handler does, and a process that exits is
  started again (the packages install it with `Restart=on-failure`); a claim that nobody renews for good expires.  All of it is
  weak fairness: nothing says that a host stays away for as long as its claim lives, see `Orphan` and section 5.
* `Scheduler`: servers start and are started again, watches deliver, and an operation is driven to its end.
  Nothing makes anybody lead, fire or ask.
* `Provision`: the workflow moves on whenever it can for good (`CanMove`): the engine drives it, and a
  wait returns once its condition holds.  Spock copies and replicates.  Nobody need commit or ask.
* `Ports` (only for `CallsReturn`, section 5): an activity goes on, and gets the mutex of its service when it is free again
  and again (strong fairness: Go's mutexes do not starve).

## 4. What the properties mean

Each property has a comment in its module.  The ones that carry the most:

* `FreshReads` (Cache).  What a `Get` shows is what etcd held at some revision
  between the newest one the cache was told about *for that key* and now.  It is
  stronger than "eventually consistent": a process reads its own writes, and
  neither a late write-through resurrects a deleted value nor a late event undoes
  a newer write.  It says nothing of a key of which an event is still to come in the response that is being handled (`Split`),
  and of a key whose last event was lost (`missed`).
* `AtMostOneLeader`, `ImplementsLeadership` (Election).  What the scheduler and the migration runner
  rely on when they ask `IsLeader`.
* `OwnedAndHandledOnce`, `NoLostEvent` (WorkflowTasks).  The transaction that completes a
  task does not ask who holds the lock; it is the sequence IDs and the version of the
  instance that keep two completions apart.
* `OneOperation`, `SpecApplied`, `NoOrphan`, `KnownIsActual` (Lifecycle).  The state of the database record
  is the lock of the whole operation; these say that it works as one, that it is
  released, and that the bookkeeping underneath it is right when it is.  The premise of `KnownIsActual`
  leaves out canceled workflows: their `PersistState` runs in the canceled
  context (`workflows/common.go:149`) and is not started, although the comment at
  line 143 wants the state persisted whatever happens.
* `AcceptedOnCurrent` (Lifecycle).  A request replaces the very specification that the service checked it against.  What an
  update or a restore takes over from the handler's *earlier* read is another matter: `UpdateKeepsVersion` and
  `RestoreKeepsSpec` are violated (section 5).
* `Settles` (Lifecycle) does not lean on handlers that survive their process: one that dies before it has created the
  workflow is in `Stranded`.
* `AddedWhole`, `NoReplay` (Provision).  The two sides of adding a node under load: no commit of any
  node falls between the slot, the sync event, the copy and the advance, and none is applied again because the slot was
  advanced too little.  They hold as long as nothing has failed; what a failure does is `SafeRetry`.
* `SuccessMeansDesired` (Provision).  Errors, half-applied events, resources pending deletion and resources to be
  recreated are all carried in the state; an operation that reports success has resolved all of them, in the records and in
  Postgres.  What a forgotten result left behind (`forgot`) no state carries, and a restore drops the services: without
  these two exceptions it is `SuccessAlwaysDesired`, which is violated.
* `UniquePorts`, `MarkedMeansOwned` (Ports).  The bitmap and the specifications are separate records, written in
  separate requests by activities on several hosts; these say that they agree from either side, for the ports that only the
  allocator hands out (`Drawn`).  `UniquePorts` exempts ports in `spoiled`.
* `InOrder`, `ServesMigrated`, `EveryHostServes` (Migrate).  The election does not keep handlers apart (section 5); the
  migrations still start in order, waiting is safe, and it ends unless a claim without a handler is there for ever, or again and again.
* `RunsStored`, `EveryHostFollows` (Scheduler).  The table of a host has two writers, its activities and its watch, and
  `registerJob` never replaces; what saves it is that an update deletes first and that every delete is an event.  The two exceptions are `over` and, where a watch has passed over events, `blind`.
* `NoSplitBrain`, `ModeIsReal`, `Removable` (Membership).  A host decides from its disk what it is, and a change of mode or a
  removal may end anywhere.  The first says that a wrong decision has one way to go unnoticed, a cluster whose initialization never got to RBAC, the second that a host that serves has finished
  what it began, the third that the quorum is not lost to a voter that can neither come back nor be removed.
* `TruthfulStatus` (Tasks).  Three parties write a record from copies that may be old, and still it
  does not lie about the outcome.  That a result, once shown, stays is not among the properties: a request to cancel may
  overwrite it (`SetOnce`, section 5).
* `HeardMeansEnded` (Tasks).  Whoever wrote last: a task does not stay "canceling" when its workflow has heard of the
  cancellation and is done.

## 5. Where code and intention disagree

Each entry lifts one assumption of the runs, or states what a run leaves out, and
ends in a counterexample unless it says *holds*.  These are kept as configurations beside the runs:

| Configuration | Property | What it shows |
|---|---|---|
| `MCScheduler_backup` | `BackupsStart` | `RegisterJob` passes the context of its activity on to `registerJob`, which keeps it for every run of the job (`scheduler/service.go:130`), and `ApplyEvent` cancels it when the activity returns (`workflows/activities/apply_event.go:57-58`).  The event of the watch finds the job there and does not replace it.  On the host that created a job every run fails with a canceled context; as long as that host leads, nobody starts the backup, until it is restarted.  `docs/using/backup-restore.md:133-135`: "the expression `0 0 * * *` would result in a backup every night at midnight UTC." |
| `MCElection_stop` | `StoppedNeverClaims` | a tick that waits for the mutex while `Stop` runs claims leadership after it (`election/candidate.go:97`) |
| `MCCache_interrupt` | `StaysUpdated` | a watch that etcd has ended with an error goes on at the revision of the error; the events before it are neither loaded again nor reported (`storage/watch.go:127`), so a cache that "uses Watch operations to stay updated" can show an old value until the key is written again.  Without an interruption the same happens when a watch that lags gets two puts of a key in one response: both are stamped with the revision of its header, and the second is not newer than the first (`storage/watch.go:137`) |
| `MCActivityTasks_shutdown` | `RunOnce` | a graceful shutdown stops the caches first; the result of an activity that ends afterwards is dropped and the activity is run again (`workflows/worker.go:86`) |
| `MCLifecycle_restorespec` | `RestoreKeepsSpec`, `UpdateKeepsVersion` | the handlers of a restore and an update read the database, derive what they store from it (`api/apiv1/post_init_handlers.go:858`, `386-398`), and the service reads again and versions only that second read (`database/service.go:95`): a change between the two, an upgrade say, is undone |
| `Tasks_cancel` (module `Tasks`) | `CanceledEndsCanceled` | a cancel request and the workflow can leave the task "canceling" or "failed" (`workflows/service.go:363`) |
| `TaskWatcher_race` (module `TaskWatcher`) | `Notified` | `release` drops the mutex of the shared watcher before `shutdown` removes it from the registry; a caller that subscribes in between is told neither `Done` nor `Error` (`task/watcher.go:194`) |
| `MCProvision_retry` | `SafeRetry` | `partitionNodes` takes a node for an existing one as soon as its `Node` resource is in the state; when adding a node fails after that and before it is populated, the retry *updates* it: subscriptions are created enabled and without the copy, the operation succeeds, and the node lacks what was committed before (`database/operations/update_database.go:111`); `docs/index.md:9-11`: "If an operation fails, you can safely retry the operation after resolving the underlying issue." |
| `MCPorts_shared` | `UniquePortsAlways` | a deletion releases ports and then fails to delete the records, or a write that is reported as failed was applied: the ports are given away while a specification names them (`database/service.go:129`, `692`) |

Others need only a changed constant in one of the files:

| Start from | Change | Property | What it shows |
|---|---|---|---|
| `MCElection_punctual` | `Punctual = FALSE`, `MaxFaults = 0`, no symmetry | `NoTakeover`, `ImplementsLeadership` | a refresh can overwrite the claim that somebody else has created meanwhile, because key versions restart at 1 (`election/candidate.go:178`; the comment at 183 expects a mismatch), and a claim can lapse under a candidate that believes to lead |
| `MCCache_order` | – | `FreshReadsAlways` | the first event of a response moves `lastWatchRevision` over the keys of its other events (`cache.go:315`): a transaction is shown in parts, and a write-through of one of those keys is refused meanwhile; the values arrive with their own events |
| `MCWorkflowTasks_own` | `Spec`, `Punctual = FALSE` | `NoLostEvent`, `ActiveIsQueued` | the first *holds* also when locks expire under their holder; a late completion can reopen an instance that has left the queue (`etcd.go:353`) |
| `MCActivityTasks_own` | `Spec`, `Punctual = FALSE`, `MaxRuns = 2` | `QueuedUntilResult` | *holds* also when locks expire under their holder |
| `MCActivityTasks_own` | `Spec`, `Punctual = FALSE` | `RunAndRecordedOnce` | an activity that outlives its lock is started a second time on another host |
| `MCLifecycle_ops` | `Kinds = {"update", "restore"}`, no failures | `NoOrphanAlways` | the deferred function of a canceled restore updates the task only, unlike those of update and delete, and its failure handler runs in the canceled context: the database stays "restoring" (`workflows/pgbackrest_restore.go:32`); `e2e/cancel_task_test.go:79` expects "failed" |
| `MCLifecycle_ops` | `MayFail = {"task"}`, `Cancels = {}` | `NoOrphanAlways` | create and restore do not undo their change when the task or the workflow cannot be created, and the rollback of an update puts back the state that the update has set itself (`post_init_handlers.go:423`) |
| `MCLifecycle_ops` | `MayFail = {"crash"}`, `Cancels = {}` | `NoOrphanAlways` | a process that dies after the state was stored (`database/service.go:829`) and before the workflow was created leaves the database in progress; handlers are not resumed |
| `MCLifecycle_ops` | `Spec`, `MayFail = {"link"}`, `Cancels = {}` | `SpecAppliedAlways` | when the link of the task fails, an upgrade or a delete is rolled back while its workflow runs (`workflows/service.go:242`) |
| `MCLifecycle_ops` | `Spec`, `MayFail = {"persist"}`, `Cancels = {}` | `SpecAppliedAlways` | a failure of `PersistState` is only logged, and the database is available with resources that no state knows (`workflows/common.go:149`) |
| `MCProvision_retry` | `Spec` | `RetrySucceeds` | a dump of roles that failed is to be recreated, and pending deletion, so no retry creates it; every retry fails in `createRoles` (`database/instance_resource.go:368`) |
| `MCProvision_retry` | `Spec`, `Scripts <- LostReplicaScript` | `AlwaysPlannable` | a resource to be recreated is taken out of the prepared state, and the plans for another node then miss a dependency; the comment at `resource/state.go:142` intends the opposite |
| `MCProvision_retry` | `Spec`, `Scripts <- LostResultScript` | `SuccessAlwaysDesired` | when an activity fails after the resource was created (it logs the completion last, `activities/apply_event.go:139`), nothing is recorded and a later delete leaves the resource behind |
| `MCProvision_retry` | `Spec`, `Scripts <- UnpersistedScript` | `SuccessAlwaysDesired` | a failure of `PersistState` is only logged (`workflows/common.go:149`), with the same effect; "We always want to persist the updated state." |
| `MCProvision_retry` | `Spec`, `Scripts <- ForceScript` | `RollingWhenForced` | forced updates are all in the last plan and hit all nodes at once; the comment at `update_database.go:17-20` speaks of a rolling update |
| `MCProvision_retry` | `Spec`, `Scripts <- RestoreServiceScript` | `SuccessAlwaysDesired` | a restore plans its end state without services and deletes them (`database/operations/restore_database.go:109`) |
| `MCMigrate_startup` | – | `EveryHostServesAlways` | a host that is restarted sooner than its claim expires, or whose claim was written while the answer was lost, finds its own claim, renews it and starts no handler; every host waits for the migration until it times out, exits and is restarted (`migrate/runner.go:83`; `RestartSec=5s` in the packaged unit, `LockTTL` 30 s) |
| `MCMigrate_startup` | `Spec` | `OneMigrator`, `RevisionAdvances` | the handler does not hear that its host has lost the claim (`migrate/runner.go:83-87`) and goes on beside the handler of the next one; its `updateRevision` reads the version anew and puts an earlier revision back (`runner.go:244-254`).  A claim is lost under a live host without any outage of etcd: the runner never reads the error channel of its candidate, which has room for one, so after the second failed tick the ticker blocks and nobody renews |
| `MCMigrate_startup` | `Spec`, `Known <- TwoBuilds`, `MaxFaults = 0` | `RevisionAdvances` | a host with an older build does not know the stored revision, starts from its first migration and sets the revision back (`migrate/runner.go:178`) |
| `MCScheduler_jobs` | `Spec`, no faults | `RunsStoredAlways` | a refresh on a host whose watch lags makes an operation create the job over the stored one; the hosts that run the old schedule keep it (`scheduler/service.go:94`) |
| `MCScheduler_jobs` | `Spec`, `MaxCalls = 1` | `RunsStoredAlways` | a watch that etcd has ended goes on behind the events that it has not delivered (`storage/watch.go:118-132`): the host does not run the job, or runs a deleted one |
| `MCScheduler_jobs` | `Spec`, `Rejected = {1}`, no faults | `ServersStay` | an expression that the cron library refuses is stored first; the handler of the watch then fails on every host, shuts the server down and fails its restart (`scheduler/service.go:165`) |
| `MCLifecycle_ops` | `Spec`, `ForceFlag = TRUE`, `Kinds = {"update", "restore"}`, no failures | `ForcedRestoreAccepted` | the force flag of a restore passes the first check and not the second (`post_init_handlers.go:837`) |
| `MCLifecycle_ops` | `Spec`, 3 operations, `Kinds = {"update"}`, `MayFail = {"complete"}` and `Cancels = {}`, or no failures and `Cancels = {"update"}` | `OneOperationAlways` | an update has set "available", so the next one is accepted; then the first cannot complete its task, or is canceled, and its error handling sets "failed", whatever the state is by then; a third one is accepted beside the second (`workflows/update_database.go`, `handleError` and the deferred function; `activities/update_db_state.go:46` has no guard) |
| `MCLifecycle_ops` | `Spec`, `Recreate = TRUE`, 3 operations of kinds create, update, delete, no failures or cancellation | `OneOperationAlways` | a name can be created again before the workflow that deletes it has ended; its failure then hits the new database (`delete_database.go:117`) |
| `Tasks_cancel` | `Canceler = {}` | `SetOnce` | the handler's link may overwrite a result with the copy from before the workflow ran (`task/service.go:59`) |
| `Tasks_cancel` | – | `SetOnce` | so may a request to cancel: it writes "canceling" over a result, and the workflow, which it signals before it has exited, then "canceled" (`workflows/service.go:363`) |
| `MCPorts_ranges` | `Exclusive = FALSE`, `Range = {1, 3}`, `Busy = {}`, `MaxFaults = 0` | `UniquePorts` | two operations on one database at a time would release each other's ports: the allocator leans on `OneOperation` |
| `MCPorts_ranges` | `MaxFaults = 0` | `UniquePortsAlways` | a specification may name a port of the random range, 5432 to 15432 by default (`config/config.go:248-251`), and `docs/using/create-db.md:25` names 5432; nothing marks or refuses it, and only the probe of the host keeps the allocator from giving it away |
| `MCPorts_shared` | `MaxFaults = 0` | `CallsReturn` | *holds*: every call returns, whatever the contention |
| `Membership_modes` | – | `NoSplitBrainAlways` | a server that is to become a client and has no data directory (its demotion died after `RemoveAll`, `etcd/embedded.go:548`, or its join failed after it had stored its credentials) initializes a cluster of its own; if it dies before its credentials are written (`embedded.go:76-122`) and is made a server again, it starts that cluster with the certificates of the old one (`embedded.go:656-668`, `client.go:40-62`) and serves it, without RBAC |

`Membership` shows some behaviour that its invariants permit or exempt.  A join request that is sent again while the first one is under
way changes the password that the host has just stored (`etcd/rbac.go:258`, "We're recovering from an error state if this user already exists"):
`Removable` without `raced` is violated by a voter that cannot start and has no record.  The same happens when a host is removed while it becomes a
server.  A process that dies in `ChangeMode` after the data directory was removed (`etcd/embedded.go:548`) initializes a cluster of its own at its next
start; unless it dies there too (the last row above) it overwrites its credentials and never serves again.  One that dies in the other `ChangeMode` after `writeHostCredentials` (`embedded.go:209`) comes
back as an uninitialized host that cannot join, because its record exists.  One that dies after `MemberAddAsLearner` leaves a learner without a name, which nothing
removes and which keeps every other server from joining (`embedded.go:238`).  The demotion of one of two members shuts the server down before the size
of the cluster is checked (`embedded.go:530`), so that the check cannot be answered.  Two removals at a time both pass the check that three members are left (`etcd/membership.go:44`).
And a process of a new host that dies in `initialize` before its credentials are written has no certificates and cannot start again (`embedded.go:120`).

Three observations need no model: `DeletePrefix` of the cache marks only keys that are in the map (`cache.go:343`), so `floor` counts it for those only (nothing in
production calls it); a node whose only instance is lost has no primary, `ResolveExecutor` then returns an
error that is not `ErrExecutorNotFound`, and the refresh fails where the comment at `workflows/common.go:41-44` wants the
resource removed (`Resolve` in `Provision` has it); and `DeleteInstance` deletes the record of the instance before its
specification, so that a failure in between leaves specification and ports for good (`database/service.go:369`).

What the properties of the runs exempt has a name in its module: `missed` and `Split` of `Cache`, `Stranded`, `Undone`, `Unrecorded` and `Overwritten`
of `Lifecycle`, `Orphan` of `Migrate`, `clean` and `forgot` of `Provision`, `over` and `blind` of `Scheduler`, `lost` and `spoiled` of `Ports`, `raced` and the step `"apart"` of
`Membership`.  Each stands for behaviour of an entry above, and most properties have a twin named `...Always` without the exemption
(`StaysUpdated` for `CaughtUp`, `SuccessAlwaysDesired` for `SuccessMeansDesired`).

## 6. Proofs

`tlapm M.tla` checks each.  Proved for every value of the constants:

| Theorem | States | From |
|---|---|---|
| `ElectionProofs!TypeCorrect` | `Spec => []TypeOK` | – |
| `ElectionProofs!RefetchFindsOtherHolds` | `Spec => []RefetchFindsOther` | – |
| `ElectionProofs!OneLeader` | `Spec => []AtMostOneLeader` | `Punctual` |
| `ElectionProofs!NoTakeoverHolds` | `Spec => NoTakeover` | `Punctual` |
| `ElectionProofs!ElectionImplementsLeadership` | `Spec => Abstract!LeadSpec` | `Punctual` |
| `CacheProofs!CacheTypeCorrect` | `Spec => []TypeOK` | – |
| `CacheProofs!FreshReadsHold` | `Spec => []FreshReads` | – |
| `CacheProofs!CaughtUpHolds` | `Spec => []CaughtUp` | – |
| `LifecycleProofs!LifecycleTypeCorrect` | `Spec => []TypeOK` | – |
| `LifecycleProofs!AcceptedOnCurrentHolds` | `Spec => AcceptedOnCurrent` | – |
| `LifecycleProofs!OneOperationHolds` | `Spec => []OneOperation` | `NotForced` |
| `LifecycleProofs!NoOrphanHolds` | `Spec => []NoOrphan` | `NotForced` |
| `LifecycleProofs!SpecAppliedHolds` | `Spec => []SpecApplied` | `NotForced` |
| `LifecycleProofs!KnownIsActualHolds` | `Spec => []KnownIsActual` | `NotForced` |
| `BackendProofs!ActivityTypeCorrect` | `A!Spec => []A!TypeOK` (of `ActivityTasks`) | `Assumed` |
| `BackendProofs!RunAndRecordedOnceHolds` | `A!Spec => []A!RunAndRecordedOnce` | `Assumed`, `Punctual` |
| `BackendProofs!WorkflowTypeCorrect` | `Spec => []TypeOK` | – |
| `BackendProofs!NoLostEventHolds` | `Spec => []NoLostEvent` | – |
| `BackendProofs!OwnedAndHandledOnceHolds` | `Spec => []OwnedAndHandledOnce` | `Punctual` |
| `BackendProofs!ActiveIsQueuedHolds` | `Spec => []ActiveIsQueued` | `Punctual` |
| `ElectedProofs!MigrateTypeCorrect` | `Spec => []TypeOK` | – |
| `ElectedProofs!ServesMigratedHolds` | `Spec => []ServesMigrated` | – |
| `ElectedProofs!InOrderHolds` | `Spec => InOrder` | – |
| `ElectedProofs!SchedulerTypeCorrect` | `S!Spec => []S!TypeOK` (of `Scheduler`) | `S!BoundsAreNat` |
| `ElectedProofs!RunsStoredHolds` | `S!Spec => []S!RunsStored` | `S!BoundsAreNat` |
| `TaskFeedProofs!FeedImplementsTasks` | `FeedSpec => Spec` (of `Tasks`) | – |
| `TaskFeedProofs!TruthfulStatusHolds` | `FeedSpec => []TruthfulStatus` | – |
| `TaskFeedProofs!HeardMeansEndedHolds` | `FeedSpec => []HeardMeansEnded` | – |
| `TaskFeedProofs!FeedTypeCorrect` | `FeedSpec => []FeedTypeOK` | – |
| `TaskFeedProofs!InterruptedRightlyHolds` | `FeedSpec => []InterruptedRightly` | – |
| `TaskFeedProofs!NoLeakedStreamHolds` | `FeedSpec => []NoLeakedStream` | – |
| `PortsProofs!PortsTypeCorrect` | `Spec => []TypeOK` | – |
| `PortsProofs!UniquePortsHolds` | `Spec => []UniquePorts` | `Exclusive` |
| `PortsProofs!MarkedMeansOwnedHolds` | `Spec => []MarkedMeansOwned` | `Exclusive` |
| `MembershipProofs!MembershipTypeCorrect` | `Spec => []TypeOK` | – |
| `MembershipProofs!NoSplitBrainHolds` | `Spec => []NoSplitBrain` | – |
| `MembershipProofs!ModeIsRealHolds` | `Spec => []ModeIsReal` | – |
| `MembershipProofs!RemovableHolds` | `Spec => []Removable` | – |
| `MembershipProofs!VotersCanStart` | `Spec => [](\A h \in Host : Rooted(h))` | – |

Besides these hypotheses the proofs use the named `ASSUME`s of the modules, which TLC evaluates in the runs: bounds are natural
numbers, the values that stand for "nothing" are none of the others, and there is a host.  `BackendProofs` and `ElectedProofs`
each prove about two modules: they extend the first (`WorkflowTasks`, `Migrate`) and take the other as an instance, with its own
variables.  An instance brings no `ASSUME`, so what the other one assumes of its constants is a hypothesis there: `Assumed` and
`S!BoundsAreNat` are its `ASSUME`s, which TLC evaluates in its own run.

**Election.**  `AtMostOneLeader` is not inductive: a candidate that is about to refresh or to
delete the claim could do so to somebody else's.  `LeaderInv` adds that the claim an operation
has read (`curr`) is still the stored one while the operation refreshes or
deletes it, that a candidate which takes part and believes to lead holds the claim,
and that a release never belongs to a running candidate.  `Punctual` is used at one place, the
expiry of the lease; section 5 shows that it cannot be dropped.
`RefetchInv` says that a candidate in its second iteration does not own the claim,
because only itself could have created it again.
The refinement theorem uses `LeaderInv` in every step: one case per action of `Election`, each a
`Claim`, `ClaimUnknown`, `Confirm`, `StepDown`, `Lapse` or a stutter of `Leadership`.

**Cache.**  An entry that is ahead of the watch is right at its own revision.  One that is not is right at the revision where the watch stands, once the
events of its key are handled, or where the response begins, as long as none of it is handled; in between nothing is known, which is `Split`.
`IInv` says so: `Waiting` (what is pending belongs to one response, and with an event of a key all later ones of that key), `Outstanding` (an operation
carries what its keys hold at the revision of its answer, and one that will not be skipped is no older than what the watch has shown), and for
each key `Ahead`, `Level` (all its events are handled) and `Before` (some are not).  `FreshReads` and `CaughtUp` follow from `Ahead`, `Level` and `Before`.
Nothing is assumed of the watch and of the operations; the exemptions `missed` and `Split` are those of the properties, and section 5 shows that both are needed.

**Lifecycle.**  The invariants are layers.  `IInv` is `TypeOK`, `KindIsSet` (a handler past its first step has
a kind) and `CopiesAreCurrent`: as long as an operation is in `fresh`, the state is
modifiable and the specification that the service has read (`base`) is the stored
one; for an upgrade that is also what it derives its own from.  The step that writes then follows from its guard; this much holds with the force flag too.
`StepInv` adds how the places of a handler and of its workflow go together.
`OneOperation` alone is not inductive, because nothing in it says why a second request is kept out: `HoldInv` says that an operation which
`Holds` the database (it has changed the state and not set it again) finds the state in progress, and is the only one.
`PendInv` has for `NoOrphan` that a state in progress was set by an operation *of that kind* which is still going to set it; it does not need
the exclusion, so it holds where states are overwritten.  `SpecInv` follows the specification through the holder: what it has
been given is what is stored, what it has applied is what it was given, and an upgrade or a delete that may still be rolled back found
the database applied.  `NotForced` (no request carries the force flag) is needed because a forced update is accepted in any state.
The exemptions of the properties are the premises `Undone`, `Overwritten`, `Stranded` and `Unrecorded`; `Overwritten` was found in this proof, and
a handler that dies before it has created its workflow is one of `Stranded`.

**Activity tasks.**  Completing an activity checks neither the lock nor the item.  `IInv` therefore says that whoever works has the item in
the queue and its host in the lock (`WorkingHoldsLock`), that the item is gone exactly when the one result is recorded, and
that a poller with a current copy of the item that means to replace the lock of an earlier run cannot meet the lock of a
living one (`OldLockIsOld`), since everybody who writes a lock writes the item.  `Punctual` is used only where a lock expires.

**Workflow tasks.**  `NoLostEvent` needs no punctual host.  `KeepInv` adds that nothing was sent before the start and that nobody
has a current copy of a removed instance.  The rest does: an owner holds the lock and its events are pending, a poller that may still take the task meets
no owner (`PollersMeetNobody`), a pending event is not in the history.  `ActiveIsQueued` is part of the invariant and a theorem of its own.

**Migrate.**  `BuildsInv` needs nothing of the election: what is recorded, and what comes before a migration at work, is applied, wherever the
revision was put back to (`AppliedBefore`); a host whose wait is over has all its migrations applied (`WaitEndsMigrated`).  So both theorems hold for
hosts of any builds, and however many handlers work at the same time without a claim.

**Scheduler.**  `RunsStored` speaks of hosts that have handled every event, and its proof has to say what the others still have in front of
them.  `Follows`: a host runs the stored schedule, or nothing while events are left, or a delete is among the events that are left
(`WillBeDeleted`), and then it does not matter what it runs.  This needs `OneSchedule`, that what was put after the
last delete is of one schedule; it is where `over` comes in.  A host in `blind` is exempt until its watch
delivers a delete, after which its table is right whatever it has missed.  `CallInStep` says what the operation has written by each of its steps, so that what an
activity adds to the table ahead of the watch is what is stored.  `CronIsTable` and `TableIsFresh` tie the cron library to
the table and empty the table of a host that starts.

**Membership.**  A host may found a second cluster: a server that is to become a client and has lost its data directory does.  `NoSplitBrain` holds because
nobody else gets to know of it and its founder ends there, or died before it wrote its new credentials.  `IInv` says so: only the first cluster has more than one host (`OneHost`),
each host founds only when it was told to or is on its way to be a client (`Founds`), a host with the credentials of
another cluster is on that way or has no server and reaches none (`Astray`), one that serves another cluster has the credentials of the main one (`Apart`), and every step in a cluster, in and out of it is about the main
one (`InMain`).  `Unfinished` adds what the exception says: RBAC is never enabled in a cluster that is served apart, since the only host that could is the
one that serves it.
`ModeIsReal` and `Removable` need `ModeInv` besides.  It follows a host through its four places: the path that goes with the step (`Course`), the configured and the
stored mode (`Modes`), whose data directory it is (`Directory`), what the member list has (`Seat`), its record (`Recorded`).
`Rooted` says that a voter has the directory of a live member and credentials that etcd accepts.  `Removable` asks this only of voters that have no record; it
is not inductive, since the record of a host may be removed at any time, and `Rooted` for all of them is the theorem `VotersCanStart`.
`Rooted` in turn needs to know that the user which a removal takes away is not the one of a voter (`Removing`, for each of the activities at work; the exemption `raced` is used
here, where a host becomes a voter after its removal looked), and that while the first cluster is being founded nobody else is in it (`Alone`).

**Task feed.**  The composition restricts the writers of `Tasks` and adds the rest as stutters: `FeedImplementsTasks`.  `WriterInv` says which
statuses each party may have in its copy (only the workflow ends a task, only requests mark it as canceling).  `HeardInv` adds for `HeardMeansEnded`
that the handler is done once a request can write, so that after the signal the deferred function of the workflow is the only one left to write.  `FeedInv` carries the truth on: every event of the log
justifies how it ends a watch, hence every answer in a shared watcher and in an activity.  For the streams it has that the registry holds the open one,
that a shared watcher knows who waits, and that a stream which is not closed has a caller who waits for it or closes it.

**Ports.**  A port passes through many hands: the bitmap, the activity that has allocated it, the stored specification, the activity that releases it.  The proof
counts *claims*.  A stored specification claims its ports (`Claims`) until a deletion has released them, an activity claims what it has in hand.
`OneClaim` and `ClaimedIsMarked` say that a port outside `spoiled` has one claim at most and is then marked, `MarkedIsClaimed` that a marked
port is claimed unless it is busy or `lost`.  The other conjuncts say that claims are handed on whole: a current copy is the stored bitmap, a reconciliation
wants what it has allocated or what is stored, release calls are disjoint, nothing else works on what is being deleted.
`Exclusive` is what `OneOperationHolds` gives.  Specifications may name ports of the range; claims are counted for the others only (`Drawn`), and a write that
was applied and reported as failed leaves what it marked in `lost` or what it released in `spoiled`.

TLC has checked every one of these inductive invariants on the instances of section 3 before it was proved.

Not proved, and left to TLC:

* liveness: it needs fairness and `ENABLED`, which the proof system does not handle;
* `EveryHostFollows`, `EveryHostServes`, `Settles` and the other properties with `~>` or `<>`, for that reason;
* `DependencyOrder`, `Rolling`, `AddedWhole`, `NoReplay` and `SuccessMeansDesired` of `Provision`: they rest on what the planner's recursive functions
  compute for every graph of resources, which is induction over data, and the requests are fixed scripts.

## 7. Plan

Done, in the order of the earlier plan: the migrations, ports, interruptions of the watch, the planner and its
application with host removal, the scheduler, the first refinement, etcd membership.  Left:

1. Instance records and `monitor`; switchover, failover.
2. An abstract specification of a monotonic view that `Cache` implements, and one of
   exactly-once results for `WorkflowTasks` and `ActivityTasks` composed.
3. Liveness of `Membership`: which interrupted changes of mode end by themselves.
4. Proofs: the refinements of step 2, and lemmas about the planner's functions once the proof system can do induction over data.
