----------------------------- MODULE Membership -----------------------------
(***************************************************************************)
(* How hosts form an etcd cluster, join and leave it, and change between   *)
(* running an etcd server and being a client of one (server/internal/etcd, *)
(* started by app.App.Run and by the handlers of an uninitialized host).   *)
(*                                                                         *)
(* A host keeps three things on its disk: the generated config (gen), the  *)
(* credentials (certs, key) and the data directory of its etcd server      *)
(* (data).  A process that dies is started again and decides from these    *)
(* what it is.  Addresses are names of hosts, a cluster is named by the    *)
(* order in which it was founded, and of a password only matters whether   *)
(* it is the one that etcd has now.                                        *)
(*                                                                         *)
(* External is what etcd does: a request needs a majority of the voters, a *)
(* learner refuses requests, a cluster has one learner at most, a peer URL *)
(* belongs to one member, StrictReconfigCheck, and a changed password or a *)
(* deleted user ends the sessions of that user.                            *)
(***************************************************************************)
EXTENDS Naturals, FiniteSets

CONSTANTS
    Host,
    First,           \* the host that the operator has initialize the cluster
    Clients,         \* the sets of hosts that may be configured as clients at first
    MaxModeChanges,  \* bound: changes of etcd_mode by the operator
    MaxRemovals,     \* bound: calls of remove-host
    MaxTroubles,     \* bound: processes that die, requests and starts that fail for
                     \* want of time, join requests sent while one is under way
    MaxEvents        \* bound: mode changes, removals and troubles together

ASSUME FirstIsServer == First \in Host /\ Clients \subseteq SUBSET (Host \ {First})
ASSUME BoundsAreNat  == {MaxModeChanges, MaxRemovals, MaxTroubles} \subseteq Nat
ASSUME EventsInBounds == MaxEvents \in 0..(MaxModeChanges + MaxRemovals + MaxTroubles)

\* Bound: a further cluster takes a change of mode.
Cluster == 1..(1 + MaxModeChanges)
Removal == 1..MaxRemovals
Budget  == [mode : 0..MaxModeChanges, remove : 0..MaxRemovals, trouble : 0..MaxTroubles]
None    == 0

VARIABLES
    umode,    \* umode[h]: etcd_mode of the operator's configuration
    gen,      \* gen[h]: generated.config.json, the etcd_mode and the endpoints
    certs,    \* certs[h]: the cluster whose CA signed certificates/, or None
    key,      \* key[h]: whether the stored password is the one in etcd
    data,     \* data[h]: the data directory, of a member of a cluster or of none
    pc,       \* pc[h]: how far the process is
    path,     \* path[h]: what the process is about
    etcd,     \* etcd[h]: the embedded server runs
    ans,      \* ans[h]: answers to GetJoinOptions that the host has not used
    founded,  \* how many clusters there are
    member,   \* member[c][h]: the member of host h in the list of cluster c
    auth,     \* auth[c]: RBAC is enabled
    user,     \* user[c]: the hosts that have a user
    record,   \* record[c][h]: the etcd_mode of the stored host, or "none"
    job,      \* job[i]: the activity of a remove-host task
    budget,   \* what is left of the bounds
    raced     \* history: hosts that joined or became a server while they were being
              \* removed, and hosts whose password was changed after they had stored it

disk    == <<gen, certs, key, data>>
process == <<pc, path, etcd, ans>>
store   == <<founded, member, auth, user, record>>
vars    == <<umode, disk, process, store, job, budget, raced>>

NoData == [cl |-> None, live |-> FALSE]
NoGen  == [mode |-> "", eps |-> {}]
NoJob  == [by |-> None, host |-> None, at |-> "none"]

Steps == {"down", "preinit", "initialize", "founded", "secured", "start", "starting",
          "creds", "added", "learner", "promoted", "connect",
          "list", "alone", "leaving", "left", "wiped", "boot", "serving",
          "apart"}   \* serves the API from data that its credentials do not belong to

Answer == [cl : Cluster, key : {"good", "stale"}]
Job    == [by : Host, host : Host, at : {"list", "member", "user", "record"}]

TypeOK ==
    /\ umode \in [Host -> {"server", "client"}]
    /\ gen \in [Host -> [mode : {"", "server", "client"}, eps : SUBSET Host]]
    /\ certs \in [Host -> {None} \cup Cluster]
    /\ key \in [Host -> {"none", "good", "stale"}]
    /\ data \in [Host -> {NoData} \cup [cl : Cluster, live : BOOLEAN]]
    /\ pc \in [Host -> Steps]
    /\ path \in [Host -> {"plain", "init", "join", "demote", "promote"}]
    /\ etcd \in [Host -> BOOLEAN]
    /\ ans \in [Host -> SUBSET Answer]
    /\ founded \in {0} \cup Cluster
    /\ member \in [Cluster -> [Host -> {"none", "added", "learner", "voter"}]]
    /\ auth \in [Cluster -> BOOLEAN]
    /\ user \in [Cluster -> SUBSET Host]
    /\ record \in [Cluster -> [Host -> {"none", "server", "client"}]]
    /\ job \in [Removal -> {NoJob} \cup Job]
    /\ budget \in Budget
    /\ raced \in SUBSET Host

Init ==
    /\ \E C \in Clients : umode = [h \in Host |-> IF h \in C THEN "client" ELSE "server"]
    /\ gen = [h \in Host |-> NoGen]
    /\ certs = [h \in Host |-> None]
    /\ key = [h \in Host |-> "none"]
    /\ data = [h \in Host |-> NoData]
    /\ pc = [h \in Host |-> "preinit"]
    /\ path = [h \in Host |-> "plain"]
    /\ etcd = [h \in Host |-> FALSE]
    /\ ans = [h \in Host |-> {}]
    /\ founded = 0
    /\ member = [c \in Cluster |-> [h \in Host |-> "none"]]
    /\ auth = [c \in Cluster |-> FALSE]
    /\ user = [c \in Cluster |-> {}]
    /\ record = [c \in Cluster |-> [h \in Host |-> "none"]]
    /\ job = [i \in Removal |-> NoJob]
    /\ budget \in {b \in Budget : b.mode + b.remove + b.trouble = MaxEvents}
    /\ raced = {}

Spend(what) == /\ budget[what] > 0
               /\ budget' = [budget EXCEPT ![what] = @ - 1]

-----------------------------------------------------------------------------
(***************************************************************************)
(* External: etcd.                                                         *)
(***************************************************************************)

Members(c) == {h \in Host : member[c][h] # "none"}
Voters(c)  == {h \in Host : member[c][h] = "voter"}
Running(c) == {h \in Members(c) : etcd[h] /\ data[h].cl = c /\ data[h].live}

Majority(part, whole) == 2 * Cardinality(part) > Cardinality(whole)
HasQuorum(c) == Majority(Voters(c) \cap Running(c), Voters(c))

\* Without RBAC etcd asks nobody for a password.  With it the stored password has
\* to be the one of a user of the cluster.
Accepted(h, c) ==
    /\ c # None
    /\ auth[c] => certs[h] = c /\ h \in user[c] /\ key[h] = "good"

\* A request that h sends to one of the endpoints eps is answered.
Answered(h, c, eps) ==
    /\ Accepted(h, c)
    /\ HasQuorum(c)
    /\ eps \cap Voters(c) \cap Running(c) # {}

\* MemberAddAsLearner
CanAdd(h, c) ==
    /\ Answered(h, c, Host)
    /\ h \notin Members(c)
    /\ Members(c) = Voters(c)
    /\ Voters(c) \subseteq Running(c)

\* MemberRemove
CanRemove(h, c) ==
    /\ h \in Members(c)
    /\ member[c][h] = "voter" => Majority((Voters(c) \cap Running(c)) \ {h}, Voters(c) \ {h})

MemberRemove(h, c) ==
    /\ member' = [member EXCEPT ![c][h] = "none"]
    /\ data' = IF data[h].cl = c THEN [data EXCEPT ![h].live = FALSE] ELSE data

-----------------------------------------------------------------------------
(***************************************************************************)
(* The process                                                             *)
(***************************************************************************)

Goto(h, p) == pc' = [pc EXCEPT ![h] = p]

\* The process ends, and its embedded server with it.
Exit(h) ==
    /\ Goto(h, "down")
    /\ path' = [path EXCEPT ![h] = "plain"]
    /\ etcd' = [etcd EXCEPT ![h] = FALSE]
    /\ ans' = [ans EXCEPT ![h] = {}]

\* An error: a handler returns it and leaves what it has started, provideEtcd
\* and App.Run end the process.
Fail(h) ==
    IF path[h] \in {"init", "join"}
    THEN Goto(h, "preinit") /\ UNCHANGED <<path, etcd, ans>>
    ELSE Exit(h)

\* The activities that a process was executing are begun again.
Interrupt(h) ==
    job' = [i \in Removal |-> IF job[i].at # "none" /\ job[i].by = h
                              THEN [job[i] EXCEPT !.at = "list"] ELSE job[i]]

\* An activity that removes the host has not ended.
Targeted(h) == \E i \in Removal : job[i].host = h

\* A request to the embedded server of the host itself.  Server and client read
\* the same certificates, so that TLS tells nothing of the data directory.
Own(h) == Answered(h, data[h].cl, {h})

\* A request of a process that has a client.
Usable(h) == IF umode[h] = "server" THEN Own(h) ELSE Answered(h, certs[h], Host)

\* IsInitialized: the data directory has a WAL, or there is an endpoint.
IsInitialized(h) ==
    IF umode[h] = "server" THEN data[h] # NoData ELSE gen[h].eps # {}

\* What client.Sync and the member list give as endpoints.
Endpoints(c) == Voters(c)

\* Mutant of Start: an etcd server is started without asking whether it
\* is initialized.
MutStart(h) ==
    /\ pc[h] = "down"
    /\ \/ /\ gen[h].mode \in {"", umode[h]}
          /\ gen' = IF IsInitialized(h) THEN [gen EXCEPT ![h].mode = umode[h]] ELSE gen
          /\ Goto(h, IF umode[h] = "client" THEN (IF IsInitialized(h) THEN "connect" ELSE "preinit")
                     ELSE (IF IsInitialized(h) THEN "start" ELSE "initialize"))
          /\ UNCHANGED path
       \/ /\ gen[h].mode = "server" /\ umode[h] = "client"
          /\ path' = [path EXCEPT ![h] = "demote"]
          /\ Goto(h, IF data[h] # NoData THEN "start" ELSE "initialize")
          /\ UNCHANGED gen
       \/ /\ gen[h].mode = "client" /\ umode[h] = "server"
          /\ path' = [path EXCEPT ![h] = "promote"]
          /\ Goto(h, "connect")
          /\ UNCHANGED gen
    /\ UNCHANGED <<umode, certs, key, data, etcd, ans, store, job, budget, raced>>

\* provideEtcd and the beginning of App.Run.  A change of mode begins with the
\* Start of the old mode, which initializes a server without a data directory.
Start(h) ==
    /\ pc[h] = "down"
    /\ \/ /\ gen[h].mode \in {"", umode[h]}
          /\ IF IsInitialized(h)
             THEN /\ gen' = [gen EXCEPT ![h].mode = umode[h]]
                  /\ Goto(h, IF umode[h] = "server" THEN "start" ELSE "connect")
             ELSE /\ Goto(h, "preinit")
                  /\ UNCHANGED gen
          /\ UNCHANGED path
       \/ /\ gen[h].mode = "server" /\ umode[h] = "client"
          /\ path' = [path EXCEPT ![h] = "demote"]
          /\ Goto(h, IF data[h] # NoData THEN "start" ELSE "initialize")
          /\ UNCHANGED gen
       \/ /\ gen[h].mode = "client" /\ umode[h] = "server"
          /\ path' = [path EXCEPT ![h] = "promote"]
          /\ Goto(h, "connect")
          /\ UNCHANGED gen
    /\ UNCHANGED <<umode, certs, key, data, etcd, ans, store, job, budget, raced>>

\* InitCluster, sent once, to one host.
InitCluster(h) ==
    /\ h = First /\ founded = 0
    /\ pc[h] = "preinit"
    /\ umode[h] = "server"
    /\ Goto(h, "initialize")
    /\ path' = [path EXCEPT ![h] = "init"]
    /\ UNCHANGED <<umode, disk, etcd, ans, store, job, budget, raced>>

-----------------------------------------------------------------------------
(***************************************************************************)
(* EmbeddedEtcd.initialize and start                                       *)
(***************************************************************************)

\* The temporary server, its member, the CA and the root user.
Found(h) ==
    /\ pc[h] = "initialize"
    /\ founded' = founded + 1 /\ founded' \in Cluster
    /\ member' = [member EXCEPT ![founded'][h] = "voter"]
    /\ data' = [data EXCEPT ![h] = [cl |-> founded', live |-> TRUE]]
    /\ etcd' = [etcd EXCEPT ![h] = TRUE]
    /\ Goto(h, "founded")
    /\ UNCHANGED <<umode, gen, certs, key, path, ans, auth, user, record, job, budget, raced>>

\* writeHostCredentials: the certificates, then the generated config.
WriteHostCredentials(h, c, password) ==
    /\ certs' = [certs EXCEPT ![h] = c]
    /\ key' = [key EXCEPT ![h] = password]
    /\ gen' = [gen EXCEPT ![h].mode = umode[h]]

\* CreateHostCredentials for the host itself.
Secure(h) ==
    /\ pc[h] = "founded"
    /\ user' = [user EXCEPT ![data[h].cl] = @ \cup {h}]
    /\ WriteHostCredentials(h, data[h].cl, "good")
    /\ Goto(h, "secured")
    /\ UNCHANGED <<umode, data, path, etcd, ans, founded, member, auth, record, job, budget, raced>>

\* AuthEnable, and the end of the temporary server.
EnableAuth(h) ==
    /\ pc[h] = "secured"
    /\ auth' = [auth EXCEPT ![data[h].cl] = TRUE]
    /\ etcd' = [etcd EXCEPT ![h] = FALSE]
    /\ Goto(h, "start")
    /\ UNCHANGED <<umode, disk, path, ans, founded, member, user, record, job, budget, raced>>

\* embed.StartEtcd needs the certificates.
StartEmbedded(h) ==
    /\ pc[h] = "start"
    /\ IF certs[h] = None THEN Fail(h)
       ELSE /\ etcd' = [etcd EXCEPT ![h] = TRUE]
            /\ Goto(h, "starting")
            /\ UNCHANGED <<path, ans>>
    /\ UNCHANGED <<umode, disk, store, job, budget, raced>>

\* The server is ready and the certificate service has read the CA through it.
\* Nothing compares the data directory with the credentials: a host whose
\* initialization ended before it wrote new ones goes on with the old ones.
Started(h) ==
    /\ pc[h] = "starting"
    /\ Own(h)
    /\ Goto(h, IF path[h] = "demote" THEN "list"
               ELSE IF data[h].cl = certs[h] THEN "boot" ELSE "apart")
    /\ UNCHANGED <<umode, disk, path, etcd, ans, store, job, budget, raced>>

\* A server that was removed from the cluster never gets ready; a learner gets
\* ready, under its name, and refuses the first read; a user may be refused.
StartFails(h) ==
    /\ pc[h] = "starting"
    /\ LET c == data[h].cl IN
       /\ ~data[h].live \/ h \notin Voters(c) \/ ~Accepted(h, c)
       /\ member' = IF data[h].live /\ member[c][h] = "added" /\ HasQuorum(c)
                    THEN [member EXCEPT ![c][h] = "learner"] ELSE member
    /\ Fail(h)
    /\ UNCHANGED <<umode, disk, founded, auth, user, record, job, budget, raced>>

-----------------------------------------------------------------------------
(***************************************************************************)
(* JoinCluster                                                             *)
(***************************************************************************)

\* The uninitialized host still answers requests with the first handlers.
PreInit(h) == \/ pc[h] = "preinit"
              \/ path[h] \in {"init", "join"} /\ pc[h] \notin {"down", "serving"}

\* GetJoinOptions at s: the host must be unknown, its user gets a new password.
GetJoinOptions(h, s) ==
    LET c == certs[s] IN
    /\ h # s
    /\ PreInit(h)
    /\ pc[s] = "serving" /\ Usable(s)
    /\ record[c][h] = "none"
    /\ IF pc[h] = "preinit" /\ ans[h] = {} THEN UNCHANGED budget ELSE Spend("trouble")
    /\ user' = [user EXCEPT ![c] = @ \cup {h}]
    /\ LET changed == certs[h] = c /\ key[h] = "good" IN
       /\ key' = IF changed THEN [key EXCEPT ![h] = "stale"] ELSE key
       /\ raced' = IF changed \/ Targeted(h) THEN raced \cup {h} ELSE raced
    /\ ans' = [ans EXCEPT ![h] = {[a EXCEPT !.key = "stale"] : a \in @} \cup {[cl |-> c, key |-> "good"]}]
    /\ UNCHANGED <<umode, gen, certs, data, pc, path, etcd, founded, member, auth, record, job>>

\* Etcd.Join takes the mutex and writes the credentials unless the host is
\* initialized already.
Join(h) == \E a \in ans[h] :
    /\ pc[h] \in {"preinit", "serving"}
    /\ ans' = [ans EXCEPT ![h] = @ \ {a}]
    /\ IF pc[h] = "preinit" /\ ~IsInitialized(h)
       THEN /\ WriteHostCredentials(h, a.cl, a.key)
            /\ Goto(h, "creds")
            /\ path' = [path EXCEPT ![h] = "join"]
       ELSE UNCHANGED <<gen, certs, key, pc, path>>
    /\ UNCHANGED <<umode, data, etcd, store, job, budget, raced>>

\* RemoteEtcd.Join: the endpoints are synchronized and stored.
JoinRemote(h) ==
    /\ pc[h] = "creds" /\ umode[h] = "client"
    /\ IF Answered(h, certs[h], Host)
       THEN /\ gen' = [gen EXCEPT ![h].eps = Endpoints(certs[h])]
            /\ Goto(h, "boot")
            /\ UNCHANGED <<path, etcd, ans>>
       ELSE /\ Fail(h)
            /\ UNCHANGED gen
    /\ UNCHANGED <<umode, certs, key, data, store, job, budget, raced>>

\* EmbeddedEtcd.Join: MemberAddAsLearner, tried five times.
AddLearner(h) ==
    /\ pc[h] = "creds" /\ umode[h] = "server"
    /\ LET c == certs[h] IN
       IF CanAdd(h, c)
       THEN /\ member' = [member EXCEPT ![c][h] = "added"]
            /\ Goto(h, "added")
            /\ raced' = IF Targeted(h) THEN raced \cup {h} ELSE raced
            /\ UNCHANGED <<path, etcd, ans>>
       ELSE /\ Fail(h)
            /\ UNCHANGED <<member, raced>>
    /\ UNCHANGED <<umode, disk, founded, auth, user, record, job, budget>>

\* startEmbedded with the list of members.
StartLearner(h) ==
    /\ pc[h] = "added"
    /\ HasQuorum(certs[h])
    /\ data' = [data EXCEPT ![h] = [cl |-> certs[h], live |-> TRUE]]
    /\ etcd' = [etcd EXCEPT ![h] = TRUE]
    /\ member' = [member EXCEPT ![certs[h]][h] = "learner"]
    /\ Goto(h, "learner")
    /\ UNCHANGED <<umode, gen, certs, key, path, ans, founded, auth, user, record, job, budget, raced>>

\* It takes too long, or the request of the client ends first.
StartLearnerFails(h) ==
    /\ pc[h] = "added"
    /\ Spend("trouble")
    /\ data' = [data EXCEPT ![h] = [cl |-> certs[h], live |-> TRUE]]
    /\ Fail(h)
    /\ UNCHANGED <<umode, gen, certs, key, store, job, raced>>

\* PromoteWhenReady
Promote(h) ==
    /\ pc[h] = "learner"
    /\ data[h].live
    /\ Answered(h, certs[h], Host)
    /\ member' = [member EXCEPT ![certs[h]][h] = "voter"]
    /\ Goto(h, "promoted")
    /\ UNCHANGED <<umode, disk, path, etcd, ans, founded, auth, user, record, job, budget, raced>>

\* A learner without progress is removed, if the removal is allowed.
PromoteFails(h) ==
    /\ pc[h] = "learner"
    /\ LET c == certs[h] IN
       \/ /\ data[h].live /\ Answered(h, c, Host)
          /\ Spend("trouble")
          /\ MemberRemove(h, c)
       \/ /\ ~data[h].live \/ ~Accepted(h, c)
          /\ UNCHANGED <<member, data, budget>>
    /\ Fail(h)
    /\ UNCHANGED <<umode, gen, certs, key, founded, auth, user, record, job, raced>>

\* The certificate service of the new member; ChangeMode stores the mode.
Joined(h) ==
    /\ pc[h] = "promoted"
    /\ Own(h)
    /\ gen' = IF path[h] = "promote"
              THEN [gen EXCEPT ![h] = [mode |-> "server", eps |-> {}]] ELSE gen
    /\ Goto(h, "boot")
    /\ UNCHANGED <<umode, certs, key, data, path, etcd, ans, store, job, budget, raced>>

JoinedFails(h) ==
    /\ pc[h] = "promoted"
    /\ IF data[h].live /\ Accepted(h, certs[h]) THEN Spend("trouble") ELSE UNCHANGED budget
    /\ Fail(h)
    /\ UNCHANGED <<umode, disk, store, job, raced>>

-----------------------------------------------------------------------------
(***************************************************************************)
(* RemoteEtcd.Start and the two ChangeMode                                 *)
(***************************************************************************)

\* RemoteEtcd.Start.  ChangeMode to a server then synchronizes the endpoints
\* (Shutdown) and enters EmbeddedEtcd.Join with the credentials it has.
Connect(h) ==
    /\ pc[h] = "connect"
    /\ Answered(h, certs[h], gen[h].eps)
    /\ IF path[h] = "plain" THEN Goto(h, "boot") /\ UNCHANGED <<gen, path, etcd, ans>>
       ELSE IF data[h] # NoData THEN /\ Exit(h)
                                     /\ gen' = [gen EXCEPT ![h].eps = Endpoints(certs[h])]
       ELSE /\ gen' = [gen EXCEPT ![h] = [mode |-> umode[h], eps |-> Endpoints(certs[h])]]
            /\ Goto(h, "creds")
            /\ UNCHANGED <<path, etcd, ans>>
    /\ UNCHANGED <<umode, certs, key, data, store, job, budget, raced>>

ConnectFails(h) ==
    /\ pc[h] = "connect"
    /\ \/ ~Accepted(h, certs[h])
       \/ gen[h].eps \cap Voters(certs[h]) = {}
    /\ Exit(h)
    /\ UNCHANGED <<umode, disk, store, job, budget, raced>>

\* EmbeddedEtcd.ChangeMode: the endpoints of the other members are stored, then
\* the server is shut down.
List(h) ==
    /\ pc[h] = "list"
    /\ LET others == {g \in Members(data[h].cl) : member[data[h].cl][g] # "added"} \ {h} IN
       IF Own(h) /\ others # {}
       THEN /\ gen' = [gen EXCEPT ![h].eps = others]
            /\ etcd' = [etcd EXCEPT ![h] = FALSE]
            /\ Goto(h, "alone")
            /\ UNCHANGED <<path, ans>>
       ELSE /\ Exit(h)
            /\ UNCHANGED gen
    /\ UNCHANGED <<umode, certs, key, data, store, job, budget, raced>>

\* What RemoveMember makes of the list of members.
Verdict(h, c) ==
    IF member[c][h] \in {"none", "added"} THEN "absent"
    ELSE IF Cardinality(Members(c)) < 3 THEN "too few"
    ELSE "remove"

\* The remote client is started, RemoveMember lists the members.
LeaveList(h) ==
    /\ pc[h] = "alone"
    /\ LET c == certs[h] IN
       IF Answered(h, c, gen[h].eps) /\ Verdict(h, c) # "too few"
       THEN /\ Goto(h, IF Verdict(h, c) = "absent" THEN "left" ELSE "leaving")
            /\ UNCHANGED <<path, etcd, ans>>
       ELSE Exit(h)
    /\ UNCHANGED <<umode, disk, store, job, budget, raced>>

\* Mutant of Leave: ChangeMode goes on when the member could not be removed.
MutLeave(h) ==
    /\ pc[h] = "leaving"
    /\ LET c == certs[h] IN
       IF Answered(h, c, gen[h].eps) /\ CanRemove(h, c)
       THEN MemberRemove(h, c)
       ELSE UNCHANGED <<member, data>>
    /\ Goto(h, "left")
    /\ UNCHANGED <<umode, gen, certs, key, path, etcd, ans, founded, auth, user, record, job, budget, raced>>

Leave(h) ==
    /\ pc[h] = "leaving"
    /\ LET c == certs[h] IN
       IF Answered(h, c, gen[h].eps) /\ CanRemove(h, c)
       THEN /\ MemberRemove(h, c)
            /\ Goto(h, "left")
            /\ UNCHANGED <<path, etcd, ans>>
       ELSE /\ Exit(h)
            /\ UNCHANGED <<member, data>>
    /\ UNCHANGED <<umode, gen, certs, key, founded, auth, user, record, job, budget, raced>>

\* os.RemoveAll of the data directory.
Wipe(h) ==
    /\ pc[h] = "left"
    /\ data' = [data EXCEPT ![h] = NoData]
    /\ Goto(h, "wiped")
    /\ UNCHANGED <<umode, gen, certs, key, path, etcd, ans, store, job, budget, raced>>

Demoted(h) ==
    /\ pc[h] = "wiped"
    /\ gen' = [gen EXCEPT ![h].mode = "client"]
    /\ Goto(h, "boot")
    /\ UNCHANGED <<umode, certs, key, data, path, etcd, ans, store, job, budget, raced>>

-----------------------------------------------------------------------------
(***************************************************************************)
(* App.runInitialized, and the end of a process                            *)
(***************************************************************************)

\* UpdateHost stores the host, and the other handlers take over.
Boot(h) ==
    /\ pc[h] = "boot"
    /\ Usable(h)
    /\ record' = [record EXCEPT ![certs[h]][h] = umode[h]]
    /\ Goto(h, "serving")
    /\ UNCHANGED <<umode, disk, path, etcd, ans, founded, member, auth, user, job, budget, raced>>

BootFails(h) ==
    /\ pc[h] = "boot"
    /\ ~Accepted(h, certs[h])
    /\ Exit(h)
    /\ UNCHANGED <<umode, disk, store, job, budget, raced>>

\* The embedded server learns that it is not a member any more.
Expelled(h) ==
    /\ pc[h] \in {"boot", "serving"}
    /\ etcd[h] /\ ~data[h].live
    /\ Exit(h)
    /\ Interrupt(h)
    /\ UNCHANGED <<umode, disk, store, budget, raced>>

Crash(h) ==
    /\ pc[h] # "down"
    /\ Spend("trouble")
    /\ Exit(h)
    /\ Interrupt(h)
    /\ UNCHANGED <<umode, disk, store, raced>>

\* A request or a start that is not answered in time ends the process.
Timeout(h) ==
    /\ pc[h] \in {"starting", "connect", "boot", "alone", "list", "leaving"}
    /\ path[h] \notin {"init", "join"}
    /\ Spend("trouble")
    /\ Exit(h)
    /\ UNCHANGED <<umode, disk, store, job, raced>>

-----------------------------------------------------------------------------
(***************************************************************************)
(* The operator                                                            *)
(***************************************************************************)

\* A graceful stop (RemoteEtcd.Shutdown stores the endpoints), and a new mode.
Reconfigure(h) ==
    /\ pc[h] \in {"down", "preinit", "serving", "apart"}
    /\ gen[h].mode # ""
    /\ Spend("mode")
    /\ umode' = [umode EXCEPT ![h] = IF @ = "server" THEN "client" ELSE "server"]
    /\ gen' = IF pc[h] = "serving" /\ umode[h] = "client" /\ Usable(h)
              THEN [gen EXCEPT ![h].eps = Endpoints(certs[h])] ELSE gen
    /\ Exit(h)
    /\ Interrupt(h)
    /\ UNCHANGED <<certs, key, data, store, raced>>

\* A host whose join has failed is started again.
Restart(h) ==
    /\ pc[h] = "preinit" /\ IsInitialized(h)
    /\ Exit(h)
    /\ UNCHANGED <<umode, disk, store, job, budget, raced>>

\* A host that was removed gets an empty data_dir once no task removes it.
ClearDataDir(h) ==
    /\ certs[h] # None
    /\ h \notin user[certs[h]] /\ record[certs[h]][h] = "none"
    /\ ~Targeted(h)
    /\ gen' = [gen EXCEPT ![h] = NoGen]
    /\ certs' = [certs EXCEPT ![h] = None]
    /\ key' = [key EXCEPT ![h] = "none"]
    /\ data' = [data EXCEPT ![h] = NoData]
    /\ Exit(h)
    /\ Interrupt(h)
    /\ UNCHANGED <<umode, store, budget, raced>>

-----------------------------------------------------------------------------
(***************************************************************************)
(* RemoveHost: the handler, and the activity at the same host.  Nothing    *)
(* serializes removals: every call has an activity of its own.  A member   *)
(* that is added again has a new ID, which an activity that has listed the *)
(* old one does not find; the model tells the two apart by raced only.     *)
(***************************************************************************)

RemoveHost(s, h) ==
    /\ s # h
    /\ pc[s] = "serving" /\ Usable(s)
    /\ record[certs[s]][h] # "none"
    /\ Spend("remove")
    /\ job' = [job EXCEPT ![budget.remove] = [by |-> s, host |-> h, at |-> "list"]]
    /\ UNCHANGED <<umode, disk, process, store, raced>>

\* The activity has no second attempt.
At(i, step) == job[i].at = step /\ pc[job[i].by] = "serving"
Ends(i)     == job' = [job EXCEPT ![i] = NoJob]
Continue(i, step) == job' = [job EXCEPT ![i].at = step]

Becoming(h) == path[h] \in {"join", "promote"} /\ pc[h] \in {"creds", "added", "learner", "promoted"}

RemoveList(i) ==
    /\ At(i, "list")
    /\ LET c == certs[job[i].by]
           v == Verdict(job[i].host, c)
       IN /\ IF ~Usable(job[i].by) \/ v = "too few" THEN Ends(i)
             ELSE Continue(i, IF v = "absent" THEN "user" ELSE "member")
          /\ raced' = IF v = "absent" /\ Becoming(job[i].host) THEN raced \cup {job[i].host} ELSE raced
    /\ UNCHANGED <<umode, disk, process, store, budget>>

\* Mutant of RemoveMember: its error does not end the activity.
MutRemoveMember(i) ==
    /\ At(i, "member")
    /\ LET c == certs[job[i].by] IN
       IF Usable(job[i].by) /\ CanRemove(job[i].host, c)
       THEN MemberRemove(job[i].host, c)
       ELSE UNCHANGED <<member, data>>
    /\ Continue(i, "user")
    /\ UNCHANGED <<umode, gen, certs, key, process, founded, auth, user, record, budget, raced>>

RemoveMember(i) ==
    /\ At(i, "member")
    /\ LET c == certs[job[i].by] IN
       IF Usable(job[i].by) /\ CanRemove(job[i].host, c)
       THEN MemberRemove(job[i].host, c) /\ Continue(i, "user")
       ELSE Ends(i) /\ UNCHANGED <<member, data>>
    /\ UNCHANGED <<umode, gen, certs, key, process, founded, auth, user, record, budget, raced>>

\* RemoveHostCredentials
RemoveUser(i) ==
    /\ At(i, "user")
    /\ IF Usable(job[i].by)
       THEN /\ user' = [user EXCEPT ![certs[job[i].by]] = @ \ {job[i].host}]
            /\ Continue(i, "record")
       ELSE Ends(i) /\ UNCHANGED user
    /\ UNCHANGED <<umode, disk, process, founded, member, auth, record, budget, raced>>

RemoveRecord(i) ==
    /\ At(i, "record")
    /\ record' = IF Usable(job[i].by) THEN [record EXCEPT ![certs[job[i].by]][job[i].host] = "none"] ELSE record
    /\ Ends(i)
    /\ UNCHANGED <<umode, disk, process, founded, member, auth, user, budget, raced>>

-----------------------------------------------------------------------------

Step(h) ==
    \/ Start(h) \/ InitCluster(h) \/ Found(h) \/ Secure(h) \/ EnableAuth(h)
    \/ StartEmbedded(h) \/ Started(h) \/ StartFails(h)
    \/ Join(h) \/ JoinRemote(h) \/ AddLearner(h) \/ StartLearner(h)
    \/ Promote(h) \/ PromoteFails(h) \/ Joined(h) \/ JoinedFails(h)
    \/ Connect(h) \/ ConnectFails(h) \/ List(h) \/ LeaveList(h) \/ Leave(h)
    \/ Wipe(h) \/ Demoted(h) \/ Boot(h) \/ BootFails(h) \/ Expelled(h)
    \/ Restart(h) \/ ClearDataDir(h)

Activity(i) == RemoveList(i) \/ RemoveMember(i) \/ RemoveUser(i) \/ RemoveRecord(i)

Next ==
    \/ \E h \in Host : \/ Step(h) \/ StartLearnerFails(h) \/ Crash(h) \/ Timeout(h)
                       \/ Reconfigure(h)
                       \/ \E s \in Host : GetJoinOptions(h, s) \/ RemoveHost(s, h)
    \/ \E i \in Removal : Activity(i)

Spec == Init /\ [][Next]_vars

-----------------------------------------------------------------------------
(***************************************************************************)
(* Properties                                                              *)
(***************************************************************************)

Serving(h) == pc[h] \in {"serving", "apart"}

\* The cluster that a host serves the API for: the one of its own server.
Served(h) == IF umode[h] = "server" THEN data[h].cl ELSE certs[h]

\* Two hosts that serve the API serve it for the same cluster (provideEtcd,
\* App.Run, ChangeMode), whatever starts, crashes, failed joins and changes of
\* mode have come before: unless one of them serves a cluster whose
\* initialization was interrupted before RBAC was enabled, with credentials of
\* another one.
NoSplitBrain ==
    \A g, h \in Host : Serving(g) /\ Serving(h) /\ Served(g) # Served(h) =>
        \E x \in {g, h} : pc[x] = "apart" /\ ~auth[Served(x)]

\* The same without the exception.  A server that is made a client founds a
\* cluster when it has no data directory (its join failed after it had stored its
\* credentials, or a demotion died after RemoveAll); if it dies before
\* writeHostCredentials and is made a server again, it serves that cluster.
NoSplitBrainAlways ==
    \A g, h \in Host : Serving(g) /\ Serving(h) => Served(g) = Served(h)

\* A host that has not been and is not being removed, as far as its user and its
\* own server know.  RBAC is enabled, unless the host that initialized the
\* cluster died between writing its credentials and AuthEnable.
Settled(h) ==
    /\ h \in user[certs[h]] \ raced
    /\ ~Targeted(h)
    /\ auth[certs[h]]
    /\ etcd[h] => data[h].live

\* A host that serves is what its operator configured, in all four places: its
\* generated config, its stored record, its data directory and the membership
\* of the cluster, however a change of mode was interrupted before.
ModeIsReal ==
    \A h \in Host : pc[h] = "serving" /\ Settled(h) =>
        /\ gen[h].mode = umode[h]
        /\ record[certs[h]][h] = umode[h]
        /\ IF umode[h] = "server"
           THEN data[h].cl = certs[h] /\ h \in Voters(certs[h])
           ELSE data[h].cl # certs[h] /\ h \notin Voters(certs[h])

\* A voter counts for the quorum for ever if its host cannot start and nobody
\* can remove it.  remove-host needs the record of the host: so a voter without
\* a record (removed half way, or not booted yet) can still start on its own.
Removable ==
    \A c \in Cluster : \A h \in Voters(c) :
        auth[c] /\ (\E s \in Host \ {h} : pc[s] = "serving" /\ certs[s] = c) =>
            \/ record[c][h] # "none"
            \/ data[h] = [cl |-> c, live |-> TRUE] /\ Accepted(h, c)
            \/ h \in raced

=============================================================================
