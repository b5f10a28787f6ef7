-------------------------- MODULE MembershipProofs --------------------------
(***************************************************************************)
(* Proofs about Membership for any set of hosts, any choice of clients and *)
(* any bounds: however often hosts die, fail to join and change their      *)
(* mode, those that serve serve one cluster, but for one case.             *)
(*                                                                         *)
(* A host may found a second cluster: a server whose data directory is     *)
(* still missing is started once more before it becomes a client, and      *)
(* founds one.  The argument is that nobody else ever gets to know of that *)
(* cluster and that its founder ends there, since the list of members      *)
(* shows no other one and as a client the founder finds no server; or that *)
(* the founder died before it wrote new credentials, in which case it may  *)
(* serve that cluster as a server, and RBAC is never enabled in it.        *)
(*                                                                         *)
(* A second invariant rests on the first one: what a host is at every step *)
(* of a join, a change of mode and a removal, on its disk, in the list of  *)
(* members and in the store.  From it, a host that serves is what its      *)
(* operator configured, and a voter can start.                             *)
(***************************************************************************)
EXTENDS Membership, TLAPS

-----------------------------------------------------------------------------
(***************************************************************************)
(* The inductive invariant.                                                *)
(***************************************************************************)

\* The cluster that InitCluster founds.
Main == 1

\* A host has to do with a cluster: as a member, with its credentials or with
\* its data directory.
Touches(h, c) == member[c][h] # "none" \/ certs[h] = c \/ data[h].cl = c

\* Nobody has to do with a cluster before it is founded.
FoundedFirst == \A h \in Host : \A c \in Cluster : Touches(h, c) => c <= founded

\* A cluster other than the main one has one host.
OneHost ==
    \A c \in Cluster \ {Main} : \A g, h \in Host : Touches(g, c) /\ Touches(h, c) => g = h

\* A host has nothing to start from before the first cluster is founded.
KnowsNothing(h) == gen[h] # NoGen \/ ans[h] # {} => founded > 0

\* Who founds a cluster: the host that the operator has told to, the main one,
\* and a server without a data directory that is to become a client.
Founds(h) ==
    /\ pc[h] = "initialize" => \/ path[h] = "init" /\ h = First /\ founded = 0
                               \/ path[h] = "demote" /\ founded > 0
    /\ pc[h] = "founded" => \/ path[h] = "init" /\ data[h].cl = Main
                            \/ path[h] = "demote" /\ data[h].cl # None
    /\ path[h] = "demote" => umode[h] = "client"

\* A host with the credentials of another cluster is still about to become a
\* client, or has no server and can reach none.
Astray(h) ==
    certs[h] \notin {None, Main} =>
        /\ gen[h].mode = "client"
        /\ \/ /\ path[h] = "demote" /\ pc[h] \in {"secured", "start", "starting", "list"}
              /\ data[h].cl = certs[h]
           \/ ~etcd[h] /\ pc[h] \in {"down", "preinit", "connect"}

\* A server needs credentials to start, of whichever cluster.
Equipped(h) == pc[h] \in {"starting", "list"} => certs[h] # None

\* A host that serves another cluster has the credentials of the main one.
Apart(h) == pc[h] = "apart" => certs[h] = Main /\ data[h].cl \in Cluster \ {Main}

\* The steps on the way into a cluster, in it and out of it.
Inside == {"creds", "added", "learner", "promoted", "boot", "serving",
           "alone", "leaving", "left", "wiped"}

\* They are about the main cluster, and so is every answer to a host that wants
\* to join.
InMain(h) ==
    /\ pc[h] \in Inside => certs[h] = Main
    /\ \A a \in ans[h] : a.cl = Main

Local(h) == KnowsNothing(h) /\ Founds(h) /\ Astray(h) /\ Equipped(h) /\ Apart(h) /\ InMain(h)

IInv == TypeOK /\ FoundedFirst /\ OneHost /\ \A h \in Host : Local(h)

-----------------------------------------------------------------------------
(***************************************************************************)
(* A step of one host                                                      *)
(***************************************************************************)

LEMMA MainIsCluster ==
  /\ Main \in Cluster /\ None \notin Cluster /\ Main # None
  /\ \A c \in Cluster : c \in Nat /\ c > 0
  BY BoundsAreNat DEF Main, Cluster, None

\* What a host has.
LEMMA HostType ==
  ASSUME TypeOK, NEW h \in Host
  PROVE  /\ founded \in Nat
         /\ umode[h] \in {"server", "client"}
         /\ certs[h] \in {None} \cup Cluster
         /\ data[h] \in {NoData} \cup [cl : Cluster, live : BOOLEAN]
         /\ data[h].cl \in {None} \cup Cluster
         /\ data[h].cl = None <=> data[h] = NoData
         /\ gen[h] \in [mode : {"", "server", "client"}, eps : SUBSET Host]
         /\ gen[h].mode \in {"", "server", "client"}
         /\ (gen[h].mode # "" \/ gen[h].eps # {}) <=> gen[h] # NoGen
<1>1. founded \in Nat
  <2>1. founded \in {0} \cup Cluster
    BY DEF TypeOK
  <2> QED  BY <2>1, MainIsCluster
<1>2. umode[h] \in {"server", "client"} /\ certs[h] \in {None} \cup Cluster
  BY DEF TypeOK
<1>3. data[h] \in {NoData} \cup [cl : Cluster, live : BOOLEAN]
  BY DEF TypeOK
<1>4. data[h].cl \in {None} \cup Cluster /\ (data[h].cl = None <=> data[h] = NoData)
  <2>1. CASE data[h] = NoData
    BY <2>1 DEF NoData
  <2>2. CASE data[h] # NoData
    <3>1. data[h].cl \in Cluster
      BY <1>3, <2>2
    <3> QED  BY <2>2, <3>1, MainIsCluster
  <2> QED  BY <2>1, <2>2
<1>5. gen[h] \in [mode : {"", "server", "client"}, eps : SUBSET Host]
  BY DEF TypeOK
<1>6. (gen[h].mode # "" \/ gen[h].eps # {}) <=> gen[h] # NoGen
  <2>1. gen[h] = [mode |-> gen[h].mode, eps |-> gen[h].eps]
    BY <1>5
  <2>2. NoGen.mode = "" /\ NoGen.eps = {}
    BY DEF NoGen
  <2>3. gen[h].mode = "" /\ gen[h].eps = {} => gen[h] = NoGen
    BY <2>1 DEF NoGen
  <2> QED  BY <2>2, <2>3
<1>7. gen[h].mode \in {"", "server", "client"}
  BY <1>5
<1> QED  BY <1>1, <1>2, <1>3, <1>4, <1>5, <1>6, <1>7

\* A host writes its generated config.
LEMMA GenMode ==
  ASSUME TypeOK, NEW h \in Host, NEW m \in {"", "server", "client"},
         gen' = [gen EXCEPT ![h].mode = m]
  PROVE  /\ gen' \in [Host -> [mode : {"", "server", "client"}, eps : SUBSET Host]]
         /\ gen'[h].mode = m /\ gen'[h].eps = gen[h].eps
         /\ \A g \in Host \ {h} : gen'[g] = gen[g]
<1>1. gen \in [Host -> [mode : {"", "server", "client"}, eps : SUBSET Host]]
  BY DEF TypeOK
<1>2. gen' = [gen EXCEPT ![h] = [gen[h] EXCEPT !.mode = m]]
  BY <1>1
<1>3. [gen[h] EXCEPT !.mode = m] \in [mode : {"", "server", "client"}, eps : SUBSET Host]
  BY <1>1
<1>4. gen'[h] = [gen[h] EXCEPT !.mode = m]
  BY <1>1, <1>2
<1> QED  BY <1>1, <1>2, <1>3, <1>4

LEMMA GenEndpoints ==
  ASSUME TypeOK, NEW h \in Host, NEW E \in SUBSET Host,
         gen' = [gen EXCEPT ![h].eps = E]
  PROVE  /\ gen' \in [Host -> [mode : {"", "server", "client"}, eps : SUBSET Host]]
         /\ gen'[h].mode = gen[h].mode /\ gen'[h].eps = E
         /\ \A g \in Host \ {h} : gen'[g] = gen[g]
<1>1. gen \in [Host -> [mode : {"", "server", "client"}, eps : SUBSET Host]]
  BY DEF TypeOK
<1>2. gen' = [gen EXCEPT ![h] = [gen[h] EXCEPT !.eps = E]]
  BY <1>1
<1>3. [gen[h] EXCEPT !.eps = E] \in [mode : {"", "server", "client"}, eps : SUBSET Host]
  BY <1>1
<1>4. gen'[h] = [gen[h] EXCEPT !.eps = E]
  BY <1>1, <1>2
<1> QED  BY <1>1, <1>2, <1>3, <1>4

\* The variables of host h stay as they are.
Same(h) == /\ umode'[h] = umode[h] /\ gen'[h] = gen[h] /\ certs'[h] = certs[h]
           /\ data'[h].cl = data[h].cl /\ pc'[h] = pc[h] /\ path'[h] = path[h]
           /\ etcd'[h] = etcd[h] /\ ans'[h] = ans[h]

\* Nobody gets to do with another cluster than before, except for the main one.
NothingNew ==
    \A g \in Host : \A c \in Cluster :
        Touches(g, c)' => Touches(g, c) \/ (c = Main /\ founded > 0)

\* A step of one host needs to be looked at for that host only.
LEMMA OneHostStep ==
  ASSUME IInv, TypeOK', founded' = founded, NEW h \in Host,
         \A g \in Host \ {h} : Same(g), NothingNew, Local(h)'
  PROVE  IInv'
<1>1. FoundedFirst'
  <2>1. founded \in Nat
    BY HostType DEF IInv
  <2>2. founded > 0 => Main <= founded
    BY <2>1 DEF Main
  <2> QED  BY <2>2 DEF IInv, FoundedFirst, NothingNew
<1>2. OneHost'
  BY DEF IInv, OneHost, NothingNew
<1>3. \A g \in Host \ {h} : Local(g)'
  BY DEF IInv, Same, Local, KnowsNothing, Founds, Astray, Equipped, Apart, InMain
<1> QED  BY <1>1, <1>2, <1>3 DEF IInv

\* What a host touches when neither its credentials nor its data directory nor
\* the list of members changes.
LEMMA SameTouches ==
  ASSUME UNCHANGED <<certs, member>>, \A g \in Host : data'[g].cl = data[g].cl
  PROVE  NothingNew
  BY DEF NothingNew, Touches

\* The process ends, or an error is returned.
LEMMA ExitType ==
  ASSUME TypeOK, NEW h \in Host, Exit(h)
  PROVE  /\ pc' \in [Host -> Steps]
         /\ path' \in [Host -> {"plain", "init", "join", "demote", "promote"}]
         /\ etcd' \in [Host -> BOOLEAN]
         /\ ans' \in [Host -> SUBSET Answer]
         /\ pc'[h] = "down" /\ path'[h] = "plain" /\ etcd'[h] = FALSE /\ ans'[h] = {}
         /\ \A g \in Host \ {h} : /\ pc'[g] = pc[g] /\ path'[g] = path[g]
                                  /\ etcd'[g] = etcd[g] /\ ans'[g] = ans[g]
<1> DEFINE P == {"plain", "init", "join", "demote", "promote"}
<1>1. /\ pc \in [Host -> Steps] /\ path \in [Host -> P] /\ etcd \in [Host -> BOOLEAN]
      /\ ans \in [Host -> SUBSET Answer] /\ "down" \in Steps
  BY DEF TypeOK, Steps
<1>2. /\ pc' \in [Host -> Steps] /\ pc'[h] = "down"
      /\ \A g \in Host \ {h} : pc'[g] = pc[g]
  BY <1>1 DEF Exit, Goto
<1>3. /\ path' \in [Host -> P] /\ path'[h] = "plain"
      /\ \A g \in Host \ {h} : path'[g] = path[g]
  BY <1>1 DEF Exit
<1>4. /\ etcd' \in [Host -> BOOLEAN] /\ etcd'[h] = FALSE
      /\ \A g \in Host \ {h} : etcd'[g] = etcd[g]
  BY <1>1 DEF Exit
<1>5. /\ ans' \in [Host -> SUBSET Answer] /\ ans'[h] = {}
      /\ \A g \in Host \ {h} : ans'[g] = ans[g]
  BY <1>1 DEF Exit
<1> QED  BY <1>2, <1>3, <1>4, <1>5

LEMMA FailType ==
  ASSUME TypeOK, NEW h \in Host, Fail(h)
  PROVE  /\ pc' \in [Host -> Steps]
         /\ path' \in [Host -> {"plain", "init", "join", "demote", "promote"}]
         /\ etcd' \in [Host -> BOOLEAN]
         /\ ans' \in [Host -> SUBSET Answer]
         /\ \/ /\ path[h] \in {"init", "join"} /\ pc'[h] = "preinit"
               /\ path'[h] = path[h] /\ etcd'[h] = etcd[h] /\ ans'[h] = ans[h]
            \/ pc'[h] = "down" /\ path'[h] = "plain" /\ etcd'[h] = FALSE /\ ans'[h] = {}
         /\ \A g \in Host \ {h} : /\ pc'[g] = pc[g] /\ path'[g] = path[g]
                                  /\ etcd'[g] = etcd[g] /\ ans'[g] = ans[g]
<1>1. CASE path[h] \in {"init", "join"}
  <2>1. pc' = [pc EXCEPT ![h] = "preinit"] /\ UNCHANGED <<path, etcd, ans>>
    BY <1>1 DEF Fail, Goto
  <2>2. /\ pc' \in [Host -> Steps] /\ pc'[h] = "preinit"
        /\ \A g \in Host \ {h} : pc'[g] = pc[g]
    BY <2>1 DEF TypeOK, Steps
  <2> QED  BY <1>1, <2>1, <2>2 DEF TypeOK
<1>2. CASE path[h] \notin {"init", "join"}
  BY <1>2, ExitType DEF Fail
<1> QED  BY <1>1, <1>2

LEMMA GotoType ==
  ASSUME TypeOK, NEW h \in Host, NEW p \in Steps, Goto(h, p)
  PROVE  /\ pc' \in [Host -> Steps] /\ pc'[h] = p
         /\ \A g \in Host \ {h} : pc'[g] = pc[g]
  BY DEF TypeOK, Goto

LEMMA InterruptType ==
  ASSUME TypeOK, NEW h \in Host, Interrupt(h)
  PROVE  job' \in [Removal -> {NoJob} \cup Job]
<1> SUFFICES ASSUME NEW i \in Removal
             PROVE  (IF job[i].at # "none" /\ job[i].by = h
                     THEN [job[i] EXCEPT !.at = "list"] ELSE job[i]) \in {NoJob} \cup Job
  BY DEF Interrupt
<1>1. job[i] \in {NoJob} \cup Job
  BY DEF TypeOK
<1>2. job[i].at # "none" => job[i] \in Job
  BY <1>1 DEF NoJob
<1>3. job[i] \in Job => [job[i] EXCEPT !.at = "list"] \in Job
  BY DEF Job
<1> QED  BY <1>1, <1>2, <1>3

LEMMA SpendType ==
  ASSUME TypeOK, NEW what \in {"mode", "remove", "trouble"}, Spend(what)
  PROVE  budget' \in Budget
<1>1. budget \in Budget
  BY DEF TypeOK
<1>2. CASE what = "mode"
  BY <1>1, <1>2, BoundsAreNat DEF Spend, Budget
<1>3. CASE what = "remove"
  BY <1>1, <1>3, BoundsAreNat DEF Spend, Budget
<1>4. CASE what = "trouble"
  BY <1>1, <1>4, BoundsAreNat DEF Spend, Budget
<1> QED  BY <1>2, <1>3, <1>4

\* A host whose process ends, with what it has on its disk, is as good as
\* before.
LEMMA ExitLocal ==
  ASSUME IInv, NEW h \in Host, Exit(h), founded' = founded,
         \/ certs'[h] = None
         \/ certs'[h] = certs[h] /\ (certs[h] # Main => gen'[h].mode = gen[h].mode),
         gen'[h] = gen[h] \/ gen'[h] = NoGen \/ founded > 0
  PROVE  Local(h)'
<1>1. pc'[h] = "down" /\ path'[h] = "plain" /\ etcd'[h] = FALSE /\ ans'[h] = {}
  BY ExitType DEF IInv
<1> QED  BY <1>1, MainIsCluster DEF IInv, Local, KnowsNothing, Founds, Astray, Equipped, Apart, InMain, Inside

\* A process that ends while the store and the disks stay as they are.
LEMMA ExitInv ==
  ASSUME IInv, NEW h \in Host, Exit(h), UNCHANGED <<disk, store, raced>>,
         umode' \in [Host -> {"server", "client"}],
         \A g \in Host \ {h} : umode'[g] = umode[g],
         job' \in [Removal -> {NoJob} \cup Job],
         budget' \in Budget
  PROVE  IInv'
<1>1. TypeOK'
  <2>1. /\ pc' \in [Host -> Steps]
        /\ path' \in [Host -> {"plain", "init", "join", "demote", "promote"}]
        /\ etcd' \in [Host -> BOOLEAN]
        /\ ans' \in [Host -> SUBSET Answer]
    BY ExitType DEF IInv
  <2> QED  BY <2>1 DEF IInv, TypeOK, disk, store
<1>2. Local(h)'
  BY ExitLocal DEF disk, store
<1>3. \A g \in Host \ {h} : Same(g)
  <2>1. \A g \in Host \ {h} : /\ pc'[g] = pc[g] /\ path'[g] = path[g]
                               /\ etcd'[g] = etcd[g] /\ ans'[g] = ans[g]
    BY ExitType DEF IInv
  <2> QED  BY <2>1 DEF Same, disk
<1>4. NothingNew
  BY SameTouches DEF disk, store
<1> QED  BY <1>1, <1>2, <1>3, <1>4, OneHostStep DEF store

\* The same for an error.
LEMMA FailInv ==
  ASSUME IInv, NEW h \in Host, Fail(h),
         pc[h] \in {"start", "starting", "creds", "added", "learner", "promoted"},
         UNCHANGED <<umode, gen, certs, founded>>, TypeOK', NothingNew,
         \A g \in Host \ {h} : data'[g].cl = data[g].cl
  PROVE  IInv'
<1>1. \A g \in Host \ {h} : Same(g)
  BY FailType DEF IInv, Same
<1>2. Local(h)'
  <2>1. Local(h)
    BY DEF IInv
  <2> QED  BY <2>1, FailType, MainIsCluster
           DEF IInv, Local, KnowsNothing, Founds, Astray, Equipped, Apart, InMain, Inside
<1> QED  BY <1>1, <1>2, OneHostStep

\* A host moves to its next step.
LEMMA MoveInv ==
  ASSUME IInv, TypeOK', NEW h \in Host, NEW q \in Steps \ {"initialize", "founded"}, Goto(h, q),
         UNCHANGED <<umode, certs, path, ans, founded>>, NothingNew,
         \A g \in Host \ {h} : /\ gen'[g] = gen[g] /\ etcd'[g] = etcd[g]
                               /\ data'[g].cl = data[g].cl,
         gen'[h] = gen[h] \/ founded > 0,
         certs[h] \notin {None, Main} =>
             /\ gen'[h].mode = gen[h].mode
             /\ path[h] = "demote" /\ q \in {"secured", "start", "starting", "list"}
             /\ data'[h].cl = certs[h],
         q \in {"starting", "list"} => certs[h] # None,
         q = "apart" => data'[h].cl \in Cluster \ {Main},
         q \in Inside \cup {"apart"} => certs[h] = Main
  PROVE  IInv'
<1>1. pc'[h] = q /\ \A g \in Host \ {h} : pc'[g] = pc[g]
  BY GotoType DEF IInv
<1>2. \A g \in Host \ {h} : Same(g)
  BY <1>1 DEF Same
<1>3. Local(h)
  BY DEF IInv
<1>4. KnowsNothing(h)' /\ Founds(h)' /\ InMain(h)'
  BY <1>1, <1>3 DEF Local, KnowsNothing, Founds, InMain
<1>5. Astray(h)'
  BY <1>1, <1>3 DEF Local, Astray
<1>6. Equipped(h)' /\ Apart(h)'
  BY <1>1 DEF Equipped, Apart
<1> QED  BY <1>2, <1>4, <1>5, <1>6, OneHostStep DEF Local

\* The list of members of a cluster changes for one host.
LEMMA MemberType ==
  ASSUME TypeOK, NEW c \in Cluster, NEW h \in Host,
         NEW v \in {"none", "added", "learner", "voter"}, member' = [member EXCEPT ![c][h] = v]
  PROVE  /\ member' \in [Cluster -> [Host -> {"none", "added", "learner", "voter"}]]
         /\ member'[c][h] = v
         /\ \A d \in Cluster, g \in Host : d # c \/ g # h => member'[d][g] = member[d][g]
  BY DEF TypeOK

LEMMA MemberRemoveType ==
  ASSUME TypeOK, NEW c \in Cluster, NEW h \in Host, MemberRemove(h, c)
  PROVE  /\ member' \in [Cluster -> [Host -> {"none", "added", "learner", "voter"}]]
         /\ data' \in [Host -> {NoData} \cup [cl : Cluster, live : BOOLEAN]]
         /\ \A g \in Host : data'[g].cl = data[g].cl
         /\ certs' = certs => NothingNew
<1>1. /\ member' \in [Cluster -> [Host -> {"none", "added", "learner", "voter"}]]
      /\ \A d \in Cluster, g \in Host : member'[d][g] # "none" => member[d][g] # "none"
  <2>1. member' = [member EXCEPT ![c][h] = "none"]
    BY DEF MemberRemove
  <2>2. /\ member' \in [Cluster -> [Host -> {"none", "added", "learner", "voter"}]]
        /\ member'[c][h] = "none"
        /\ \A d \in Cluster, g \in Host : d # c \/ g # h => member'[d][g] = member[d][g]
    BY <2>1, MemberType
  <2> QED  BY <2>2
<1>2. data \in [Host -> {NoData} \cup [cl : Cluster, live : BOOLEAN]]
  BY DEF TypeOK
<1>3. /\ data' \in [Host -> {NoData} \cup [cl : Cluster, live : BOOLEAN]]
      /\ \A g \in Host : data'[g].cl = data[g].cl
  <2>1. CASE data[h].cl = c
    <3>1. data[h] \in [cl : Cluster, live : BOOLEAN]
      BY <1>2, <2>1, MainIsCluster DEF NoData
    <3>2. data' = [data EXCEPT ![h] = [data[h] EXCEPT !.live = FALSE]]
      BY <1>2, <2>1 DEF MemberRemove
    <3>3. /\ [data[h] EXCEPT !.live = FALSE] \in [cl : Cluster, live : BOOLEAN]
          /\ [data[h] EXCEPT !.live = FALSE].cl = data[h].cl
      BY <3>1
    <3> QED  BY <1>2, <3>2, <3>3
  <2>2. CASE data[h].cl # c
    BY <1>2, <2>2 DEF MemberRemove
  <2> QED  BY <2>1, <2>2
<1>4. certs' = certs => NothingNew
  BY <1>1, <1>3 DEF NothingNew, Touches
<1> QED  BY <1>1, <1>3, <1>4

\* Whoever is inside a cluster is in the main one, which is founded.
LEMMA MainIsFounded ==
  ASSUME IInv, NEW h \in Host, certs[h] = Main
  PROVE  founded > 0 /\ founded \in Nat /\ Main \in Cluster
<1>1. Main <= founded
  BY MainIsCluster DEF IInv, FoundedFirst, Touches
<1>2. founded \in Nat
  BY HostType DEF IInv
<1> QED  BY <1>1, <1>2, MainIsCluster DEF Main

\* Nobody answers the founder of another cluster that runs no server.
LEMMA AnsweredByMain ==
  ASSUME IInv, NEW h \in Host, NEW eps, pc[h] = "connect", Answered(h, certs[h], eps)
  PROVE  certs[h] = Main
<1> SUFFICES ASSUME certs[h] # Main PROVE FALSE
  OBVIOUS
<1>1. certs[h] \in Cluster \ {Main} /\ certs[h] # None
  BY HostType DEF IInv, Answered, Accepted
<1>2. PICK g \in Host : member[certs[h]][g] # "none" /\ etcd[g]
  BY DEF Answered, Voters, Running, Members
<1>3. g = h
  BY <1>1, <1>2 DEF IInv, OneHost, Touches
<1> QED  BY <1>1, <1>2, <1>3 DEF IInv, Local, Astray

\* A cluster with a second member is the main one.
LEMMA SecondMemberOfMain ==
  ASSUME IInv, NEW h \in Host, NEW g \in Host \ {h}, pc[h] = "list", Own(h),
         g \in Members(data[h].cl)
  PROVE  certs[h] = Main
<1>1. data[h].cl \in Cluster
  BY HostType DEF IInv, Own, Answered, Accepted
<1>2. data[h].cl = Main
  BY <1>1 DEF IInv, OneHost, Touches, Members
<1> QED  BY <1>2 DEF IInv, Local, Astray, Equipped

-----------------------------------------------------------------------------
(***************************************************************************)
(* Start, initialize and start of the server                               *)
(***************************************************************************)

LEMMA StartInv ==
  ASSUME IInv, NEW h \in Host, Start(h)
  PROVE  IInv'
<1>1. /\ UNCHANGED <<umode, certs, key, data, etcd, ans, store, job, budget, raced>>
      /\ pc[h] = "down"
  BY DEF Start
<1>2. \/ gen' = gen
      \/ /\ IsInitialized(h) /\ gen[h].mode \in {"", umode[h]}
         /\ gen' = [gen EXCEPT ![h].mode = umode[h]]
  BY DEF Start
<1>3. \/ /\ Goto(h, "start") /\ path' = path
         /\ umode[h] = "server" /\ gen[h].mode \in {"", "server"}
      \/ Goto(h, "connect") /\ path' = path
      \/ Goto(h, "preinit") /\ path' = path
      \/ /\ Goto(h, "start") \/ Goto(h, "initialize")
         /\ path' = [path EXCEPT ![h] = "demote"]
         /\ gen[h].mode = "server" /\ umode[h] = "client"
      \/ Goto(h, "connect") /\ path' = [path EXCEPT ![h] = "promote"]
  <2>1. CASE gen[h].mode = "server" /\ umode[h] = "client"
    <3>1. path' = [path EXCEPT ![h] = "demote"] /\ (Goto(h, "start") \/ Goto(h, "initialize"))
      BY <2>1 DEF Start
    <3> QED  BY <2>1, <3>1
  <2>2. CASE gen[h].mode = "client" /\ umode[h] = "server"
    BY <2>2 DEF Start
  <2>3. CASE gen[h].mode \in {"", umode[h]}
    <3>1. path' = path
      BY <2>3, HostType DEF Start, IInv
    <3>2. CASE IsInitialized(h) /\ umode[h] = "server"
      BY <2>3, <3>1, <3>2 DEF Start
    <3>3. CASE IsInitialized(h) /\ umode[h] # "server"
      BY <2>3, <3>1, <3>3, HostType DEF Start, IInv
    <3>4. CASE ~IsInitialized(h)
      BY <2>3, <3>1, <3>4, HostType DEF Start, IInv
    <3> QED  BY <3>2, <3>3, <3>4
  <2> QED  BY <2>1, <2>2, <2>3, HostType DEF IInv
<1>4. /\ gen' \in [Host -> [mode : {"", "server", "client"}, eps : SUBSET Host]]
      /\ \/ gen'[h] = gen[h]
         \/ IsInitialized(h) /\ gen[h].mode \in {"", umode[h]} /\ gen'[h].mode = umode[h]
      /\ \A g \in Host \ {h} : gen'[g] = gen[g]
  <2>1. CASE gen' = gen
    <3>1. gen \in [Host -> [mode : {"", "server", "client"}, eps : SUBSET Host]]
      BY DEF IInv, TypeOK
    <3> QED  BY <2>1, <3>1
  <2>2. CASE /\ IsInitialized(h) /\ gen[h].mode \in {"", umode[h]}
             /\ gen' = [gen EXCEPT ![h].mode = umode[h]]
    BY <2>2, GenMode, HostType DEF IInv
  <2> QED  BY <1>2, <2>1, <2>2
<1>5. /\ pc' \in [Host -> Steps] /\ pc'[h] \in {"start", "connect", "preinit", "initialize"}
      /\ path' \in [Host -> {"plain", "init", "join", "demote", "promote"}]
      /\ \A g \in Host \ {h} : pc'[g] = pc[g] /\ path'[g] = path[g]
      /\ pc'[h] \in {"start", "initialize"} =>
           \/ pc'[h] = "start" /\ umode[h] = "server" /\ gen[h].mode \in {"", "server"}
           \/ path'[h] = "demote" /\ gen[h].mode = "server"
      /\ path'[h] = "demote" => path[h] = "demote" \/ umode[h] = "client"
  <2> DEFINE P == {"plain", "init", "join", "demote", "promote"}
  <2>1. /\ path' \in [Host -> P] /\ \A g \in Host \ {h} : path'[g] = path[g]
        /\ path' = path => path'[h] = path[h]
        /\ path' = [path EXCEPT ![h] = "demote"] => path'[h] = "demote"
        /\ path' = [path EXCEPT ![h] = "promote"] => path'[h] = "promote"
    <3>1. path \in [Host -> P]
      BY DEF IInv, TypeOK
    <3> QED  BY <1>3, <3>1
  <2>2. TypeOK /\ {"start", "connect", "preinit", "initialize"} \subseteq Steps
    BY DEF IInv, Steps
  <2>3. PICK p \in {"start", "connect", "preinit", "initialize"} : Goto(h, p)
    BY <1>3
  <2>4. pc' \in [Host -> Steps] /\ pc'[h] = p /\ \A g \in Host \ {h} : pc'[g] = pc[g]
    BY <2>2, <2>3, GotoType
  <2>5. \A q \in Steps : Goto(h, q) => pc'[h] = q
    BY <2>2, GotoType
  <2> QED  BY <1>3, <2>1, <2>2, <2>4, <2>5
<1>6. TypeOK'
  BY <1>1, <1>4, <1>5 DEF IInv, TypeOK, store
<1>7. \A g \in Host \ {h} : Same(g)
  BY <1>1, <1>4, <1>5 DEF Same
<1>8. NothingNew
  BY <1>1, SameTouches DEF store
<1>9. IsInitialized(h) => founded > 0
  <2>1. data[h] # NoData => founded > 0
    <3>1. data[h] # NoData => data[h].cl \in Cluster
      BY HostType DEF IInv
    <3>2. \A c \in Cluster : data[h].cl = c => c <= founded
      BY DEF IInv, FoundedFirst, Touches
    <3>3. founded \in Nat
      BY HostType DEF IInv
    <3> QED  BY <3>1, <3>2, <3>3, MainIsCluster
  <2>2. gen[h].eps # {} => founded > 0
    BY HostType DEF IInv, Local, KnowsNothing
  <2> QED  BY <2>1, <2>2 DEF IsInitialized
<1>10. Local(h) /\ (gen[h].mode # "" => founded > 0)
  BY HostType DEF IInv, Local, KnowsNothing
<1>11. KnowsNothing(h)'
  BY <1>1, <1>4, <1>9, <1>10 DEF Local, KnowsNothing, store
<1>12. Founds(h)'
  BY <1>1, <1>5, <1>10 DEF Local, Founds, store
<1>13. Astray(h)'
  BY <1>1, <1>4, <1>5, <1>10 DEF Local, Astray
<1>14. InMain(h)'
  BY <1>1, <1>5, <1>10 DEF Local, InMain, Inside
<1>15. Equipped(h)' /\ Apart(h)'
  BY <1>1, <1>5 DEF Equipped, Apart
<1> QED  BY <1>1, <1>6, <1>7, <1>8, <1>11, <1>12, <1>13, <1>14, <1>15, OneHostStep DEF Local, store

LEMMA InitClusterInv ==
  ASSUME IInv, NEW h \in Host, InitCluster(h)
  PROVE  IInv'
<1>1. /\ h = First /\ founded = 0 /\ pc[h] = "preinit"
      /\ pc' = [pc EXCEPT ![h] = "initialize"] /\ path' = [path EXCEPT ![h] = "init"]
      /\ UNCHANGED <<umode, gen, certs, key, data, etcd, ans, store, job, budget, raced>>
  BY DEF InitCluster, Goto, disk
<1>2. TypeOK'
  BY <1>1 DEF IInv, TypeOK, Steps, store
<1>3. \A g \in Host \ {h} : Same(g)
  BY <1>1 DEF IInv, TypeOK, Same
<1>4. NothingNew
  BY <1>1, SameTouches DEF store
<1>5. certs[h] = None
  <2>1. certs[h] \in {None} \cup Cluster
    BY HostType DEF IInv
  <2>2. \A c \in Cluster : certs[h] = c => c <= founded
    BY DEF IInv, FoundedFirst, Touches
  <2> QED  BY <1>1, <2>1, <2>2, MainIsCluster
<1>6. Local(h)'
  BY <1>1, <1>5, MainIsCluster
  DEF IInv, TypeOK, Local, KnowsNothing, Founds, Astray, Equipped, Apart, InMain, Inside, store
<1> QED  BY <1>1, <1>2, <1>3, <1>4, <1>6, OneHostStep DEF store

\* A new cluster: nobody had to do with it before, and whoever is about to
\* found the main one is alone.
LEMMA FoundInv ==
  ASSUME IInv, NEW h \in Host, Found(h)
  PROVE  IInv'
<1> DEFINE n == founded + 1
<1>1. /\ pc[h] = "initialize" /\ founded' = n /\ n \in Cluster
      /\ member' = [member EXCEPT ![n][h] = "voter"]
      /\ data' = [data EXCEPT ![h] = [cl |-> n, live |-> TRUE]]
      /\ etcd' = [etcd EXCEPT ![h] = TRUE]
      /\ pc' = [pc EXCEPT ![h] = "founded"]
      /\ UNCHANGED <<umode, gen, certs, key, path, ans, auth, user, record, job, budget, raced>>
  BY DEF Found, Goto
<1>2. n \in Nat /\ founded \in Nat /\ n > founded
  <2>1. founded \in Nat
    BY HostType DEF IInv
  <2> QED  BY <2>1
<1> HIDE DEF n
<1>3. TypeOK'
  BY <1>1 DEF IInv, TypeOK, Steps
<1>4. \A g \in Host : \A c \in Cluster : Touches(g, c)' => Touches(g, c) \/ (g = h /\ c = n)
  <2> SUFFICES ASSUME NEW g \in Host, NEW c \in Cluster, Touches(g, c)',
                      ~(g = h /\ c = n)
               PROVE  Touches(g, c)
    OBVIOUS
  <2>1. member'[c][g] = member[c][g]
    BY <1>1 DEF IInv, TypeOK
  <2>2. data'[g].cl = c => data[g].cl = c
    BY <1>1 DEF IInv, TypeOK
  <2> QED  BY <1>1, <2>1, <2>2 DEF Touches
<1>5. \A g \in Host : ~Touches(g, n)
  BY <1>1, <1>2 DEF IInv, FoundedFirst
<1>6. FoundedFirst'
  BY <1>1, <1>2, <1>4, MainIsCluster DEF IInv, FoundedFirst
<1>7. OneHost'
  BY <1>1, <1>4, <1>5 DEF IInv, OneHost
<1>8. ASSUME NEW g \in Host PROVE Local(g)'
  <2>1. Local(g) /\ Local(h)
    BY DEF IInv
  <2>2. g # h => pc[g] # "initialize" \/ path[g] # "init"
    BY <1>1, <2>1 DEF Local, Founds
  <2>3. certs[h] \in {None, Main}
    BY <1>1, <2>1 DEF Local, Astray
  <2>4. (path[h] = "init" /\ n = Main) \/ (path[h] = "demote" /\ n # None)
    BY <1>1, <1>2, <2>1 DEF Local, Founds, Main, None, n
  <2>5. KnowsNothing(g)'
    BY <1>1, <1>2, <2>1 DEF Local, KnowsNothing
  <2>6. Founds(g)'
    <3>1. /\ g # h => pc'[g] = pc[g] /\ data'[g] = data[g]
          /\ pc'[h] = "founded" /\ data'[h].cl = n /\ path' = path /\ umode' = umode
      BY <1>1 DEF IInv, TypeOK
    <3>2. founded' > 0
      BY <1>1, <1>2
    <3>3. CASE g = h
      BY <2>1, <2>4, <3>1, <3>3 DEF Local, Founds
    <3>4. CASE g # h
      BY <2>1, <2>2, <3>1, <3>2, <3>4 DEF Local, Founds
    <3> QED  BY <3>3, <3>4
  <2>7. Astray(g)'
    BY <1>1, <2>1, <2>3 DEF IInv, TypeOK, Local, Astray
  <2>8. InMain(g)'
    BY <1>1, <2>1 DEF IInv, TypeOK, Local, InMain, Inside
  <2>9. Equipped(g)' /\ Apart(g)'
    BY <1>1, <2>1 DEF IInv, TypeOK, Local, Equipped, Apart
  <2> QED  BY <2>5, <2>6, <2>7, <2>8, <2>9 DEF Local
<1> QED  BY <1>3, <1>6, <1>7, <1>8 DEF IInv

\* The founder writes its credentials: of the main cluster, or as a client.
LEMMA SecureInv ==
  ASSUME IInv, NEW h \in Host, Secure(h)
  PROVE  IInv'
<1> DEFINE c == data[h].cl
<1>1. /\ pc[h] = "founded"
      /\ certs' = [certs EXCEPT ![h] = c] /\ key' = [key EXCEPT ![h] = "good"]
      /\ gen' = [gen EXCEPT ![h].mode = umode[h]]
      /\ user' = [user EXCEPT ![c] = @ \cup {h}]
      /\ Goto(h, "secured")
      /\ UNCHANGED <<umode, data, path, etcd, ans, founded, member, auth, record, job,
                     budget, raced>>
  BY DEF Secure, WriteHostCredentials
<1>2. Local(h) /\ TypeOK
  BY DEF IInv
<1>3. c \in Cluster /\ (c = Main \/ (path[h] = "demote" /\ umode[h] = "client"))
  <2>1. c \in {None} \cup Cluster
    BY <1>2, HostType
  <2> QED  BY <1>1, <1>2, <2>1, MainIsCluster DEF Local, Founds
<1>4. founded > 0
  <2>1. c <= founded
    BY <1>3 DEF IInv, FoundedFirst, Touches
  <2>2. founded \in Nat
    BY <1>2, HostType
  <2> HIDE DEF c
  <2> QED  BY <1>3, <2>1, <2>2, MainIsCluster
<1>12. data'[h].cl = c
  BY <1>1
<1> HIDE DEF c
<1>5. /\ gen' \in [Host -> [mode : {"", "server", "client"}, eps : SUBSET Host]]
      /\ gen'[h].mode = umode[h] /\ \A g \in Host \ {h} : gen'[g] = gen[g]
  BY <1>1, <1>2, GenMode, HostType
<1>6. /\ certs' \in [Host -> {None} \cup Cluster] /\ key' \in [Host -> {"none", "good", "stale"}]
      /\ user' \in [Cluster -> SUBSET Host]
      /\ certs'[h] = c /\ \A g \in Host \ {h} : certs'[g] = certs[g]
  BY <1>1, <1>2, <1>3 DEF TypeOK
<1>7. /\ pc' \in [Host -> Steps] /\ pc'[h] = "secured"
      /\ \A g \in Host \ {h} : pc'[g] = pc[g]
  <2>1. "secured" \in Steps
    BY DEF Steps
  <2> QED  BY <1>1, <1>2, <2>1, GotoType
<1>8. TypeOK'
  BY <1>1, <1>2, <1>5, <1>6, <1>7 DEF TypeOK
<1>9. \A g \in Host \ {h} : Same(g)
  BY <1>1, <1>5, <1>6, <1>7 DEF Same
<1>10. NothingNew
  BY <1>1, <1>6 DEF NothingNew, Touches, c
<1>11. Local(h)'
  BY <1>1, <1>2, <1>3, <1>4, <1>5, <1>6, <1>7, <1>12
  DEF Local, KnowsNothing, Founds, Astray, Equipped, Apart, InMain, Inside
<1> QED  BY <1>1, <1>8, <1>9, <1>10, <1>11, OneHostStep

LEMMA EnableAuthInv ==
  ASSUME IInv, NEW h \in Host, EnableAuth(h)
  PROVE  IInv'
<1>1. /\ pc[h] = "secured" /\ auth' = [auth EXCEPT ![data[h].cl] = TRUE]
      /\ etcd' = [etcd EXCEPT ![h] = FALSE] /\ Goto(h, "start")
      /\ UNCHANGED <<umode, gen, certs, key, data, path, ans, founded, member, user,
                     record, job, budget, raced>>
  BY DEF EnableAuth, disk
<1>2. Local(h) /\ TypeOK /\ "start" \in Steps
  BY DEF IInv, Steps
<1>3. auth' \in [Cluster -> BOOLEAN] /\ etcd' \in [Host -> BOOLEAN] /\ pc' \in [Host -> Steps]
      /\ \A g \in Host \ {h} : etcd'[g] = etcd[g]
  BY <1>1, <1>2, GotoType DEF TypeOK
<1>4. TypeOK'
  BY <1>1, <1>2, <1>3 DEF TypeOK
<1>5. NothingNew
  BY <1>1, SameTouches
<1>6. certs[h] \notin {None, Main} => path[h] = "demote" /\ data[h].cl = certs[h]
  BY <1>1, <1>2 DEF Local, Astray
<1> QED  BY <1>1, <1>2, <1>3, <1>4, <1>5, <1>6, MoveInv DEF Inside

LEMMA StartEmbeddedInv ==
  ASSUME IInv, NEW h \in Host, StartEmbedded(h)
  PROVE  IInv'
<1>1. pc[h] = "start" /\ UNCHANGED <<umode, gen, certs, key, data, store, job, budget, raced>>
  BY DEF StartEmbedded, disk
<1>2. Local(h) /\ TypeOK /\ "starting" \in Steps
  BY DEF IInv, Steps
<1>3. NothingNew
  BY <1>1, SameTouches DEF store
<1>4. CASE certs[h] = None
  <2>1. Fail(h)
    BY <1>4 DEF StartEmbedded
  <2>2. TypeOK'
    BY <1>1, <1>2, <2>1, FailType DEF TypeOK, store
  <2> QED  BY <1>1, <1>3, <2>1, <2>2, FailInv DEF store
<1>5. CASE certs[h] # None
  <2>1. etcd' = [etcd EXCEPT ![h] = TRUE] /\ Goto(h, "starting") /\ UNCHANGED <<path, ans>>
    BY <1>5 DEF StartEmbedded
  <2>2. etcd' \in [Host -> BOOLEAN] /\ pc' \in [Host -> Steps]
        /\ \A g \in Host \ {h} : etcd'[g] = etcd[g]
    BY <1>2, <2>1, GotoType DEF TypeOK
  <2>3. TypeOK'
    BY <1>1, <1>2, <2>1, <2>2 DEF TypeOK, store
  <2>4. certs[h] \notin {None, Main} => path[h] = "demote" /\ data[h].cl = certs[h]
    BY <1>1, <1>2 DEF Local, Astray
  <2> QED  BY <1>1, <1>2, <1>3, <1>5, <2>1, <2>2, <2>3, <2>4, MoveInv DEF Inside, store
<1> QED  BY <1>4, <1>5

\* The server of another cluster gets ready only on the way to a client.
LEMMA StartedInv ==
  ASSUME IInv, NEW h \in Host, Started(h)
  PROVE  IInv'
<1>1. /\ pc[h] = "starting" /\ Own(h)
      /\ UNCHANGED <<umode, gen, certs, key, data, path, etcd, ans, store, job, budget, raced>>
  BY DEF Started, disk
<1>2. Local(h) /\ TypeOK /\ {"list", "boot", "apart"} \subseteq Steps
  BY DEF IInv, Steps
<1>3. NothingNew
  BY <1>1, SameTouches DEF store
<1>4. certs[h] # None /\ (certs[h] # Main => path[h] = "demote" /\ data[h].cl = certs[h])
  BY <1>1, <1>2 DEF Local, Astray, Equipped
<1>7. data[h].cl \in Cluster
  BY <1>1, <1>2, HostType DEF Own, Answered, Accepted
<1>5. PICK q \in {"list", "boot", "apart"} :
          Goto(h, q) /\ (q # "list" => path[h] # "demote") /\ (q = "apart" => data[h].cl # certs[h])
  BY DEF Started
<1>6. TypeOK'
  BY <1>1, <1>2, <1>5, GotoType DEF TypeOK, store
<1> QED  BY <1>1, <1>2, <1>3, <1>4, <1>5, <1>6, <1>7, MoveInv DEF Inside, store

LEMMA StartFailsInv ==
  ASSUME IInv, NEW h \in Host, StartFails(h)
  PROVE  IInv'
<1> DEFINE c == data[h].cl
<1>1. /\ pc[h] = "starting" /\ Fail(h)
      /\ member' = member \/ (member[c][h] = "added" /\ data[h].live
                             /\ member' = [member EXCEPT ![c][h] = "learner"])
      /\ UNCHANGED <<umode, gen, certs, key, data, founded, auth, user, record, job, budget, raced>>
  BY DEF StartFails, disk
<1>2. TypeOK
  BY DEF IInv
<1>3. data[h].live => c \in Cluster
  <2>1. data[h] \in {NoData} \cup [cl : Cluster, live : BOOLEAN]
    BY <1>2 DEF TypeOK
  <2> QED  BY <2>1 DEF NoData
<1>4. /\ member' \in [Cluster -> [Host -> {"none", "added", "learner", "voter"}]]
      /\ \A d \in Cluster, g \in Host : member'[d][g] # "none" => member[d][g] # "none"
  <2>1. CASE member' = member
    BY <1>2, <2>1 DEF TypeOK
  <2>2. CASE member' # member
    BY <1>1, <1>2, <1>3, <2>2, MemberType
  <2> QED  BY <2>1, <2>2
<1>5. TypeOK'
  BY <1>1, <1>2, <1>4, FailType DEF TypeOK
<1>6. NothingNew
  BY <1>1, <1>4 DEF NothingNew, Touches
<1> QED  BY <1>1, <1>5, <1>6, FailInv

-----------------------------------------------------------------------------
(***************************************************************************)
(* JoinCluster                                                             *)
(***************************************************************************)

\* A host that serves answers with its own cluster, the main one.
LEMMA GetJoinOptionsInv ==
  ASSUME IInv, NEW h \in Host, NEW s \in Host, GetJoinOptions(h, s)
  PROVE  IInv'
<1> DEFINE c == certs[s]
           new == {[a EXCEPT !.key = "stale"] : a \in ans[h]} \cup {[cl |-> c, key |-> "good"]}
<1>1. /\ pc[s] = "serving"
      /\ user' = [user EXCEPT ![c] = @ \cup {h}]
      /\ key' = key \/ key' = [key EXCEPT ![h] = "stale"]
      /\ raced' = raced \/ raced' = raced \cup {h}
      /\ budget' = budget \/ Spend("trouble")
      /\ ans' = [ans EXCEPT ![h] = new]
      /\ UNCHANGED <<umode, gen, certs, data, pc, path, etcd, founded, member, auth, record, job>>
  BY DEF GetJoinOptions
<1>2. TypeOK /\ Local(h)
  BY DEF IInv
<1>3. c = Main /\ c \in Cluster /\ founded > 0
  BY <1>1, MainIsFounded DEF IInv, Local, InMain, Inside
<1>4. \A a \in new : a \in Answer /\ a.cl = Main
  <2>1. \A a \in ans[h] : a \in Answer /\ a.cl = Main
    BY <1>2 DEF TypeOK, Local, InMain
  <2>2. \A a \in ans[h] : /\ [a EXCEPT !.key = "stale"] \in Answer
                          /\ [a EXCEPT !.key = "stale"].cl = Main
    BY <2>1 DEF Answer
  <2>3. [cl |-> c, key |-> "good"] \in Answer
    BY <1>3 DEF Answer
  <2>4. [cl |-> c, key |-> "good"].cl = Main
    BY <1>3
  <2> QED
    <3> SUFFICES ASSUME NEW x \in new PROVE x \in Answer /\ x.cl = Main
      OBVIOUS
    <3>1. CASE x = [cl |-> c, key |-> "good"]
      BY <2>3, <2>4, <3>1, Zenon
    <3>2. CASE x \in {[a EXCEPT !.key = "stale"] : a \in ans[h]}
      <4>1. PICK a \in ans[h] : x = [a EXCEPT !.key = "stale"]
        BY <3>2
      <4> QED  BY <2>2, <4>1, Zenon
    <3> QED  BY <3>1, <3>2
<1> HIDE DEF new, c
<1>5. ans' \in [Host -> SUBSET Answer] /\ ans'[h] = new /\ \A g \in Host \ {h} : ans'[g] = ans[g]
  <2>1. new \in SUBSET Answer
    BY <1>4
  <2>2. ans \in [Host -> SUBSET Answer]
    BY <1>2 DEF TypeOK
  <2> QED  BY <1>1, <2>1, <2>2
<1>6. budget' \in Budget
  <2>1. CASE budget' = budget
    BY <1>2, <2>1 DEF TypeOK
  <2>2. CASE Spend("trouble")
    BY <1>2, <2>2, SpendType
  <2> QED  BY <1>1, <2>1, <2>2
<1>7. /\ key' \in [Host -> {"none", "good", "stale"}] /\ raced' \in SUBSET Host
      /\ user' \in [Cluster -> SUBSET Host]
  <2>1. /\ key \in [Host -> {"none", "good", "stale"}] /\ raced \in SUBSET Host
        /\ user \in [Cluster -> SUBSET Host]
    BY <1>2 DEF TypeOK
  <2>2. key' \in [Host -> {"none", "good", "stale"}]
    BY <1>1, <2>1
  <2>3. raced' \in SUBSET Host
    BY <1>1, <2>1
  <2>4. user' \in [Cluster -> SUBSET Host]
    BY <1>1, <2>1
  <2> QED  BY <2>2, <2>3, <2>4
<1>8. TypeOK'
  BY <1>1, <1>2, <1>5, <1>6, <1>7 DEF TypeOK
<1>9. NothingNew
  BY <1>1, SameTouches
<1>10. \A g \in Host \ {h} : Same(g)
  BY <1>1, <1>5 DEF Same
<1>11. Local(h)'
  BY <1>1, <1>2, <1>3, <1>4, <1>5 DEF Local, KnowsNothing, Founds, Astray, Equipped, Apart, InMain
<1> QED  BY <1>1, <1>8, <1>9, <1>10, <1>11, OneHostStep

LEMMA JoinInv ==
  ASSUME IInv, NEW h \in Host, Join(h)
  PROVE  IInv'
<1>1. PICK a \in ans[h] :
        /\ pc[h] \in {"preinit", "serving"}
        /\ ans' = [ans EXCEPT ![h] = @ \ {a}]
        /\ IF pc[h] = "preinit" /\ ~IsInitialized(h)
           THEN /\ WriteHostCredentials(h, a.cl, a.key)
                /\ Goto(h, "creds")
                /\ path' = [path EXCEPT ![h] = "join"]
           ELSE UNCHANGED <<gen, certs, key, pc, path>>
        /\ UNCHANGED <<umode, data, etcd, store, job, budget, raced>>
  BY DEF Join
<1>2. TypeOK /\ Local(h) /\ "creds" \in Steps
  BY DEF IInv, Steps
<1>3. a \in Answer /\ a.cl = Main /\ founded > 0 /\ Main \in Cluster
  BY <1>2, MainIsCluster DEF TypeOK, Local, InMain, KnowsNothing
<1>4. /\ ans' \in [Host -> SUBSET Answer] /\ ans'[h] \subseteq ans[h]
      /\ \A g \in Host \ {h} : ans'[g] = ans[g]
  BY <1>1, <1>2 DEF TypeOK
<1>5. CASE pc[h] = "preinit" /\ ~IsInitialized(h)
  <2>1. /\ certs' = [certs EXCEPT ![h] = Main] /\ key' = [key EXCEPT ![h] = a.key]
        /\ gen' = [gen EXCEPT ![h].mode = umode[h]]
        /\ Goto(h, "creds") /\ path' = [path EXCEPT ![h] = "join"]
    BY <1>1, <1>3, <1>5 DEF WriteHostCredentials
  <2>2. /\ gen' \in [Host -> [mode : {"", "server", "client"}, eps : SUBSET Host]]
        /\ \A g \in Host \ {h} : gen'[g] = gen[g]
    BY <1>2, <2>1, GenMode, HostType
  <2>3. certs' \in [Host -> {None} \cup Cluster] /\ key' \in [Host -> {"none", "good", "stale"}]
    BY <1>2, <1>3, <2>1 DEF TypeOK, Answer
  <2>4. path' \in [Host -> {"plain", "init", "join", "demote", "promote"}]
    BY <1>2, <2>1 DEF TypeOK
  <2>5. /\ certs'[h] = Main /\ path'[h] = "join"
        /\ \A g \in Host \ {h} : certs'[g] = certs[g] /\ path'[g] = path[g]
    BY <1>2, <2>1 DEF TypeOK
  <2>6. pc' \in [Host -> Steps] /\ pc'[h] = "creds" /\ \A g \in Host \ {h} : pc'[g] = pc[g]
    BY <1>2, <2>1, GotoType
  <2>7. TypeOK'
    BY <1>1, <1>2, <1>4, <2>2, <2>3, <2>4, <2>6 DEF TypeOK, store
  <2>8. \A g \in Host \ {h} : Same(g)
    BY <1>1, <1>4, <2>2, <2>5, <2>6 DEF Same
  <2>9. NothingNew
    BY <1>1, <1>3, <2>5 DEF NothingNew, Touches, store
  <2>10. Local(h)'
    BY <1>1, <1>2, <1>3, <1>4, <2>5, <2>6
    DEF Local, KnowsNothing, Founds, Astray, Equipped, Apart, InMain, store
  <2> QED  BY <1>1, <2>7, <2>8, <2>9, <2>10, OneHostStep DEF store
<1>6. CASE ~(pc[h] = "preinit" /\ ~IsInitialized(h))
  <2>1. UNCHANGED <<gen, certs, key, pc, path>>
    BY <1>1, <1>6
  <2>2. TypeOK'
    BY <1>1, <1>2, <1>4, <2>1 DEF TypeOK, store
  <2>3. \A g \in Host \ {h} : Same(g)
    BY <1>1, <1>4, <2>1 DEF Same
  <2>4. NothingNew
    BY <1>1, <2>1, SameTouches DEF store
  <2>5. Local(h)'
    BY <1>1, <1>2, <1>4, <2>1 DEF Local, KnowsNothing, Founds, Astray, Equipped, Apart, InMain, store
  <2> QED  BY <1>1, <2>2, <2>3, <2>4, <2>5, OneHostStep DEF store
<1> QED  BY <1>5, <1>6

LEMMA JoinRemoteInv ==
  ASSUME IInv, NEW h \in Host, JoinRemote(h)
  PROVE  IInv'
<1>1. pc[h] = "creds" /\ UNCHANGED <<umode, certs, key, data, store, job, budget, raced>>
  BY DEF JoinRemote
<1>2. TypeOK /\ Local(h) /\ "boot" \in Steps
  BY DEF IInv, Steps
<1>3. certs[h] = Main /\ founded > 0
  BY <1>1, <1>2, MainIsFounded DEF Local, InMain, Inside
<1>4. NothingNew
  BY <1>1, SameTouches DEF store
<1>5. CASE Answered(h, certs[h], Host)
  <2>1. /\ gen' = [gen EXCEPT ![h].eps = Endpoints(certs[h])]
        /\ Goto(h, "boot") /\ UNCHANGED <<path, etcd, ans>>
    BY <1>5 DEF JoinRemote
  <2>2. Endpoints(certs[h]) \in SUBSET Host
    BY DEF Endpoints, Voters
  <2>3. /\ gen' \in [Host -> [mode : {"", "server", "client"}, eps : SUBSET Host]]
        /\ \A g \in Host \ {h} : gen'[g] = gen[g]
    BY <1>2, <2>1, <2>2, GenEndpoints
  <2>4. TypeOK'
    BY <1>1, <1>2, <2>1, <2>3, GotoType DEF TypeOK, store
  <2> QED  BY <1>1, <1>2, <1>3, <1>4, <2>1, <2>3, <2>4, MoveInv DEF store
<1>6. CASE ~Answered(h, certs[h], Host)
  <2>1. Fail(h) /\ gen' = gen
    BY <1>6 DEF JoinRemote
  <2>2. TypeOK'
    BY <1>1, <1>2, <2>1, FailType DEF TypeOK, store
  <2> QED  BY <1>1, <1>4, <2>1, <2>2, FailInv DEF store
<1> QED  BY <1>5, <1>6

\* A change of the members of the main cluster.
LEMMA MainMembers ==
  ASSUME IInv, NEW h \in Host, certs[h] = Main, NEW v \in {"none", "added", "learner", "voter"},
         member' = [member EXCEPT ![certs[h]][h] = v], certs' = certs,
         \A g \in Host : data'[g].cl = data[g].cl \/ data'[g].cl = Main
  PROVE  /\ member' \in [Cluster -> [Host -> {"none", "added", "learner", "voter"}]]
         /\ NothingNew
<1>1. /\ member' \in [Cluster -> [Host -> {"none", "added", "learner", "voter"}]]
      /\ \A d \in Cluster, g \in Host : d # Main \/ g # h => member'[d][g] = member[d][g]
  <2>1. /\ member \in [Cluster -> [Host -> {"none", "added", "learner", "voter"}]]
        /\ Main \in Cluster /\ member' = [member EXCEPT ![Main][h] = v]
    BY MainIsCluster DEF IInv, TypeOK
  <2> QED  BY <2>1
<1>2. founded > 0
  BY MainIsFounded
<1> QED  BY <1>1, <1>2 DEF NothingNew, Touches

LEMMA AddLearnerInv ==
  ASSUME IInv, NEW h \in Host, AddLearner(h)
  PROVE  IInv'
<1>1. /\ pc[h] = "creds"
      /\ UNCHANGED <<umode, gen, certs, key, data, founded, auth, user, record, job, budget>>
  BY DEF AddLearner, disk
<1>2. TypeOK /\ Local(h) /\ "added" \in Steps
  BY DEF IInv, Steps
<1>3. certs[h] = Main
  BY <1>1, <1>2 DEF Local, InMain, Inside
<1>4. CASE CanAdd(h, certs[h])
  <2>1. /\ member' = [member EXCEPT ![certs[h]][h] = "added"]
        /\ Goto(h, "added") /\ (raced' = raced \/ raced' = raced \cup {h})
        /\ UNCHANGED <<path, etcd, ans>>
    BY <1>4 DEF AddLearner
  <2>2. /\ member' \in [Cluster -> [Host -> {"none", "added", "learner", "voter"}]]
        /\ NothingNew
    BY <1>1, <1>3, <2>1, MainMembers
  <2>3. raced' \in SUBSET Host /\ pc' \in [Host -> Steps]
    BY <1>2, <2>1, GotoType DEF TypeOK
  <2>4. TypeOK'
    BY <1>1, <1>2, <2>1, <2>2, <2>3 DEF TypeOK
  <2> QED  BY <1>1, <1>2, <1>3, <2>1, <2>2, <2>4, MoveInv
<1>5. CASE ~CanAdd(h, certs[h])
  <2>1. Fail(h) /\ UNCHANGED <<member, raced>>
    BY <1>5 DEF AddLearner
  <2>2. TypeOK'
    BY <1>1, <1>2, <2>1, FailType DEF TypeOK
  <2>3. NothingNew
    BY <1>1, <2>1, SameTouches
  <2> QED  BY <1>1, <2>1, <2>2, <2>3, FailInv
<1> QED  BY <1>4, <1>5

\* The data directory of a new member of the main cluster.
LEMMA MainData ==
  ASSUME IInv, NEW h \in Host, certs[h] = Main,
         data' = [data EXCEPT ![h] = [cl |-> certs[h], live |-> TRUE]]
  PROVE  /\ data' \in [Host -> {NoData} \cup [cl : Cluster, live : BOOLEAN]]
         /\ data'[h].cl = Main
         /\ \A g \in Host \ {h} : data'[g].cl = data[g].cl
<1>1. [cl |-> certs[h], live |-> TRUE] \in [cl : Cluster, live : BOOLEAN]
  BY MainIsCluster
<1> QED  BY <1>1 DEF IInv, TypeOK

LEMMA StartLearnerInv ==
  ASSUME IInv, NEW h \in Host, StartLearner(h)
  PROVE  IInv'
<1>1. /\ pc[h] = "added"
      /\ data' = [data EXCEPT ![h] = [cl |-> certs[h], live |-> TRUE]]
      /\ etcd' = [etcd EXCEPT ![h] = TRUE]
      /\ member' = [member EXCEPT ![certs[h]][h] = "learner"]
      /\ Goto(h, "learner")
      /\ UNCHANGED <<umode, gen, certs, key, path, ans, founded, auth, user, record, job,
                     budget, raced>>
  BY DEF StartLearner
<1>2. TypeOK /\ Local(h) /\ "learner" \in Steps
  BY DEF IInv, Steps
<1>3. certs[h] = Main
  BY <1>1, <1>2 DEF Local, InMain, Inside
<1>4. /\ data' \in [Host -> {NoData} \cup [cl : Cluster, live : BOOLEAN]]
      /\ data'[h].cl = Main /\ \A g \in Host \ {h} : data'[g].cl = data[g].cl
  BY <1>1, <1>3, MainData
<1>5. /\ member' \in [Cluster -> [Host -> {"none", "added", "learner", "voter"}]]
      /\ NothingNew
  BY <1>1, <1>3, <1>4, MainMembers
<1>6. /\ etcd' \in [Host -> BOOLEAN] /\ pc' \in [Host -> Steps]
      /\ \A g \in Host \ {h} : etcd'[g] = etcd[g]
  BY <1>1, <1>2, GotoType DEF TypeOK
<1>7. TypeOK'
  BY <1>1, <1>2, <1>4, <1>5, <1>6 DEF TypeOK
<1> QED  BY <1>1, <1>2, <1>3, <1>4, <1>5, <1>6, <1>7, MoveInv

LEMMA StartLearnerFailsInv ==
  ASSUME IInv, NEW h \in Host, StartLearnerFails(h)
  PROVE  IInv'
<1>1. /\ pc[h] = "added" /\ Spend("trouble")
      /\ data' = [data EXCEPT ![h] = [cl |-> certs[h], live |-> TRUE]]
      /\ Fail(h)
      /\ UNCHANGED <<umode, gen, certs, key, store, job, raced>>
  BY DEF StartLearnerFails
<1>2. TypeOK /\ Local(h)
  BY DEF IInv
<1>3. certs[h] = Main /\ founded > 0
  BY <1>1, <1>2, MainIsFounded DEF Local, InMain, Inside
<1>4. /\ data' \in [Host -> {NoData} \cup [cl : Cluster, live : BOOLEAN]]
      /\ data'[h].cl = Main /\ \A g \in Host \ {h} : data'[g].cl = data[g].cl
  BY <1>1, <1>3, MainData
<1>5. budget' \in Budget
  BY <1>1, <1>2, SpendType
<1>6. TypeOK'
  BY <1>1, <1>2, <1>4, <1>5, FailType DEF TypeOK, store
<1>7. NothingNew
  BY <1>1, <1>3, <1>4 DEF NothingNew, Touches, store
<1> QED  BY <1>1, <1>4, <1>6, <1>7, FailInv DEF store

LEMMA PromoteInv ==
  ASSUME IInv, NEW h \in Host, Promote(h)
  PROVE  IInv'
<1>1. /\ pc[h] = "learner" /\ member' = [member EXCEPT ![certs[h]][h] = "voter"]
      /\ Goto(h, "promoted")
      /\ UNCHANGED <<umode, gen, certs, key, data, path, etcd, ans, founded, auth, user,
                     record, job, budget, raced>>
  BY DEF Promote, disk
<1>2. TypeOK /\ Local(h) /\ "promoted" \in Steps
  BY DEF IInv, Steps
<1>3. certs[h] = Main
  BY <1>1, <1>2 DEF Local, InMain, Inside
<1>4. /\ member' \in [Cluster -> [Host -> {"none", "added", "learner", "voter"}]]
      /\ NothingNew
  BY <1>1, <1>3, MainMembers
<1>5. TypeOK'
  BY <1>1, <1>2, <1>4, GotoType DEF TypeOK
<1> QED  BY <1>1, <1>2, <1>3, <1>4, <1>5, MoveInv

LEMMA PromoteFailsInv ==
  ASSUME IInv, NEW h \in Host, PromoteFails(h)
  PROVE  IInv'
<1>1. /\ pc[h] = "learner" /\ Fail(h)
      /\ \/ Spend("trouble") /\ MemberRemove(h, certs[h])
         \/ UNCHANGED <<member, data, budget>>
      /\ UNCHANGED <<umode, gen, certs, key, founded, auth, user, record, job, raced>>
  BY DEF PromoteFails
<1>2. TypeOK /\ Local(h)
  BY DEF IInv
<1>3. certs[h] \in Cluster
  BY <1>1, <1>2, MainIsCluster DEF Local, InMain, Inside
<1>4. /\ member' \in [Cluster -> [Host -> {"none", "added", "learner", "voter"}]]
      /\ data' \in [Host -> {NoData} \cup [cl : Cluster, live : BOOLEAN]]
      /\ budget' \in Budget
      /\ \A g \in Host : data'[g].cl = data[g].cl
      /\ NothingNew
  <2>1. CASE Spend("trouble") /\ MemberRemove(h, certs[h])
    BY <1>1, <1>2, <1>3, <2>1, MemberRemoveType, SpendType
  <2>2. CASE UNCHANGED <<member, data, budget>>
    BY <1>1, <1>2, <2>2, SameTouches DEF TypeOK
  <2> QED  BY <1>1, <2>1, <2>2
<1>5. TypeOK'
  BY <1>1, <1>2, <1>4, FailType DEF TypeOK
<1> QED  BY <1>1, <1>4, <1>5, FailInv

LEMMA JoinedInv ==
  ASSUME IInv, NEW h \in Host, Joined(h)
  PROVE  IInv'
<1>1. /\ pc[h] = "promoted"
      /\ gen' = gen \/ gen' = [gen EXCEPT ![h] = [mode |-> "server", eps |-> {}]]
      /\ Goto(h, "boot")
      /\ UNCHANGED <<umode, certs, key, data, path, etcd, ans, store, job, budget, raced>>
  BY DEF Joined
<1>2. TypeOK /\ Local(h) /\ "boot" \in Steps
  BY DEF IInv, Steps
<1>3. certs[h] = Main /\ founded > 0
  BY <1>1, <1>2, MainIsFounded DEF Local, InMain, Inside
<1>4. /\ gen' \in [Host -> [mode : {"", "server", "client"}, eps : SUBSET Host]]
      /\ \A g \in Host \ {h} : gen'[g] = gen[g]
  <2> DEFINE G == [mode |-> "server", eps |-> {}]
  <2>1. /\ gen \in [Host -> [mode : {"", "server", "client"}, eps : SUBSET Host]]
        /\ G \in [mode : {"", "server", "client"}, eps : SUBSET Host]
    BY <1>2 DEF TypeOK
  <2>2. gen' = gen \/ gen' = [gen EXCEPT ![h] = G]
    BY <1>1
  <2> HIDE DEF G
  <2>3. CASE gen' = gen
    BY <2>1, <2>3
  <2>4. CASE gen' = [gen EXCEPT ![h] = G]
    BY <2>1, <2>4
  <2> QED  BY <2>2, <2>3, <2>4
<1>5. TypeOK'
  BY <1>1, <1>2, <1>4, GotoType DEF TypeOK, store
<1>6. NothingNew
  BY <1>1, SameTouches DEF store
<1> QED  BY <1>1, <1>2, <1>3, <1>4, <1>5, <1>6, MoveInv DEF store

LEMMA JoinedFailsInv ==
  ASSUME IInv, NEW h \in Host, JoinedFails(h)
  PROVE  IInv'
<1>1. /\ pc[h] = "promoted" /\ Fail(h) /\ (budget' = budget \/ Spend("trouble"))
      /\ UNCHANGED <<umode, gen, certs, key, data, store, job, raced>>
  BY DEF JoinedFails, disk
<1>2. TypeOK
  BY DEF IInv
<1>3. budget' \in Budget
  <2>1. CASE budget' = budget
    BY <1>2, <2>1 DEF TypeOK
  <2>2. CASE Spend("trouble")
    BY <1>2, <2>2, SpendType
  <2> QED  BY <1>1, <2>1, <2>2
<1>4. TypeOK'
  BY <1>1, <1>2, <1>3, FailType DEF TypeOK, store
<1>5. NothingNew
  BY <1>1, SameTouches DEF store
<1> QED  BY <1>1, <1>4, <1>5, FailInv DEF store

-----------------------------------------------------------------------------
(***************************************************************************)
(* The two changes of mode                                                 *)
(***************************************************************************)

LEMMA ConnectInv ==
  ASSUME IInv, NEW h \in Host, Connect(h)
  PROVE  IInv'
<1>1. /\ pc[h] = "connect" /\ Answered(h, certs[h], gen[h].eps)
      /\ UNCHANGED <<umode, certs, key, data, store, job, budget, raced>>
  BY DEF Connect
<1>2. TypeOK /\ Local(h) /\ {"boot", "creds"} \subseteq Steps
  BY DEF IInv, Steps
<1>3. certs[h] = Main
  BY <1>1, AnsweredByMain
<1>4. founded > 0 /\ Endpoints(certs[h]) \in SUBSET Host
  BY <1>3, MainIsFounded DEF Endpoints, Voters
<1>5. NothingNew
  BY <1>1, SameTouches DEF store
<1>6. CASE path[h] = "plain"
  <2>1. Goto(h, "boot") /\ UNCHANGED <<gen, path, etcd, ans>>
    BY <1>6 DEF Connect
  <2>2. TypeOK'
    BY <1>1, <1>2, <2>1, GotoType DEF TypeOK, store
  <2> QED  BY <1>1, <1>2, <1>3, <1>5, <2>1, <2>2, MoveInv DEF store
<1>7. CASE path[h] # "plain" /\ data[h] # NoData
  <2>1. Exit(h) /\ gen' = [gen EXCEPT ![h].eps = Endpoints(certs[h])]
    BY <1>7 DEF Connect
  <2>2. /\ gen' \in [Host -> [mode : {"", "server", "client"}, eps : SUBSET Host]]
        /\ \A g \in Host \ {h} : gen'[g] = gen[g]
    BY <1>2, <1>4, <2>1, GenEndpoints
  <2>3. TypeOK'
    BY <1>1, <1>2, <2>1, <2>2, ExitType DEF TypeOK, store
  <2>4. Local(h)'
    BY <1>1, <1>3, <1>4, <2>1, ExitLocal DEF store
  <2>5. \A g \in Host \ {h} : Same(g)
    BY <1>1, <1>2, <2>1, <2>2, ExitType DEF Same
  <2> QED  BY <1>1, <1>5, <2>3, <2>4, <2>5, OneHostStep DEF store
<1>8. CASE path[h] # "plain" /\ data[h] = NoData
  <2>1. /\ gen' = [gen EXCEPT ![h] = [mode |-> umode[h], eps |-> Endpoints(certs[h])]]
        /\ Goto(h, "creds") /\ UNCHANGED <<path, etcd, ans>>
    BY <1>8 DEF Connect
  <2>2. /\ gen' \in [Host -> [mode : {"", "server", "client"}, eps : SUBSET Host]]
        /\ \A g \in Host \ {h} : gen'[g] = gen[g]
    <3>1. [mode |-> umode[h], eps |-> Endpoints(certs[h])]
            \in [mode : {"", "server", "client"}, eps : SUBSET Host]
      BY <1>2, <1>4, HostType
    <3>2. gen \in [Host -> [mode : {"", "server", "client"}, eps : SUBSET Host]]
      BY <1>2 DEF TypeOK
    <3> QED  BY <2>1, <3>1, <3>2
  <2>3. TypeOK'
    BY <1>1, <1>2, <2>1, <2>2, GotoType DEF TypeOK, store
  <2> QED  BY <1>1, <1>2, <1>3, <1>4, <1>5, <2>1, <2>2, <2>3, MoveInv DEF store
<1> QED  BY <1>6, <1>7, <1>8

\* The founder of another cluster finds no other member, and ends.
LEMMA ListInv ==
  ASSUME IInv, NEW h \in Host, List(h)
  PROVE  IInv'
<1> DEFINE others == {g \in Members(data[h].cl) : member[data[h].cl][g] # "added"} \ {h}
<1>1. /\ pc[h] = "list"
      /\ UNCHANGED <<umode, certs, key, data, store, job, budget, raced>>
  BY DEF List
<1>2. TypeOK /\ "alone" \in Steps /\ others \in SUBSET Host
  BY DEF IInv, Steps, Members
<1>3. CASE Own(h) /\ others # {}
  <2>1. /\ gen' = [gen EXCEPT ![h].eps = others] /\ etcd' = [etcd EXCEPT ![h] = FALSE]
        /\ Goto(h, "alone") /\ UNCHANGED <<path, ans>>
    BY <1>3 DEF List
  <2>2. PICK g \in Host \ {h} : g \in Members(data[h].cl)
    BY <1>3 DEF Members
  <2>3. certs[h] = Main
    BY <1>1, <1>3, <2>2, SecondMemberOfMain
  <2>4. founded > 0
    BY <2>3, MainIsFounded
  <2> HIDE DEF others
  <2>5. /\ gen' \in [Host -> [mode : {"", "server", "client"}, eps : SUBSET Host]]
        /\ \A f \in Host \ {h} : gen'[f] = gen[f]
    BY <1>2, <2>1, GenEndpoints
  <2>6. etcd' \in [Host -> BOOLEAN] /\ pc' \in [Host -> Steps]
        /\ \A f \in Host \ {h} : etcd'[f] = etcd[f]
    BY <1>2, <2>1, GotoType DEF TypeOK
  <2>7. TypeOK'
    BY <1>1, <1>2, <2>1, <2>5, <2>6 DEF TypeOK, store
  <2>8. NothingNew
    BY <1>1, SameTouches DEF store
  <2> QED  BY <1>1, <1>2, <2>1, <2>3, <2>4, <2>5, <2>6, <2>7, <2>8, MoveInv DEF store
<1>4. CASE ~(Own(h) /\ others # {})
  <2>1. Exit(h) /\ gen' = gen
    BY <1>4 DEF List
  <2> QED  BY <1>1, <1>2, <2>1, ExitInv DEF disk, TypeOK
<1> QED  BY <1>3, <1>4

LEMMA LeaveListInv ==
  ASSUME IInv, NEW h \in Host, LeaveList(h)
  PROVE  IInv'
<1>1. /\ pc[h] = "alone"
      /\ UNCHANGED <<umode, gen, certs, key, data, store, job, budget, raced>>
  BY DEF LeaveList, disk
<1>2. TypeOK /\ Local(h) /\ {"left", "leaving"} \subseteq Steps
  BY DEF IInv, Steps
<1>3. certs[h] = Main
  BY <1>1, <1>2 DEF Local, InMain, Inside
<1>4. CASE Exit(h)
  BY <1>1, <1>2, <1>4, ExitInv DEF disk, TypeOK
<1>5. CASE ~Exit(h)
  <2>1. PICK q \in {"left", "leaving"} : Goto(h, q) /\ UNCHANGED <<path, etcd, ans>>
    BY <1>5 DEF LeaveList
  <2>2. TypeOK'
    BY <1>1, <1>2, <2>1, GotoType DEF TypeOK, store
  <2>3. NothingNew
    BY <1>1, SameTouches DEF store
  <2> QED  BY <1>1, <1>2, <1>3, <2>1, <2>2, <2>3, MoveInv DEF store
<1> QED  BY <1>4, <1>5

LEMMA LeaveInv ==
  ASSUME IInv, NEW h \in Host, Leave(h)
  PROVE  IInv'
<1>1. /\ pc[h] = "leaving"
      /\ UNCHANGED <<umode, gen, certs, key, founded, auth, user, record, job, budget, raced>>
  BY DEF Leave
<1>2. TypeOK /\ Local(h) /\ "left" \in Steps
  BY DEF IInv, Steps
<1>3. certs[h] = Main /\ certs[h] \in Cluster
  BY <1>1, <1>2, MainIsCluster DEF Local, InMain, Inside
<1>4. CASE MemberRemove(h, certs[h]) /\ Goto(h, "left") /\ UNCHANGED <<path, etcd, ans>>
  <2>1. /\ member' \in [Cluster -> [Host -> {"none", "added", "learner", "voter"}]]
        /\ data' \in [Host -> {NoData} \cup [cl : Cluster, live : BOOLEAN]]
        /\ \A g \in Host : data'[g].cl = data[g].cl
        /\ NothingNew
    BY <1>1, <1>2, <1>3, <1>4, MemberRemoveType
  <2>2. TypeOK'
    BY <1>1, <1>2, <1>4, <2>1, GotoType DEF TypeOK
  <2> QED  BY <1>1, <1>2, <1>3, <1>4, <2>1, <2>2, MoveInv
<1>5. CASE Exit(h) /\ UNCHANGED <<member, data>>
  BY <1>1, <1>2, <1>5, ExitInv DEF disk, store, TypeOK
<1> QED  BY <1>4, <1>5 DEF Leave

LEMMA WipeInv ==
  ASSUME IInv, NEW h \in Host, Wipe(h)
  PROVE  IInv'
<1>1. /\ pc[h] = "left" /\ data' = [data EXCEPT ![h] = NoData] /\ Goto(h, "wiped")
      /\ UNCHANGED <<umode, gen, certs, key, path, etcd, ans, store, job, budget, raced>>
  BY DEF Wipe
<1>2. TypeOK /\ Local(h) /\ "wiped" \in Steps
  BY DEF IInv, Steps
<1>3. certs[h] = Main
  BY <1>1, <1>2 DEF Local, InMain, Inside
<1>4. /\ data' \in [Host -> {NoData} \cup [cl : Cluster, live : BOOLEAN]]
      /\ data'[h].cl = None /\ \A g \in Host \ {h} : data'[g].cl = data[g].cl
  BY <1>1, <1>2 DEF TypeOK, NoData
<1>5. TypeOK'
  BY <1>1, <1>2, <1>4, GotoType DEF TypeOK, store
<1>6. NothingNew
  BY <1>1, <1>4, MainIsCluster DEF NothingNew, Touches, store
<1> QED  BY <1>1, <1>2, <1>3, <1>4, <1>5, <1>6, MoveInv DEF store

LEMMA DemotedInv ==
  ASSUME IInv, NEW h \in Host, Demoted(h)
  PROVE  IInv'
<1>1. /\ pc[h] = "wiped" /\ gen' = [gen EXCEPT ![h].mode = "client"] /\ Goto(h, "boot")
      /\ UNCHANGED <<umode, certs, key, data, path, etcd, ans, store, job, budget, raced>>
  BY DEF Demoted
<1>2. TypeOK /\ Local(h) /\ "boot" \in Steps
  BY DEF IInv, Steps
<1>3. certs[h] = Main /\ founded > 0
  BY <1>1, <1>2, MainIsFounded DEF Local, InMain, Inside
<1>4. /\ gen' \in [Host -> [mode : {"", "server", "client"}, eps : SUBSET Host]]
      /\ \A g \in Host \ {h} : gen'[g] = gen[g]
  BY <1>1, <1>2, GenMode
<1>5. TypeOK'
  BY <1>1, <1>2, <1>4, GotoType DEF TypeOK, store
<1>6. NothingNew
  BY <1>1, SameTouches DEF store
<1> QED  BY <1>1, <1>2, <1>3, <1>4, <1>5, <1>6, MoveInv DEF store

-----------------------------------------------------------------------------
(***************************************************************************)
(* A host that serves, the operator, and remove-host                       *)
(***************************************************************************)

LEMMA BootInv ==
  ASSUME IInv, NEW h \in Host, Boot(h)
  PROVE  IInv'
<1>1. /\ pc[h] = "boot" /\ Goto(h, "serving")
      /\ record' = [record EXCEPT ![certs[h]][h] = umode[h]]
      /\ UNCHANGED <<umode, gen, certs, key, data, path, etcd, ans, founded, member, auth,
                     user, job, budget, raced>>
  BY DEF Boot, disk
<1>2. TypeOK /\ Local(h) /\ "serving" \in Steps
  BY DEF IInv, Steps
<1>3. certs[h] = Main
  BY <1>1, <1>2 DEF Local, InMain, Inside
<1>4. record' \in [Cluster -> [Host -> {"none", "server", "client"}]]
  BY <1>1, <1>2 DEF TypeOK
<1>5. TypeOK'
  BY <1>1, <1>2, <1>4, GotoType DEF TypeOK
<1>6. NothingNew
  BY <1>1, SameTouches
<1> QED  BY <1>1, <1>2, <1>3, <1>5, <1>6, MoveInv

\* The ways in which a process ends with its disk as it is.
LEMMA EndsInv ==
  ASSUME IInv, NEW h \in Host,
         \/ ConnectFails(h) \/ BootFails(h) \/ Restart(h)
         \/ Expelled(h) \/ Crash(h) \/ Timeout(h)
  PROVE  IInv'
<1>1. Exit(h) /\ UNCHANGED <<umode, disk, store, raced>>
  BY DEF ConnectFails, BootFails, Restart, Expelled, Crash, Timeout
<1>2. job' = job \/ Interrupt(h)
  BY DEF ConnectFails, BootFails, Restart, Expelled, Crash, Timeout
<1>3. budget' = budget \/ Spend("trouble")
  BY DEF ConnectFails, BootFails, Restart, Expelled, Crash, Timeout
<1>4. TypeOK
  BY DEF IInv
<1>5. job' \in [Removal -> {NoJob} \cup Job]
  BY <1>2, <1>4, InterruptType DEF TypeOK
<1>6. budget' \in Budget
  <2>1. CASE budget' = budget
    BY <1>4, <2>1 DEF TypeOK
  <2>2. CASE Spend("trouble")
    BY <1>4, <2>2, SpendType
  <2> QED  BY <1>3, <2>1, <2>2
<1>7. umode' \in [Host -> {"server", "client"}]
  BY <1>1, <1>4 DEF TypeOK
<1> QED  BY <1>1, <1>5, <1>6, <1>7, ExitInv

LEMMA ReconfigureInv ==
  ASSUME IInv, NEW h \in Host, Reconfigure(h)
  PROVE  IInv'
<1>1. /\ gen[h].mode # "" /\ Spend("mode")
      /\ umode' = [umode EXCEPT ![h] = IF @ = "server" THEN "client" ELSE "server"]
      /\ gen' = gen \/ (pc[h] = "serving" /\ gen' = [gen EXCEPT ![h].eps = Endpoints(certs[h])])
      /\ Exit(h) /\ Interrupt(h)
      /\ UNCHANGED <<certs, key, data, store, raced>>
  BY DEF Reconfigure
<1>2. TypeOK /\ Local(h)
  BY DEF IInv
<1>3. /\ gen' \in [Host -> [mode : {"", "server", "client"}, eps : SUBSET Host]]
      /\ gen'[h].mode = gen[h].mode /\ \A g \in Host \ {h} : gen'[g] = gen[g]
  <2>1. CASE gen' = gen
    <3>1. gen \in [Host -> [mode : {"", "server", "client"}, eps : SUBSET Host]]
      BY <1>2 DEF TypeOK
    <3> QED  BY <2>1, <3>1
  <2>2. CASE gen' = [gen EXCEPT ![h].eps = Endpoints(certs[h])]
    <3>1. Endpoints(certs[h]) \in SUBSET Host
      BY DEF Endpoints, Voters
    <3> QED  BY <1>2, <2>2, <3>1, GenEndpoints
  <2> QED  BY <1>1, <2>1, <2>2
<1>4. /\ umode' \in [Host -> {"server", "client"}]
      /\ \A g \in Host \ {h} : umode'[g] = umode[g]
  BY <1>1, <1>2 DEF TypeOK
<1>5. job' \in [Removal -> {NoJob} \cup Job]
  BY <1>1, <1>2, InterruptType
<1>6. budget' \in Budget
  BY <1>1, <1>2, SpendType
<1>7. TypeOK'
  BY <1>1, <1>2, <1>3, <1>4, <1>5, <1>6, ExitType DEF TypeOK, store
<1>8. founded > 0
  BY <1>1, <1>2, HostType DEF Local, KnowsNothing
<1>9. Local(h)'
  BY <1>1, <1>3, <1>8, ExitLocal DEF store
<1>10. \A g \in Host \ {h} : Same(g)
  BY <1>1, <1>2, <1>3, <1>4, ExitType DEF Same
<1>11. NothingNew
  BY <1>1, SameTouches DEF store
<1> QED  BY <1>1, <1>7, <1>9, <1>10, <1>11, OneHostStep DEF store

LEMMA ClearDataDirInv ==
  ASSUME IInv, NEW h \in Host, ClearDataDir(h)
  PROVE  IInv'
<1>1. /\ gen' = [gen EXCEPT ![h] = NoGen] /\ certs' = [certs EXCEPT ![h] = None]
      /\ key' = [key EXCEPT ![h] = "none"] /\ data' = [data EXCEPT ![h] = NoData]
      /\ Exit(h) /\ Interrupt(h)
      /\ UNCHANGED <<umode, store, budget, raced>>
  BY DEF ClearDataDir
<1>2. TypeOK
  BY DEF IInv
<1>3. /\ gen' \in [Host -> [mode : {"", "server", "client"}, eps : SUBSET Host]]
      /\ gen'[h] = NoGen /\ \A g \in Host \ {h} : gen'[g] = gen[g]
  <2>1. NoGen \in [mode : {"", "server", "client"}, eps : SUBSET Host]
    BY DEF NoGen
  <2>2. gen \in [Host -> [mode : {"", "server", "client"}, eps : SUBSET Host]]
    BY <1>2 DEF TypeOK
  <2> QED  BY <1>1, <2>1, <2>2
<1>4. /\ certs' \in [Host -> {None} \cup Cluster] /\ key' \in [Host -> {"none", "good", "stale"}]
      /\ certs'[h] = None /\ \A g \in Host \ {h} : certs'[g] = certs[g]
  BY <1>1, <1>2 DEF TypeOK
<1>5. /\ data' \in [Host -> {NoData} \cup [cl : Cluster, live : BOOLEAN]]
      /\ data'[h].cl = None /\ \A g \in Host \ {h} : data'[g].cl = data[g].cl
  BY <1>1, <1>2 DEF TypeOK, NoData
<1>6. job' \in [Removal -> {NoJob} \cup Job]
  BY <1>1, <1>2, InterruptType
<1>7. TypeOK'
  BY <1>1, <1>2, <1>3, <1>4, <1>5, <1>6, ExitType DEF TypeOK, store
<1>8. Local(h)'
  BY <1>1, <1>3, <1>4, ExitLocal DEF store
<1>9. \A g \in Host \ {h} : Same(g)
  <2>1. \A g \in Host \ {h} : /\ pc'[g] = pc[g] /\ path'[g] = path[g]
                              /\ etcd'[g] = etcd[g] /\ ans'[g] = ans[g]
    BY <1>1, <1>2, ExitType
  <2> QED  BY <1>1, <1>3, <1>4, <1>5, <2>1 DEF Same
<1>10. NothingNew
  BY <1>1, <1>4, <1>5, MainIsCluster DEF NothingNew, Touches, store
<1> QED  BY <1>1, <1>7, <1>8, <1>9, <1>10, OneHostStep DEF store

\* What the removal of a host does not touch.
LEMMA NoHostStep ==
  ASSUME IInv, TypeOK', UNCHANGED <<umode, gen, certs, pc, path, etcd, ans, founded>>,
         \A g \in Host : data'[g].cl = data[g].cl, NothingNew
  PROVE  IInv'
<1>1. First \in Host /\ \A g \in Host : Same(g)
  BY FirstIsServer DEF Same
<1>2. Local(First)'
  BY <1>1 DEF IInv, Same, Local, KnowsNothing, Founds, Astray, Equipped, Apart, InMain
<1> QED  BY <1>1, <1>2, OneHostStep

LEMMA RemoveHostInv ==
  ASSUME IInv, NEW s \in Host, NEW h \in Host, RemoveHost(s, h)
  PROVE  IInv'
<1> DEFINE new == [by |-> s, host |-> h, at |-> "list"]
<1>1. /\ Spend("remove") /\ job' = [job EXCEPT ![budget.remove] = new]
      /\ UNCHANGED <<umode, disk, process, store, raced>>
  BY DEF RemoveHost
<1>2. TypeOK /\ new \in Job
  BY DEF IInv, Job
<1>3. budget' \in Budget
  BY <1>1, <1>2, SpendType
<1>4. job' \in [Removal -> {NoJob} \cup Job]
  BY <1>1, <1>2 DEF TypeOK
<1>6. TypeOK'
  BY <1>1, <1>2, <1>3, <1>4 DEF TypeOK, disk, process, store
<1>5. NothingNew
  BY <1>1, SameTouches DEF disk, store
<1> QED  BY <1>1, <1>5, <1>6, NoHostStep DEF disk, process, store

\* The activity of a host that serves, in the main cluster.
LEMMA JobType ==
  ASSUME TypeOK, NEW i \in Removal, NEW step \in {"list", "member", "user", "record"}, At(i, step)
  PROVE  /\ job[i] \in Job /\ job[i].by \in Host /\ job[i].host \in Host
         /\ \A at \in {"list", "member", "user", "record"} : [job[i] EXCEPT !.at = at] \in Job
<1>1. job[i] \in {NoJob} \cup Job
  BY DEF TypeOK
<1>2. job[i] \in Job
  BY <1>1 DEF At, NoJob
<1> QED  BY <1>2 DEF Job

\* An activity goes on or ends, and the others stay as they are.
LEMMA OneJob ==
  ASSUME TypeOK, NEW i \in Removal, NEW step \in {"list", "member", "user", "record"}, At(i, step)
  PROVE  /\ Ends(i) => job'[i] = NoJob
         /\ \A at \in {"list", "member", "user", "record"} : Continue(i, at) =>
              job'[i].at = at /\ job'[i].host = job[i].host /\ job'[i] \in Job
         /\ Ends(i) \/ (\E at \in {"list", "member", "user", "record"} : Continue(i, at)) =>
              /\ job' \in [Removal -> {NoJob} \cup Job]
              /\ \A j \in Removal \ {i} : job'[j] = job[j]
<1>1. job \in [Removal -> {NoJob} \cup Job]
  BY DEF TypeOK
<1>2. job[i] \in Job /\ \A at \in {"list", "member", "user", "record"} : [job[i] EXCEPT !.at = at] \in Job
  BY JobType
<1>3. ASSUME Ends(i)
      PROVE  /\ job'[i] = NoJob /\ job' \in [Removal -> {NoJob} \cup Job]
             /\ \A j \in Removal \ {i} : job'[j] = job[j]
  BY <1>1, <1>3 DEF Ends
<1>4. ASSUME NEW at \in {"list", "member", "user", "record"}, Continue(i, at)
      PROVE  /\ job'[i].at = at /\ job'[i].host = job[i].host /\ job'[i] \in Job
             /\ job' \in [Removal -> {NoJob} \cup Job]
             /\ \A j \in Removal \ {i} : job'[j] = job[j]
  <2>1. job' = [job EXCEPT ![i] = [job[i] EXCEPT !.at = at]]
    BY <1>1, <1>4 DEF Continue
  <2>2. job'[i] = [job[i] EXCEPT !.at = at]
    BY <1>1, <2>1
  <2>3. job'[i].at = at /\ job'[i].host = job[i].host
    BY <1>2, <2>2 DEF Job
  <2> QED  BY <1>1, <1>2, <2>1, <2>2, <2>3
<1> QED  BY <1>3, <1>4

LEMMA ActivityInv ==
  ASSUME IInv, NEW i \in Removal, Activity(i)
  PROVE  IInv'
<1>1. TypeOK
  BY DEF IInv
<1>2. PICK step \in {"list", "member", "user", "record"} : At(i, step)
  BY DEF Activity, RemoveList, RemoveMember, RemoveUser, RemoveRecord
<1>3. job[i] \in Job /\ job[i].by \in Host /\ job[i].host \in Host
  BY <1>1, <1>2, JobType
<1>4. certs[job[i].by] \in Cluster
  BY <1>2, <1>3, MainIsCluster DEF IInv, Local, InMain, Inside, At
<1>5. UNCHANGED <<umode, gen, certs, key, pc, path, etcd, ans, founded, auth, budget>>
  BY DEF Activity, RemoveList, RemoveMember, RemoveUser, RemoveRecord, disk, process, store
<1>6. job' \in [Removal -> {NoJob} \cup Job]
  <2>1. Ends(i) \/ \E at \in {"list", "member", "user", "record"} : Continue(i, at)
    BY DEF Activity, RemoveList, RemoveMember, RemoveUser, RemoveRecord
  <2> QED  BY <1>1, <1>2, <2>1, OneJob
<1>7. raced' \in SUBSET Host
  <2>1. raced' = raced \/ raced' = raced \cup {job[i].host}
    BY DEF Activity, RemoveList, RemoveMember, RemoveUser, RemoveRecord
  <2>2. raced \in SUBSET Host
    BY <1>1 DEF TypeOK
  <2> QED  BY <1>3, <2>1, <2>2
<1>8. user' \in [Cluster -> SUBSET Host]
  <2>1. user' = user \/ user' = [user EXCEPT ![certs[job[i].by]] = @ \ {job[i].host}]
    BY DEF Activity, RemoveList, RemoveMember, RemoveUser, RemoveRecord, store
  <2>2. user \in [Cluster -> SUBSET Host]
    BY <1>1 DEF TypeOK
  <2> QED  BY <2>1, <2>2
<1>9. record' \in [Cluster -> [Host -> {"none", "server", "client"}]]
  <2>1. record' = record \/ record' = [record EXCEPT ![certs[job[i].by]][job[i].host] = "none"]
    BY DEF Activity, RemoveList, RemoveMember, RemoveUser, RemoveRecord, store
  <2>2. record \in [Cluster -> [Host -> {"none", "server", "client"}]]
    BY <1>1 DEF TypeOK
  <2> QED  BY <2>1, <2>2
<1>10. /\ member' \in [Cluster -> [Host -> {"none", "added", "learner", "voter"}]]
       /\ data' \in [Host -> {NoData} \cup [cl : Cluster, live : BOOLEAN]]
       /\ \A g \in Host : data'[g].cl = data[g].cl
       /\ NothingNew
  <2>1. CASE MemberRemove(job[i].host, certs[job[i].by])
    BY <1>1, <1>3, <1>4, <1>5, <2>1, MemberRemoveType
  <2>2. CASE UNCHANGED <<member, data>>
    BY <1>1, <1>5, <2>2, SameTouches DEF TypeOK
  <2> QED  BY <2>1, <2>2
           DEF Activity, RemoveList, RemoveMember, RemoveUser, RemoveRecord, disk, store
<1>11. TypeOK'
  BY <1>1, <1>5, <1>6, <1>7, <1>8, <1>9, <1>10 DEF TypeOK
<1> QED  BY <1>5, <1>10, <1>11, NoHostStep

-----------------------------------------------------------------------------
(***************************************************************************)
(* The theorems                                                            *)
(***************************************************************************)

LEMMA InitInv == Init => IInv
<1> SUFFICES ASSUME Init PROVE IInv
  OBVIOUS
<1>1. TypeOK
  <2>1. /\ NoGen \in [mode : {"", "server", "client"}, eps : SUBSET Host]
        /\ umode \in [Host -> {"server", "client"}] /\ "preinit" \in Steps
    BY DEF Init, NoGen, Steps
  <2>2. budget \in Budget
    BY BoundsAreNat DEF Init
  <2> QED  BY <2>1, <2>2 DEF Init, TypeOK
<1>2. \A h \in Host : \A c \in Cluster : ~Touches(h, c)
  BY MainIsCluster DEF Init, Touches, NoData
<1>3. \A h \in Host : Local(h)
  BY DEF Init, Local, KnowsNothing, Founds, Astray, Equipped, Apart, InMain, Inside
<1> QED  BY <1>1, <1>2, <1>3 DEF IInv, FoundedFirst, OneHost

\* Every step keeps the invariant.
LEMMA StepInv == IInv /\ [Next]_vars => IInv'
<1> SUFFICES ASSUME IInv, [Next]_vars PROVE IInv'
  OBVIOUS
<1>1. ASSUME NEW h \in Host, Step(h)
      PROVE  IInv'
  BY <1>1, StartInv, InitClusterInv, FoundInv, SecureInv, EnableAuthInv, StartEmbeddedInv,
     StartedInv, StartFailsInv, JoinInv, JoinRemoteInv, AddLearnerInv, StartLearnerInv,
     PromoteInv, PromoteFailsInv, JoinedInv, JoinedFailsInv, ConnectInv, ListInv,
     LeaveListInv, LeaveInv, WipeInv, DemotedInv, BootInv, EndsInv, ClearDataDirInv
  DEF Step
<1>2. ASSUME NEW h \in Host,
             StartLearnerFails(h) \/ Crash(h) \/ Timeout(h) \/ Reconfigure(h)
      PROVE  IInv'
  BY <1>2, StartLearnerFailsInv, EndsInv, ReconfigureInv
<1>3. ASSUME NEW h \in Host, NEW s \in Host, GetJoinOptions(h, s) \/ RemoveHost(s, h)
      PROVE  IInv'
  BY <1>3, GetJoinOptionsInv, RemoveHostInv
<1>4. CASE UNCHANGED vars
  <2>1. UNCHANGED <<umode, gen, certs, key, data, pc, path, etcd, ans, founded, member, auth,
                    user, record, job, budget, raced>>
    BY <1>4 DEF vars, disk, process, store
  <2>2. TypeOK'
    BY <2>1 DEF IInv, TypeOK
  <2> QED  BY <2>1, <2>2, SameTouches, NoHostStep
<1> QED  BY <1>1, <1>2, <1>3, <1>4, ActivityInv DEF Next

\* Every variable keeps its type, and no more clusters are founded than the
\* bound has names for.
THEOREM MembershipTypeCorrect == Spec => []TypeOK
<1>1. IInv => TypeOK
  BY DEF IInv
<1> QED  BY <1>1, InitInv, StepInv, PTL DEF Spec

-----------------------------------------------------------------------------
(***************************************************************************)
(* The second inductive invariant: what a host is at every step            *)
(***************************************************************************)

\* What a process has to do, by the step it is at.
Course(h) ==
    /\ pc[h] = "down" => path[h] = "plain"
    /\ pc[h] = "preinit" => path[h] \in {"plain", "init", "join"}
    /\ pc[h] \in {"initialize", "founded", "secured"} => path[h] \in {"init", "demote"}
    /\ pc[h] = "connect" => path[h] \in {"plain", "promote"}
    /\ pc[h] \in {"creds", "added", "learner", "promoted"} => path[h] \in {"join", "promote"}
    /\ pc[h] \in {"list", "alone", "leaving", "left", "wiped"} => path[h] = "demote"

\* The mode that the operator has configured and the one that is stored.
Modes(h) ==
    /\ path[h] = "promote" => umode[h] = "server"
    /\ pc[h] = "preinit" => gen[h].mode \in {"", umode[h]}
    /\ pc[h] \in {"initialize", "founded"} /\ path[h] = "init" =>
         umode[h] = "server" /\ gen[h].mode \in {"", "server"}
    /\ pc[h] \in {"secured", "start", "starting"} /\ path[h] # "demote" =>
         umode[h] = "server" /\ gen[h].mode = "server"
    /\ pc[h] = "connect" /\ path[h] = "plain" => umode[h] = "client" /\ gen[h].mode = "client"
    /\ pc[h] \in {"creds", "added", "learner", "promoted", "boot", "serving"} =>
         gen[h].mode = umode[h]
    /\ pc[h] \in {"added", "learner", "promoted", "apart"} => umode[h] = "server"

\* The data directory: one of the main cluster belongs to a server.
Directory(h) ==
    /\ data[h].cl = Main => gen[h].mode = "server" \/ (gen[h].mode = "" /\ umode[h] = "server")
    /\ pc[h] = "wiped" \/ (pc[h] = "initialize" /\ path[h] = "demote") => data[h] = NoData
    /\ pc[h] \in {"founded", "secured"} /\ path[h] = "demote" => data[h].cl # Main
    /\ pc[h] \in {"learner", "promoted"} => data[h].cl = Main
    /\ pc[h] \in {"boot", "serving"} /\ umode[h] = "server" => data[h].cl = Main /\ etcd[h]

\* The member of a host in the main cluster.
Seat(h) ==
    /\ pc[h] \in {"boot", "serving"} /\ umode[h] = "server" /\ data[h].live =>
         member[Main][h] = "voter"
    /\ pc[h] = "added" => member[Main][h] \in {"none", "added"}
    /\ pc[h] \in {"left", "wiped"} => member[Main][h] # "voter"

\* A voter can start: it has its data directory and valid credentials.
Rooted(h) ==
    member[Main][h] = "voter" /\ auth[Main] /\ h \notin raced =>
        data[h] = [cl |-> Main, live |-> TRUE] /\ Accepted(h, Main)

\* A host that serves has a record for as long as it has a user.
Recorded(h) == pc[h] = "serving" /\ h \in user[Main] \ raced => record[Main][h] = umode[h]

\* As long as the main cluster is being founded its founder is alone.
Alone(g) ==
    pc[g] \in {"founded", "secured"} /\ path[g] = "init" =>
        /\ \A h \in Host \ {g} : ~Touches(h, Main)
        /\ \A h \in Host : ans[h] = {}
        /\ \A i \in Removal : job[i].at = "none"
        /\ data[g] = [cl |-> Main, live |-> TRUE]
        /\ pc[g] = "founded" => ~auth[Main]
        /\ pc[g] = "secured" => certs[g] = Main /\ g \in user[Main] /\ key[g] = "good"

\* An activity of remove-host, which is at a step: when the user of host h is to
\* go the host is no voter and will not be one, unless it has raced.
Going(at, h) ==
    h \notin raced =>
        /\ at = "record" => h \notin user[Main]
        /\ at \in {"user", "record"} =>
             /\ member[Main][h] # "voter"
             /\ pc[h] = "learner" => ~data[h].live
        /\ at \in {"member", "user", "record"} => pc[h] # "added"

Removing ==
    /\ founded = 0 => ~auth[Main]
    /\ \A i \in Removal : job[i].at # "none" => founded > 0 /\ Going(job[i].at, job[i].host)

Role(h) == Course(h) /\ Modes(h) /\ Directory(h) /\ Seat(h) /\ Rooted(h) /\ Recorded(h)

ModeInv == IInv /\ Removing /\ \A h \in Host : Role(h) /\ Alone(h)

-----------------------------------------------------------------------------
(***************************************************************************)
(* A step of one host                                                      *)
(***************************************************************************)

\* Nothing that Role says of host h changes.
Quiet(h) ==
    /\ umode'[h] = umode[h] /\ gen'[h] = gen[h] /\ certs'[h] = certs[h] /\ key'[h] = key[h]
    /\ data'[h] = data[h] /\ pc'[h] = pc[h] /\ path'[h] = path[h] /\ etcd'[h] = etcd[h]
    /\ member'[Main][h] = member[Main][h] /\ record'[Main][h] = record[Main][h]
    /\ h \in user'[Main] <=> h \in user[Main]

LEMMA QuietParts ==
  ASSUME NEW h \in Host, Role(h), Quiet(h), raced \subseteq raced'
  PROVE  Course(h)' /\ Modes(h)' /\ Directory(h)' /\ Seat(h)' /\ Recorded(h)'
<1>1. Course(h)'
  BY DEF Role, Quiet, Course
<1>2. Modes(h)'
  BY DEF Role, Quiet, Modes
<1>3. Directory(h)'
  BY DEF Role, Quiet, Directory
<1>4. Seat(h)' /\ Recorded(h)'
  BY DEF Role, Quiet, Seat, Recorded
<1> QED  BY <1>1, <1>2, <1>3, <1>4

LEMMA QuietRole ==
  ASSUME NEW h \in Host, Role(h), Quiet(h), auth'[Main] = auth[Main], raced \subseteq raced'
  PROVE  Role(h)'
<1>1. Course(h)' /\ Modes(h)' /\ Directory(h)' /\ Seat(h)' /\ Recorded(h)'
  BY QuietParts
<1>2. Rooted(h)'
  BY DEF Role, Quiet, Rooted, Accepted
<1> QED  BY <1>1, <1>2 DEF Role

\* The founder stays alone when a step of another host brings nobody to the main
\* cluster.
LEMMA QuietAlone ==
  ASSUME ModeInv, NEW h \in Host, \A g \in Host \ {h} : Quiet(g),
         auth'[Main] = auth[Main],
         Touches(h, Main)' => Touches(h, Main),
         \A g \in Host : ans'[g] \subseteq ans[g],
         job' = job \/ Interrupt(h),
         pc'[h] \in {"founded", "secured"} => path'[h] # "init"
  PROVE  \A g \in Host : Alone(g)'
<1> SUFFICES ASSUME NEW g \in Host, pc'[g] \in {"founded", "secured"}, path'[g] = "init"
             PROVE  Alone(g)'
  BY DEF Alone
<1>1. g # h /\ Quiet(g) /\ Alone(g)
  BY DEF ModeInv
<1>2. /\ \A k \in Host \ {g} : ~Touches(k, Main)
      /\ \A k \in Host : ans[k] = {}
      /\ \A i \in Removal : job[i].at = "none"
      /\ data[g] = [cl |-> Main, live |-> TRUE]
      /\ pc[g] = "founded" => ~auth[Main]
      /\ pc[g] = "secured" => certs[g] = Main /\ g \in user[Main] /\ key[g] = "good"
  BY <1>1 DEF Alone, Quiet
<1>3. \A k \in Host \ {g} : ~Touches(k, Main)'
  <2> SUFFICES ASSUME NEW k \in Host \ {g} PROVE ~Touches(k, Main)'
    OBVIOUS
  <2>1. CASE k = h
    BY <1>2, <2>1
  <2>2. CASE k # h
    <3>1. Quiet(k) /\ ~Touches(k, Main)
      BY <1>2, <2>2
    <3> QED  BY <3>1 DEF Quiet, Touches
  <2> QED  BY <2>1, <2>2
<1>4. (\A k \in Host : ans'[k] = {}) /\ \A i \in Removal : job'[i].at = "none"
  BY <1>2 DEF Interrupt
<1> QED  BY <1>1, <1>2, <1>3, <1>4 DEF Alone, Quiet

\* A step that does not bring the host of the activity nearer to a voter.
LEMMA QuietRemoving ==
  ASSUME ModeInv, NEW h \in Host, \A g \in Host \ {h} : Quiet(g),
         founded' = founded \/ (founded > 0 /\ founded' > 0),
         auth'[Main] = auth[Main], raced \subseteq raced',
         job' = job \/ Interrupt(h),
         h \in user'[Main] => h \in user[Main],
         member'[Main][h] = "voter" => member[Main][h] = "voter",
         pc'[h] = "learner" => pc[h] = "learner" /\ data'[h].live = data[h].live,
         pc'[h] = "added" => pc[h] = "added"
  PROVE  Removing'
<1>1. Removing /\ job \in [Removal -> {NoJob} \cup Job]
  BY DEF ModeInv, IInv, TypeOK
<1>2. (founded' = 0 => ~auth'[Main]) /\ (founded > 0 => founded' > 0)
  BY <1>1 DEF Removing
<1>3. ASSUME NEW i \in Removal, job'[i].at # "none"
      PROVE  founded' > 0 /\ Going(job[i].at, job[i].host)'
  <2>1. job[i].at # "none" /\ job'[i].host = job[i].host /\ job'[i].at \in {job[i].at, "list"}
    <3>1. CASE job' = job
      BY <1>3, <3>1
    <3>2. CASE Interrupt(h)
      <4>1. job'[i] = IF job[i].at # "none" /\ job[i].by = h
                      THEN [job[i] EXCEPT !.at = "list"] ELSE job[i]
        BY <3>2 DEF Interrupt
      <4>2. job[i] \in {NoJob} \cup Job
        BY <1>1
      <4> QED  BY <1>3, <4>1, <4>2 DEF NoJob, Job
    <3> QED  BY <3>1, <3>2
  <2>2. job[i] \in Job /\ job[i].host \in Host
    <3>1. job[i] \in Job
      BY <1>1, <2>1 DEF NoJob
    <3> QED  BY <3>1 DEF Job
  <2>3. PICK k \in Host : k = job[i].host
    BY <2>2
  <2>4. PICK at : at = job'[i].at
    OBVIOUS
  <2>5. founded > 0 /\ (at = "list" \/ Going(at, k))
    BY <1>1, <2>1, <2>3, <2>4 DEF Removing
  <2>6. /\ k \in user'[Main] => k \in user[Main]
        /\ member'[Main][k] = "voter" => member[Main][k] = "voter"
        /\ pc'[k] = "learner" => pc[k] = "learner" /\ data'[k].live = data[k].live
        /\ pc'[k] = "added" => pc[k] = "added"
    BY DEF Quiet
  <2>7. Going(at, k)'
    BY <2>5, <2>6 DEF Going
  <2> QED  BY <1>2, <2>1, <2>3, <2>4, <2>5, <2>7 DEF Going
<1> QED  BY <1>2, <1>3 DEF Removing

\* A step of one host needs to be looked at for that host only.
LEMMA RoleStep ==
  ASSUME ModeInv, IInv', NEW h \in Host, \A g \in Host \ {h} : Quiet(g),
         auth'[Main] = auth[Main], raced \subseteq raced', Role(h)', Removing',
         \A g \in Host : Alone(g)'
  PROVE  ModeInv'
<1>1. \A g \in Host \ {h} : Role(g)'
  BY QuietRole DEF ModeInv
<1> QED  BY <1>1 DEF ModeInv

\* A step of one host that brings it no nearer to a voter.
LEMMA HostStep ==
  ASSUME ModeInv, IInv', NEW h \in Host, \A g \in Host \ {h} : Quiet(g),
         founded' = founded \/ (founded > 0 /\ founded' > 0),
         auth'[Main] = auth[Main], raced \subseteq raced',
         job' = job \/ Interrupt(h),
         record[Main][h] # "none" => record'[Main][h] # "none",
         h \in user'[Main] => h \in user[Main],
         member'[Main][h] = "voter" => member[Main][h] = "voter",
         Touches(h, Main)' => Touches(h, Main),
         \A g \in Host : ans'[g] \subseteq ans[g],
         pc'[h] \notin {"added", "learner"},
         pc'[h] \in {"founded", "secured"} => path'[h] # "init",
         Role(h)'
  PROVE  ModeInv'
<1>1. \A g \in Host : Alone(g)'
  BY QuietAlone
<1>2. Removing'
  BY QuietRemoving
<1> QED  BY <1>1, <1>2, RoleStep

\* A step that leaves the members, the users, the credentials and the data
\* directories alone.
LEMMA ProcessStep ==
  ASSUME ModeInv, IInv', NEW h \in Host, UNCHANGED <<certs, key, data, founded, member, raced>>,
         auth'[Main] = auth[Main], user'[Main] = user[Main],
         \A g \in Host \ {h} : /\ umode'[g] = umode[g] /\ gen'[g] = gen[g] /\ pc'[g] = pc[g]
                               /\ path'[g] = path[g] /\ etcd'[g] = etcd[g]
                               /\ record'[Main][g] = record[Main][g],
         record[Main][h] # "none" => record'[Main][h] # "none",
         \A g \in Host : ans'[g] \subseteq ans[g],
         job' = job \/ Interrupt(h),
         pc'[h] \notin {"added", "learner"},
         pc'[h] \in {"founded", "secured"} => path'[h] # "init",
         Course(h)', Modes(h)', Directory(h)', Seat(h)', Recorded(h)'
  PROVE  ModeInv'
<1>1. \A g \in Host \ {h} : Quiet(g)
  BY DEF Quiet
<1>2. Touches(h, Main)' => Touches(h, Main)
  BY DEF Touches
<1>3. Rooted(h)'
  BY DEF ModeInv, Role, Rooted, Accepted
<1>4. Role(h)'
  BY <1>3 DEF Role
<1> QED  BY <1>1, <1>2, <1>4, HostStep

\* A process ends, and leaves on the disk what a restart expects there.
LEMMA ExitRole ==
  ASSUME ModeInv, NEW h \in Host, Exit(h), data'[h].cl = Main => data[h].cl = Main,
         data'[h].cl = Main => /\ gen'[h].mode = gen[h].mode
                               /\ umode'[h] = umode[h] \/ gen[h].mode # ""
  PROVE  Course(h)' /\ Modes(h)' /\ Directory(h)' /\ Seat(h)' /\ Recorded(h)'
<1>1. pc'[h] = "down" /\ path'[h] = "plain"
  BY ExitType DEF ModeInv, IInv
<1>2. Directory(h)'
  BY <1>1 DEF Directory, ModeInv, Role
<1> QED  BY <1>1, <1>2 DEF Course, Modes, Seat, Recorded

\* A process ends when it has written its generated config.
LEMMA ExitStep ==
  ASSUME ModeInv, IInv', NEW h \in Host, Exit(h),
         UNCHANGED <<umode, certs, key, data, store, job, raced>>,
         gen'[h].mode = gen[h].mode, \A g \in Host \ {h} : gen'[g] = gen[g]
  PROVE  ModeInv'
<1>1. Course(h)' /\ Modes(h)' /\ Directory(h)' /\ Seat(h)' /\ Recorded(h)'
  BY ExitRole
<1>2. /\ pc'[h] = "down" /\ ans'[h] = {}
      /\ \A g \in Host \ {h} : /\ pc'[g] = pc[g] /\ path'[g] = path[g]
                               /\ etcd'[g] = etcd[g] /\ ans'[g] = ans[g]
  BY ExitType DEF ModeInv, IInv
<1>3. \A g \in Host : ans'[g] \subseteq ans[g]
  BY <1>2
<1> QED  BY <1>1, <1>2, <1>3, ProcessStep DEF store

\* An error.
LEMMA FailRole ==
  ASSUME ModeInv, NEW h \in Host, Fail(h), UNCHANGED <<umode, gen>>,
         data'[h].cl = Main => data[h].cl = Main \/ gen[h].mode = "server",
         pc[h] \in {"start", "starting", "creds", "added", "learner", "promoted"}
  PROVE  Course(h)' /\ Modes(h)' /\ Directory(h)' /\ Seat(h)' /\ Recorded(h)'
<1>1. \/ path[h] \in {"init", "join"} /\ pc'[h] = "preinit" /\ path'[h] = path[h]
      \/ pc'[h] = "down" /\ path'[h] = "plain"
  BY FailType DEF ModeInv, IInv
<1>2. Role(h)
  BY DEF ModeInv
<1>3. Directory(h)'
  BY <1>1, <1>2 DEF Directory, Role
<1>4. Modes(h)'
  BY <1>1, <1>2 DEF Modes, Role
<1> QED  BY <1>1, <1>3, <1>4 DEF Course, Seat, Recorded

\* What an error leaves of the process.
LEMMA FailProcess ==
  ASSUME TypeOK, NEW h \in Host, Fail(h)
  PROVE  /\ pc'[h] \in {"preinit", "down"} /\ \A g \in Host : ans'[g] \subseteq ans[g]
         /\ \A g \in Host \ {h} : /\ pc'[g] = pc[g] /\ path'[g] = path[g]
                                  /\ etcd'[g] = etcd[g]
<1>1. /\ pc'[h] \in {"preinit", "down"} /\ (ans'[h] = ans[h] \/ ans'[h] = {})
      /\ \A g \in Host \ {h} : /\ pc'[g] = pc[g] /\ path'[g] = path[g]
                               /\ etcd'[g] = etcd[g] /\ ans'[g] = ans[g]
  BY FailType
<1> QED  BY <1>1

\* The store and the disks stay as they are, and the process may fail.
LEMMA FailStep ==
  ASSUME ModeInv, IInv', NEW h \in Host, Fail(h),
         pc[h] \in {"start", "starting", "creds", "added", "learner", "promoted"},
         UNCHANGED <<umode, disk, store, job, raced>>
  PROVE  ModeInv'
<1>1. Course(h)' /\ Modes(h)' /\ Directory(h)' /\ Seat(h)' /\ Recorded(h)'
  BY FailRole DEF disk
<1>2. /\ pc'[h] \in {"preinit", "down"} /\ \A g \in Host : ans'[g] \subseteq ans[g]
      /\ \A g \in Host \ {h} : /\ pc'[g] = pc[g] /\ path'[g] = path[g]
                               /\ etcd'[g] = etcd[g]
  BY FailProcess DEF ModeInv, IInv
<1> QED  BY <1>1, <1>2, ProcessStep DEF disk, store

\* A host moves to its next step, with its disk as it is.
LEMMA MoveStep ==
  ASSUME ModeInv, IInv', NEW h \in Host,
         NEW q \in Steps \ {"founded", "secured", "added", "learner"}, Goto(h, q),
         UNCHANGED <<umode, disk, ans, founded, member, auth, user, job, raced>>,
         \A g \in Host \ {h} : /\ path'[g] = path[g] /\ etcd'[g] = etcd[g]
                               /\ record'[Main][g] = record[Main][g],
         record[Main][h] # "none" => record'[Main][h] # "none",
         pc'[h] = q => Course(h)' /\ Modes(h)' /\ Directory(h)' /\ Seat(h)' /\ Recorded(h)'
  PROVE  ModeInv'
<1>1. pc'[h] = q /\ \A g \in Host \ {h} : pc'[g] = pc[g]
  BY GotoType DEF ModeInv, IInv
<1> QED  BY <1>1, ProcessStep DEF disk

\* A host moves to its next step and writes its generated config.
LEMMA ConfigStep ==
  ASSUME ModeInv, IInv', NEW h \in Host,
         NEW q \in Steps \ {"founded", "secured", "added", "learner"}, Goto(h, q),
         UNCHANGED <<umode, certs, key, data, path, ans, store, job, raced>>,
         \A g \in Host \ {h} : gen'[g] = gen[g] /\ etcd'[g] = etcd[g],
         pc'[h] = q => Course(h)' /\ Modes(h)' /\ Directory(h)' /\ Seat(h)' /\ Recorded(h)'
  PROVE  ModeInv'
<1>1. pc'[h] = q /\ \A g \in Host \ {h} : pc'[g] = pc[g]
  BY GotoType DEF ModeInv, IInv
<1> QED  BY <1>1, ProcessStep DEF store

\* The list of the main cluster changes for one host.
LEMMA MainMember ==
  ASSUME TypeOK, NEW h \in Host, NEW v \in {"none", "added", "learner", "voter"},
         member' = [member EXCEPT ![Main][h] = v]
  PROVE  /\ member'[Main][h] = v
         /\ \A g \in Host \ {h} : member'[Main][g] = member[Main][g]
<1>1. Main \in Cluster /\ member \in [Cluster -> [Host -> {"none", "added", "learner", "voter"}]]
  BY MainIsCluster DEF TypeOK
<1> QED  BY <1>1

\* A host is taken out of the list of the main cluster.
LEMMA MainRemove ==
  ASSUME TypeOK, NEW h \in Host, MemberRemove(h, Main)
  PROVE  /\ member'[Main][h] = "none" /\ data'[h].cl = data[h].cl
         /\ data[h].cl = Main => ~data'[h].live
         /\ data[h].cl # Main => data'[h] = data[h]
         /\ \A g \in Host \ {h} : data'[g] = data[g] /\ member'[Main][g] = member[Main][g]
<1>1. /\ member'[Main][h] = "none"
      /\ \A g \in Host \ {h} : member'[Main][g] = member[Main][g]
  BY MainMember DEF MemberRemove
<1>2. data \in [Host -> {NoData} \cup [cl : Cluster, live : BOOLEAN]]
  BY DEF TypeOK
<1>3. CASE data[h].cl = Main
  <2>1. data[h] \in [cl : Cluster, live : BOOLEAN]
    BY <1>2, <1>3, MainIsCluster DEF NoData
  <2>2. data' = [data EXCEPT ![h] = [data[h] EXCEPT !.live = FALSE]]
    BY <1>2, <1>3 DEF MemberRemove
  <2>3. data'[h] = [data[h] EXCEPT !.live = FALSE] /\ \A g \in Host \ {h} : data'[g] = data[g]
    BY <1>2, <2>2
  <2> QED  BY <1>1, <1>3, <2>1, <2>3
<1>4. CASE data[h].cl # Main
  BY <1>1, <1>4 DEF MemberRemove
<1> QED  BY <1>3, <1>4

\* A server that answers its own requests is a voter of its cluster.
LEMMA OwnIsVoter ==
  ASSUME ModeInv, NEW h \in Host, Own(h)
  PROVE  data[h].cl \in Cluster /\ etcd[h] /\ member[data[h].cl][h] = "voter"
<1>1. data[h].cl # None /\ h \in Voters(data[h].cl) \cap Running(data[h].cl)
  BY DEF Own, Answered, Accepted
<1>2. data[h].cl \in Cluster
  BY <1>1, HostType DEF ModeInv, IInv
<1> QED  BY <1>1, <1>2 DEF Voters, Running

\* An activity has a host that executes it and one that it removes.
LEMMA JobHosts ==
  ASSUME TypeOK, NEW i \in Removal, job[i].at # "none"
  PROVE  job[i] \in Job /\ job[i].by \in Host /\ job[i].host \in Host
<1>1. job[i] \in {NoJob} \cup Job
  BY DEF TypeOK
<1>2. job[i] \in Job
  BY <1>1 DEF NoJob
<1> QED  BY <1>2 DEF Job

\* A step of one host needs to be looked at if that host is being removed.
LEMMA RemovingStep ==
  ASSUME ModeInv, NEW h \in Host, \A g \in Host \ {h} : Quiet(g),
         UNCHANGED <<founded, auth, job>>, raced \subseteq raced',
         \A i \in Removal : job[i].at # "none" /\ job[i].host = h =>
             \A at \in {"list", "member", "user", "record"} : Going(at, h) => Going(at, h)'
  PROVE  Removing'
<1>1. Removing /\ TypeOK
  BY DEF ModeInv, IInv
<1>2. ASSUME NEW i \in Removal, job[i].at # "none"
      PROVE  Going(job[i].at, job[i].host)'
  <2>1. Going(job[i].at, job[i].host) /\ job[i].host \in Host
    BY <1>1, <1>2, JobHosts DEF Removing
  <2>2. PICK k \in Host : k = job[i].host
    BY <2>1
  <2>3. PICK at \in {"list", "member", "user", "record"} : at = job[i].at
    BY <1>1, <1>2, JobHosts DEF Job
  <2>4. Going(at, k)'
    <3>1. CASE k = h
      BY <1>2, <2>1, <2>2, <2>3, <3>1
    <3>2. CASE k # h
      <4>1. Quiet(k)
        BY <3>2
      <4> QED  BY <2>1, <2>2, <2>3, <4>1 DEF Going, Quiet
    <3> QED  BY <3>1, <3>2
  <2> QED  BY <2>2, <2>3, <2>4 DEF Going
<1> QED  BY <1>1, <1>2 DEF Removing

\* Two hosts do not found the main cluster at a time.
LEMMA OneFounder ==
  ASSUME ModeInv, NEW h \in Host, NEW g \in Host \ {h}, Touches(h, Main)
  PROVE  ~(pc[g] \in {"founded", "secured"} /\ path[g] = "init")
  BY DEF ModeInv, Alone

\* Nobody founds the main cluster any more once another host has got its
\* credentials.
LEMMA NobodyFounds ==
  ASSUME ModeInv, NEW k \in Host, certs[k] = Main, pc[k] \notin {"founded", "secured"},
         \A g \in Host : pc'[g] \in {"founded", "secured"} => pc'[g] = pc[g] /\ path'[g] = path[g]
  PROVE  \A g \in Host : Alone(g)'
<1> SUFFICES ASSUME NEW g \in Host PROVE ~(pc'[g] \in {"founded", "secured"} /\ path'[g] = "init")
  BY DEF Alone
<1>1. CASE g = k
  BY <1>1
<1>2. CASE g # k
  BY <1>2, OneFounder DEF Touches
<1> QED  BY <1>1, <1>2

-----------------------------------------------------------------------------
(***************************************************************************)
(* Start, initialize and start of the server                               *)
(***************************************************************************)

LEMMA StartRole ==
  ASSUME ModeInv, IInv', NEW h \in Host, Start(h)
  PROVE  ModeInv'
<1>1. /\ UNCHANGED <<umode, certs, key, data, etcd, ans, store, job, budget, raced>>
      /\ pc[h] = "down"
  BY DEF Start
<1>2. TypeOK /\ Role(h) /\ path[h] = "plain"
  BY <1>1 DEF ModeInv, IInv, Role, Course
<1>3. /\ umode[h] \in {"server", "client"} /\ gen[h].mode \in {"", "server", "client"}
      /\ data[h].cl = None <=> data[h] = NoData
  BY <1>2, HostType
<1>4. /\ \A g \in Host \ {h} : pc'[g] = pc[g] /\ path'[g] = path[g] /\ gen'[g] = gen[g]
      /\ \/ /\ pc'[h] = "start" /\ path'[h] = "plain"
            /\ umode[h] = "server" /\ gen'[h].mode = "server"
         \/ /\ pc'[h] = "connect" /\ path'[h] = "plain" /\ gen[h].mode \in {"", "client"}
            /\ umode[h] = "client" /\ gen'[h].mode = "client"
         \/ /\ pc'[h] = "preinit" /\ path'[h] = "plain"
            /\ gen'[h] = gen[h] /\ gen[h].mode \in {"", umode[h]}
         \/ /\ path'[h] = "demote" /\ gen'[h] = gen[h] /\ gen[h].mode = "server"
            /\ \/ pc'[h] = "start"
               \/ pc'[h] = "initialize" /\ data[h] = NoData
         \/ /\ path'[h] = "promote" /\ gen'[h] = gen[h] /\ umode[h] = "server"
            /\ pc'[h] = "connect" /\ gen[h].mode = "client"
  <2> DEFINE P == {"plain", "init", "join", "demote", "promote"}
  <2>1. pc \in [Host -> Steps] /\ path \in [Host -> P]
    BY <1>2 DEF TypeOK
  <2>2. CASE gen[h].mode \in {"", umode[h]}
    <3>1. path' = path
      BY <1>3, <2>2 DEF Start
    <3>2. CASE IsInitialized(h)
      <4>1. /\ gen' = [gen EXCEPT ![h].mode = umode[h]]
            /\ pc' = [pc EXCEPT ![h] = IF umode[h] = "server" THEN "start" ELSE "connect"]
        BY <1>3, <2>2, <3>2 DEF Start, Goto
      <4>2. gen'[h].mode = umode[h] /\ \A g \in Host \ {h} : gen'[g] = gen[g]
        BY <1>2, <1>3, <4>1, GenMode
      <4>3. /\ pc'[h] = IF umode[h] = "server" THEN "start" ELSE "connect"
            /\ \A g \in Host \ {h} : pc'[g] = pc[g]
        BY <2>1, <4>1
      <4> QED  BY <1>2, <1>3, <2>2, <3>1, <4>2, <4>3
    <3>3. CASE ~IsInitialized(h)
      <4>1. gen' = gen /\ pc' = [pc EXCEPT ![h] = "preinit"]
        BY <1>3, <2>2, <3>3 DEF Start, Goto
      <4> QED  BY <1>2, <2>1, <2>2, <3>1, <4>1
    <3> QED  BY <3>2, <3>3
  <2>3. CASE gen[h].mode = "server" /\ umode[h] = "client"
    <3>1. /\ path' = [path EXCEPT ![h] = "demote"] /\ gen' = gen
          /\ pc' = [pc EXCEPT ![h] = IF data[h] # NoData THEN "start" ELSE "initialize"]
      BY <2>3 DEF Start, Goto
    <3> QED  BY <2>1, <2>3, <3>1
  <2>4. CASE gen[h].mode = "client" /\ umode[h] = "server"
    <3>1. /\ path' = [path EXCEPT ![h] = "promote"] /\ gen' = gen
          /\ pc' = [pc EXCEPT ![h] = "connect"]
      BY <2>4 DEF Start, Goto
    <3> QED  BY <2>1, <2>4, <3>1
  <2> QED  BY <1>3, <2>2, <2>3, <2>4
<1>5. Course(h)' /\ Seat(h)' /\ Recorded(h)'
  BY <1>4 DEF Course, Seat, Recorded
<1>6. Modes(h)'
  BY <1>1, <1>4 DEF Modes
<1>7. Directory(h)'
  BY <1>1, <1>2, <1>3, <1>4 DEF Directory, Role
<1> QED  BY <1>1, <1>4, <1>5, <1>6, <1>7, ProcessStep DEF store

LEMMA InitClusterRole ==
  ASSUME ModeInv, IInv', NEW h \in Host, InitCluster(h)
  PROVE  ModeInv'
<1>1. /\ pc[h] = "preinit" /\ umode[h] = "server" /\ Goto(h, "initialize")
      /\ path' = [path EXCEPT ![h] = "init"]
      /\ UNCHANGED <<umode, disk, etcd, ans, store, job, budget, raced>>
  BY DEF InitCluster
<1>2. TypeOK /\ Role(h)
  BY DEF ModeInv, IInv
<1>3. path'[h] = "init" /\ \A g \in Host \ {h} : path'[g] = path[g]
  BY <1>1, <1>2 DEF TypeOK
<1>4. ASSUME pc'[h] = "initialize"
      PROVE  Course(h)' /\ Modes(h)' /\ Directory(h)' /\ Seat(h)' /\ Recorded(h)'
  BY <1>1, <1>2, <1>3, <1>4 DEF Course, Modes, Directory, Seat, Recorded, Role, disk
<1> QED  BY <1>1, <1>3, <1>4, MoveStep DEF Steps, store

\* The founder of the main cluster is the first to have to do with it.
LEMMA FoundRole ==
  ASSUME ModeInv, IInv', NEW h \in Host, Found(h)
  PROVE  ModeInv'
<1> DEFINE n == founded + 1
<1>1. /\ pc[h] = "initialize" /\ founded' = n /\ n \in Cluster
      /\ member' = [member EXCEPT ![n][h] = "voter"]
      /\ data' = [data EXCEPT ![h] = [cl |-> n, live |-> TRUE]]
      /\ etcd' = [etcd EXCEPT ![h] = TRUE]
      /\ pc' = [pc EXCEPT ![h] = "founded"]
      /\ UNCHANGED <<umode, gen, certs, key, path, ans, auth, user, record, job, budget, raced>>
  BY DEF Found, Goto
<1>2. TypeOK /\ Role(h) /\ Founds(h) /\ Main \in Cluster
  BY MainIsCluster DEF ModeInv, IInv, Local
<1>3. founded \in Nat /\ n \in Nat /\ n > founded /\ n > 0
  <2>1. founded \in Nat
    BY <1>2, HostType
  <2> QED  BY <2>1
<1> HIDE DEF n
<1>4. /\ pc'[h] = "founded" /\ data'[h] = [cl |-> n, live |-> TRUE] /\ data'[h].cl = n
      /\ \A g \in Host \ {h} : pc'[g] = pc[g] /\ data'[g] = data[g] /\ etcd'[g] = etcd[g]
  BY <1>1, <1>2 DEF TypeOK
<1>5. \A g \in Host : g # h \/ n # Main => member'[Main][g] = member[Main][g]
  BY <1>1, <1>2, MemberType
<1>6. \A g \in Host \ {h} : Quiet(g)
  BY <1>1, <1>4, <1>5 DEF Quiet
<1>7. CASE path[h] = "init"
  <2>1. founded = 0 /\ n = Main
    <3>1. founded = 0
      BY <1>1, <1>2, <1>7 DEF Founds
    <3> QED  BY <3>1 DEF n, Main
  <2>2. \A g \in Host : ~Touches(g, Main)
    BY <1>2, <2>1 DEF ModeInv, IInv, FoundedFirst, Main
  <2>3. /\ \A g \in Host : ans[g] = {}
        /\ ~auth[Main] /\ \A i \in Removal : job[i].at = "none"
    BY <2>1 DEF ModeInv, IInv, Local, KnowsNothing, Removing
  <2>4. Role(h)'
    <3>1. umode[h] = "server" /\ gen[h].mode \in {"", "server"}
      BY <1>1, <1>2, <1>7 DEF Role, Modes
    <3>2. Course(h)' /\ Modes(h)' /\ Directory(h)' /\ Seat(h)' /\ Recorded(h)'
      BY <1>1, <1>4, <1>7, <3>1 DEF Course, Modes, Directory, Seat, Recorded
    <3>3. Rooted(h)'
      BY <1>1, <2>3 DEF Rooted
    <3> QED  BY <3>2, <3>3 DEF Role
  <2>5. Removing'
    BY <1>1, <1>3, <2>3 DEF Removing
  <2>6. ASSUME NEW g \in Host PROVE Alone(g)'
    <3>1. CASE g = h
      <4>1. \A k \in Host \ {h} : ~Touches(k, Main)'
        BY <1>6, <2>2 DEF Quiet, Touches
      <4> QED  BY <1>1, <1>4, <2>1, <2>3, <3>1, <4>1 DEF Alone
    <3>2. CASE g # h
      <4>1. ~(pc[g] \in {"founded", "secured"} /\ path[g] = "init")
        BY <2>2 DEF ModeInv, Alone, Touches
      <4> QED  BY <1>1, <1>4, <3>2, <4>1 DEF Alone
    <3> QED  BY <3>1, <3>2
  <2> QED  BY <1>1, <1>6, <2>4, <2>5, <2>6, RoleStep
<1>8. CASE path[h] # "init"
  <2>1. path[h] = "demote" /\ founded > 0 /\ n # Main /\ data[h].cl # Main
    <3>1. path[h] = "demote" /\ founded > 0 /\ data[h] = NoData
      BY <1>1, <1>2, <1>8 DEF Founds, Role, Directory
    <3>2. n # Main
      BY <1>3, <3>1 DEF n, Main
    <3> QED  BY <3>1, <3>2, MainIsCluster DEF NoData
  <2>2. Touches(h, Main)' => Touches(h, Main)
    BY <1>1, <1>4, <1>5, <2>1 DEF Touches
  <2>3. Course(h)' /\ Modes(h)' /\ Directory(h)' /\ Seat(h)' /\ Recorded(h)'
    BY <1>1, <1>2, <1>4, <2>1 DEF Course, Modes, Directory, Seat, Recorded, Role
  <2>4. Rooted(h)'
    BY <1>1, <1>2, <1>5, <2>1 DEF Role, Rooted
  <2>5. Role(h)'
    BY <2>3, <2>4 DEF Role
  <2> QED  BY <1>1, <1>3, <1>4, <1>5, <1>6, <2>1, <2>2, <2>5, HostStep
<1> QED  BY <1>7, <1>8

LEMMA SecureRole ==
  ASSUME ModeInv, IInv', NEW h \in Host, Secure(h)
  PROVE  ModeInv'
<1> DEFINE c == data[h].cl
<1>1. /\ pc[h] = "founded"
      /\ certs' = [certs EXCEPT ![h] = c] /\ key' = [key EXCEPT ![h] = "good"]
      /\ gen' = [gen EXCEPT ![h].mode = umode[h]]
      /\ user' = [user EXCEPT ![c] = @ \cup {h}]
      /\ Goto(h, "secured")
      /\ UNCHANGED <<umode, data, path, etcd, ans, founded, member, auth, record, job,
                     budget, raced>>
  BY DEF Secure, WriteHostCredentials
<1>2. TypeOK /\ Role(h) /\ Alone(h) /\ Founds(h) /\ Main \in Cluster
  BY MainIsCluster DEF ModeInv, IInv, Local
<1>3. c \in Cluster
  <2>1. c \in {None} \cup Cluster
    BY <1>2, HostType
  <2> QED  BY <1>1, <1>2, <2>1, MainIsCluster DEF Founds
<1>4. gen'[h].mode = umode[h] /\ \A g \in Host \ {h} : gen'[g] = gen[g]
  BY <1>1, <1>2, GenMode, HostType
<1>5. /\ certs'[h] = c /\ key'[h] = "good" /\ h \in user'[c]
      /\ c # Main => user'[Main] = user[Main]
      /\ \A g \in Host \ {h} : /\ certs'[g] = certs[g] /\ key'[g] = key[g]
                               /\ g \in user'[Main] <=> g \in user[Main]
  BY <1>1, <1>2, <1>3 DEF TypeOK
<1>6. pc'[h] = "secured" /\ \A g \in Host \ {h} : pc'[g] = pc[g]
  <2>1. "secured" \in Steps
    BY DEF Steps
  <2> QED  BY <1>1, <1>2, <2>1, GotoType
<1>7. \A g \in Host \ {h} : Quiet(g)
  BY <1>1, <1>4, <1>5, <1>6 DEF Quiet
<1>8. CASE path[h] = "init"
  <2>1. /\ \A g \in Host \ {h} : ~Touches(g, Main)
        /\ \A g \in Host : ans[g] = {}
        /\ \A i \in Removal : job[i].at = "none"
        /\ data[h] = [cl |-> Main, live |-> TRUE] /\ ~auth[Main]
    BY <1>1, <1>2, <1>8 DEF Alone
  <2>2. c = Main
    BY <2>1
  <2>3. Role(h)'
    <3>1. umode[h] = "server"
      BY <1>1, <1>2, <1>8 DEF Role, Modes
    <3>2. Course(h)' /\ Modes(h)' /\ Directory(h)' /\ Seat(h)' /\ Recorded(h)'
      BY <1>1, <1>4, <1>6, <1>8, <3>1 DEF Course, Modes, Directory, Seat, Recorded
    <3>3. Rooted(h)'
      BY <1>1, <2>1 DEF Rooted
    <3> QED  BY <3>2, <3>3 DEF Role
  <2>4. Removing'
    BY <1>1, <2>1 DEF Removing
  <2>5. ASSUME NEW g \in Host PROVE Alone(g)'
    <3>1. CASE g = h
      <4>1. \A k \in Host \ {h} : ~Touches(k, Main)'
        BY <1>7, <2>1 DEF Quiet, Touches
      <4> QED  BY <1>1, <1>5, <1>6, <2>1, <2>2, <3>1, <4>1 DEF Alone
    <3>2. CASE g # h
      <4>1. ~(pc[g] \in {"founded", "secured"} /\ path[g] = "init")
        BY <2>2, <3>2, OneFounder DEF Touches
      <4> QED  BY <1>1, <1>6, <3>2, <4>1 DEF Alone
    <3> QED  BY <3>1, <3>2
  <2> QED  BY <1>1, <1>7, <2>3, <2>4, <2>5, RoleStep
<1>9. CASE path[h] # "init"
  <2>1. path[h] = "demote" /\ c # Main
    BY <1>1, <1>2, <1>9 DEF Founds, Role, Directory
  <2>2. Touches(h, Main)' => Touches(h, Main)
    BY <1>1, <1>5, <2>1 DEF Touches
  <2>3. Course(h)' /\ Modes(h)' /\ Directory(h)' /\ Seat(h)' /\ Recorded(h)'
    BY <1>1, <1>2, <1>6, <2>1 DEF Course, Modes, Directory, Seat, Recorded, Role
  <2>4. Rooted(h)'
    BY <1>1, <1>2, <2>1 DEF Role, Rooted
  <2>5. Role(h)'
    BY <2>3, <2>4 DEF Role
  <2> HIDE DEF c
  <2> QED  BY <1>1, <1>5, <1>6, <1>7, <2>1, <2>2, <2>5, HostStep
<1> QED  BY <1>8, <1>9

\* RBAC is enabled when the founder can log in.
LEMMA EnableAuthRole ==
  ASSUME ModeInv, IInv', NEW h \in Host, EnableAuth(h)
  PROVE  ModeInv'
<1>1. /\ pc[h] = "secured" /\ auth' = [auth EXCEPT ![data[h].cl] = TRUE]
      /\ etcd' = [etcd EXCEPT ![h] = FALSE] /\ Goto(h, "start")
      /\ UNCHANGED <<umode, gen, certs, key, data, path, ans, founded, member, user, record,
                     job, budget, raced>>
  BY DEF EnableAuth, disk
<1>2. TypeOK /\ Role(h) /\ Alone(h) /\ Main \in Cluster /\ "start" \in Steps
  BY MainIsCluster DEF ModeInv, IInv, Steps
<1>3. /\ pc'[h] = "start"
      /\ \A g \in Host \ {h} : pc'[g] = pc[g] /\ etcd'[g] = etcd[g]
  BY <1>1, <1>2, GotoType DEF TypeOK
<1>4. Course(h)' /\ Modes(h)' /\ Directory(h)' /\ Seat(h)' /\ Recorded(h)'
  BY <1>1, <1>2, <1>3 DEF Course, Modes, Directory, Seat, Recorded, Role
<1>5. CASE path[h] = "init"
  <2>1. /\ \A g \in Host \ {h} : ~Touches(g, Main)
        /\ \A i \in Removal : job[i].at = "none"
        /\ data[h] = [cl |-> Main, live |-> TRUE]
        /\ certs[h] = Main /\ h \in user[Main] /\ key[h] = "good"
    BY <1>1, <1>2, <1>5 DEF Alone
  <2>2. ASSUME NEW g \in Host PROVE Role(g)'
    <3>1. CASE g = h
      <4>1. Rooted(h)'
        BY <1>1, <2>1, MainIsCluster DEF Rooted, Accepted
      <4> QED  BY <1>4, <3>1, <4>1 DEF Role
    <3>2. CASE g # h
      <4>1. Role(g) /\ Quiet(g)
        BY <1>1, <1>3, <3>2 DEF ModeInv, Quiet
      <4>2. Course(g)' /\ Modes(g)' /\ Directory(g)' /\ Seat(g)' /\ Recorded(g)'
        BY <1>1, <4>1, QuietParts
      <4>3. Rooted(g)'
        BY <1>1, <2>1, <3>2 DEF Rooted, Touches
      <4> QED  BY <4>2, <4>3 DEF Role
    <3> QED  BY <3>1, <3>2
  <2>3. ASSUME NEW g \in Host PROVE Alone(g)'
    <3>1. ~(pc'[g] \in {"founded", "secured"} /\ path'[g] = "init")
      BY <1>1, <1>3, <2>1, OneFounder DEF Touches
    <3> QED  BY <3>1 DEF Alone
  <2>4. founded > 0
    <3>1. Main <= founded
      BY <1>2, <2>1 DEF ModeInv, IInv, FoundedFirst, Touches
    <3>2. founded \in Nat
      BY <1>2, HostType
    <3> QED  BY <3>1, <3>2 DEF Main
  <2>5. Removing'
    BY <1>1, <2>1, <2>4 DEF Removing
  <2> QED  BY <2>2, <2>3, <2>5 DEF ModeInv
<1>6. CASE path[h] # "init"
  <2>1. data[h].cl # Main
    BY <1>1, <1>2, <1>6 DEF Role, Course, Directory
  <2>2. auth'[Main] = auth[Main]
    BY <1>1, <1>2, <2>1 DEF TypeOK
  <2> QED  BY <1>1, <1>3, <1>4, <2>2, ProcessStep
<1> QED  BY <1>5, <1>6

LEMMA StartEmbeddedRole ==
  ASSUME ModeInv, IInv', NEW h \in Host, StartEmbedded(h)
  PROVE  ModeInv'
<1>1. pc[h] = "start" /\ UNCHANGED <<umode, disk, store, job, raced>>
  BY DEF StartEmbedded
<1>2. CASE certs[h] = None
  BY <1>1, <1>2, FailStep DEF StartEmbedded
<1>3. CASE certs[h] # None
  <2>1. /\ etcd' = [etcd EXCEPT ![h] = TRUE] /\ Goto(h, "starting") /\ UNCHANGED <<path, ans>>
    BY <1>3 DEF StartEmbedded
  <2>2. TypeOK /\ Role(h)
    BY DEF ModeInv, IInv
  <2>3. \A g \in Host \ {h} : etcd'[g] = etcd[g]
    BY <2>1, <2>2 DEF TypeOK
  <2>4. ASSUME pc'[h] = "starting"
        PROVE  Course(h)' /\ Modes(h)' /\ Directory(h)' /\ Seat(h)' /\ Recorded(h)'
    BY <1>1, <2>1, <2>2, <2>4 DEF Course, Modes, Directory, Seat, Recorded, Role, disk
  <2> QED  BY <1>1, <2>1, <2>3, <2>4, MoveStep DEF Steps, store
<1> QED  BY <1>2, <1>3

LEMMA StartedRole ==
  ASSUME ModeInv, IInv', NEW h \in Host, Started(h)
  PROVE  ModeInv'
<1>1. /\ pc[h] = "starting" /\ Own(h)
      /\ Goto(h, IF path[h] = "demote" THEN "list"
                 ELSE IF data[h].cl = certs[h] THEN "boot" ELSE "apart")
      /\ UNCHANGED <<umode, disk, path, etcd, ans, store, job, budget, raced>>
  BY DEF Started
<1>2. TypeOK /\ Role(h)
  BY DEF ModeInv, IInv
<1>3. etcd[h] /\ (data[h].cl = Main => member[Main][h] = "voter")
  BY <1>1, OwnIsVoter
<1>4. CASE path[h] = "demote"
  <2>1. ASSUME pc'[h] = "list"
        PROVE  Course(h)' /\ Modes(h)' /\ Directory(h)' /\ Seat(h)' /\ Recorded(h)'
    BY <1>1, <1>2, <1>4, <2>1 DEF Course, Modes, Directory, Seat, Recorded, Role, disk
  <2> QED  BY <1>1, <1>4, <2>1, MoveStep DEF Steps, store
<1>5. CASE path[h] # "demote" /\ data[h].cl = certs[h]
  <2>1. pc'[h] = "boot" => data[h].cl = Main
    BY <1>1, <1>5 DEF IInv, Local, InMain, Inside, disk
  <2>2. ASSUME pc'[h] = "boot"
        PROVE  Course(h)' /\ Modes(h)' /\ Directory(h)' /\ Seat(h)' /\ Recorded(h)'
    BY <1>1, <1>2, <1>3, <1>5, <2>1, <2>2
    DEF Course, Modes, Directory, Seat, Recorded, Role, disk, store
  <2> QED  BY <1>1, <1>5, <2>2, MoveStep DEF Steps, store
<1>6. CASE path[h] # "demote" /\ data[h].cl # certs[h]
  <2>1. ASSUME pc'[h] = "apart"
        PROVE  Course(h)' /\ Modes(h)' /\ Directory(h)' /\ Seat(h)' /\ Recorded(h)'
    BY <1>1, <1>2, <1>6, <2>1 DEF Course, Modes, Directory, Seat, Recorded, Role, disk, store
  <2> QED  BY <1>1, <1>6, <2>1, MoveStep DEF Steps, store
<1> QED  BY <1>4, <1>5, <1>6

\* A server that is not ready, or not accepted, and a learner.
LEMMA StartFailsRole ==
  ASSUME ModeInv, IInv', NEW h \in Host, StartFails(h)
  PROVE  ModeInv'
<1> DEFINE c == data[h].cl
<1>1. /\ pc[h] = "starting" /\ Fail(h)
      /\ member' = member \/ (member[c][h] = "added" /\ data[h].live
                             /\ member' = [member EXCEPT ![c][h] = "learner"])
      /\ UNCHANGED <<umode, gen, certs, key, data, founded, auth, user, record, job, budget, raced>>
  BY DEF StartFails, disk
<1>2. TypeOK /\ Role(h) /\ Main \in Cluster
  BY MainIsCluster DEF ModeInv, IInv
<1>3. data[h].live => c \in Cluster
  <2>1. data[h] \in {NoData} \cup [cl : Cluster, live : BOOLEAN]
    BY <1>2 DEF TypeOK
  <2> QED  BY <2>1 DEF NoData
<1>4. /\ \A g \in Host \ {h} : member'[Main][g] = member[Main][g]
      /\ member'[Main][h] = "voter" => member[Main][h] = "voter"
      /\ member'[Main][h] # "none" => member[Main][h] # "none"
  <2>1. CASE member' = member
    BY <2>1
  <2>2. CASE member' # member
    <3>1. /\ c \in Cluster /\ member[c][h] = "added"
          /\ member' = [member EXCEPT ![c][h] = "learner"]
      BY <1>1, <1>3, <2>2
    <3> HIDE DEF c
    <3>2. /\ member'[c][h] = "learner"
          /\ \A d \in Cluster, g \in Host : d # c \/ g # h => member'[d][g] = member[d][g]
      BY <1>2, <3>1, MemberType
    <3> QED  BY <1>2, <3>1, <3>2
  <2> QED  BY <2>1, <2>2
<1>5. /\ pc'[h] \in {"preinit", "down"} /\ \A g \in Host : ans'[g] \subseteq ans[g]
      /\ \A g \in Host \ {h} : /\ pc'[g] = pc[g] /\ path'[g] = path[g]
                               /\ etcd'[g] = etcd[g]
  BY <1>1, <1>2, FailProcess
<1>6. \A g \in Host \ {h} : Quiet(g)
  BY <1>1, <1>4, <1>5 DEF Quiet
<1>7. Role(h)'
  <2>1. Course(h)' /\ Modes(h)' /\ Directory(h)' /\ Seat(h)' /\ Recorded(h)'
    BY <1>1, FailRole
  <2>2. Rooted(h)'
    BY <1>1, <1>2, <1>4 DEF Role, Rooted, Accepted
  <2> QED  BY <2>1, <2>2 DEF Role
<1>8. Touches(h, Main)' => Touches(h, Main)
  BY <1>1, <1>4 DEF Touches
<1> QED  BY <1>1, <1>4, <1>5, <1>6, <1>7, <1>8, HostStep

-----------------------------------------------------------------------------
(***************************************************************************)
(* JoinCluster                                                             *)
(***************************************************************************)

\* A new password: the host has no record, so it is not being removed, and if it
\* has stored the old one it is noted in raced.
LEMMA GetJoinOptionsRole ==
  ASSUME ModeInv, IInv', NEW h \in Host, NEW s \in Host, GetJoinOptions(h, s)
  PROVE  ModeInv'
<1>1. TypeOK /\ Role(h) /\ Removing /\ Main \in Cluster
  BY MainIsCluster DEF ModeInv, IInv
<1>2. certs[s] = Main /\ pc[s] = "serving"
  BY DEF GetJoinOptions, ModeInv, IInv, Local, InMain, Inside
<1>3. /\ pc[h] # "serving" /\ record[Main][h] = "none"
      /\ user' = [user EXCEPT ![Main] = @ \cup {h}]
      /\ key' = key \/ (key' = [key EXCEPT ![h] = "stale"] /\ h \in raced')
      /\ raced \subseteq raced' /\ (Targeted(h) => h \in raced')
      /\ UNCHANGED <<umode, gen, certs, data, pc, path, etcd, founded, member, auth, record, job>>
  BY <1>2 DEF GetJoinOptions, PreInit
<1>4. /\ user'[Main] = user[Main] \cup {h} /\ raced \subseteq raced'
      /\ \A g \in Host \ {h} : key'[g] = key[g]
      /\ key' = key \/ h \in raced'
  <2>1. user'[Main] = user[Main] \cup {h} /\ \A g \in Host \ {h} : key'[g] = key[g]
    BY <1>1, <1>3 DEF TypeOK
  <2> QED  BY <1>3, <2>1
<1>5. \A g \in Host \ {h} : Quiet(g)
  BY <1>3, <1>4 DEF Quiet
<1>6. Role(h)'
  <2>1. Course(h)' /\ Modes(h)' /\ Directory(h)' /\ Seat(h)' /\ Recorded(h)'
    BY <1>1, <1>3 DEF Course, Modes, Directory, Seat, Recorded, Role
  <2>2. Rooted(h)'
    BY <1>1, <1>3, <1>4 DEF Role, Rooted, Accepted
  <2> QED  BY <2>1, <2>2 DEF Role
<1>7. Removing'
  <2>1. ASSUME NEW i \in Removal, job[i].host = h, NEW at
        PROVE  Going(at, h)'
    BY <1>3, <2>1 DEF Going, Targeted
  <2> QED  BY <1>3, <1>4, <1>5, <2>1, RemovingStep
<1>8. \A g \in Host : Alone(g)'
  BY <1>2, <1>3, NobodyFounds
<1> QED  BY <1>3, <1>4, <1>5, <1>6, <1>7, <1>8, RoleStep

LEMMA JoinRole ==
  ASSUME ModeInv, IInv', NEW h \in Host, Join(h)
  PROVE  ModeInv'
<1>1. PICK a \in ans[h] :
        /\ pc[h] \in {"preinit", "serving"}
        /\ ans' = [ans EXCEPT ![h] = @ \ {a}]
        /\ IF pc[h] = "preinit" /\ ~IsInitialized(h)
           THEN /\ WriteHostCredentials(h, a.cl, a.key)
                /\ Goto(h, "creds")
                /\ path' = [path EXCEPT ![h] = "join"]
           ELSE UNCHANGED <<gen, certs, key, pc, path>>
        /\ UNCHANGED <<umode, data, etcd, store, job, budget, raced>>
  BY DEF Join
<1>2. TypeOK /\ Role(h) /\ "creds" \in Steps
  BY DEF ModeInv, IInv, Steps
<1>3. \A g \in Host : ans'[g] \subseteq ans[g]
  BY <1>1, <1>2 DEF TypeOK
<1>4. CASE pc[h] = "preinit" /\ ~IsInitialized(h)
  <2>1. /\ certs' = [certs EXCEPT ![h] = a.cl] /\ key' = [key EXCEPT ![h] = a.key]
        /\ gen' = [gen EXCEPT ![h].mode = umode[h]]
        /\ Goto(h, "creds") /\ path' = [path EXCEPT ![h] = "join"]
    BY <1>1, <1>4 DEF WriteHostCredentials
  <2>2. gen'[h].mode = umode[h] /\ \A g \in Host \ {h} : gen'[g] = gen[g]
    BY <1>2, <2>1, GenMode, HostType
  <2>3. pc'[h] = "creds" /\ \A g \in Host \ {h} : pc'[g] = pc[g]
    BY <1>2, <2>1, GotoType
  <2>4. /\ path'[h] = "join"
        /\ \A g \in Host \ {h} : path'[g] = path[g] /\ certs'[g] = certs[g] /\ key'[g] = key[g]
    BY <1>2, <2>1 DEF TypeOK
  <2>5. \A g \in Host \ {h} : Quiet(g)
    BY <1>1, <2>2, <2>3, <2>4 DEF Quiet, store
  <2>6. data[h].cl # Main
    <3>1. umode[h] = "server" => data[h] = NoData
      BY <1>4 DEF IsInitialized
    <3>2. gen[h].mode \in {"", umode[h]} /\ umode[h] \in {"server", "client"}
      BY <1>2, <1>4, HostType DEF Role, Modes
    <3>3. umode[h] = "client" => data[h].cl # Main
      BY <1>2, <3>2 DEF Role, Directory
    <3>4. NoData.cl # Main
      BY MainIsCluster DEF NoData
    <3> QED  BY <3>1, <3>2, <3>3, <3>4
  <2>7. Course(h)' /\ Modes(h)' /\ Directory(h)' /\ Seat(h)' /\ Recorded(h)'
    BY <1>1, <2>2, <2>3, <2>4, <2>6 DEF Course, Modes, Directory, Seat, Recorded
  <2>8. Rooted(h)'
    BY <1>1, <1>2, <2>6 DEF Role, Rooted, store
  <2>9. Role(h)'
    BY <2>7, <2>8 DEF Role
  <2>10. ASSUME NEW g \in Host PROVE Alone(g)'
    <3>1. ~(pc[g] \in {"founded", "secured"} /\ path[g] = "init")
      BY <1>1 DEF ModeInv, Alone
    <3> QED  BY <2>3, <2>4, <3>1 DEF Alone
  <2>11. Removing'
    BY <1>1, <2>3, <2>5, QuietRemoving DEF store
  <2> QED  BY <1>1, <2>5, <2>9, <2>10, <2>11, RoleStep DEF store
<1>5. CASE ~(pc[h] = "preinit" /\ ~IsInitialized(h))
  <2>1. UNCHANGED <<gen, certs, key, pc, path>>
    BY <1>1, <1>5
  <2>2. Course(h)' /\ Modes(h)' /\ Directory(h)' /\ Seat(h)' /\ Recorded(h)'
    BY <1>1, <1>2, <2>1 DEF Course, Modes, Directory, Seat, Recorded, Role, store
  <2> QED  BY <1>1, <1>3, <2>1, <2>2, ProcessStep DEF store
<1> QED  BY <1>4, <1>5

LEMMA JoinRemoteRole ==
  ASSUME ModeInv, IInv', NEW h \in Host, JoinRemote(h)
  PROVE  ModeInv'
<1>1. /\ pc[h] = "creds" /\ umode[h] = "client"
      /\ UNCHANGED <<umode, certs, key, data, store, job, raced>>
  BY DEF JoinRemote
<1>2. TypeOK /\ Role(h)
  BY DEF ModeInv, IInv
<1>3. CASE Answered(h, certs[h], Host)
  <2>1. /\ gen' = [gen EXCEPT ![h].eps = Endpoints(certs[h])] /\ Goto(h, "boot")
        /\ UNCHANGED <<path, etcd, ans>>
    BY <1>3 DEF JoinRemote
  <2>2. Endpoints(certs[h]) \in SUBSET Host
    BY DEF Endpoints, Voters
  <2>3. gen'[h].mode = gen[h].mode /\ \A g \in Host \ {h} : gen'[g] = gen[g]
    BY <1>2, <2>1, <2>2, GenEndpoints
  <2>4. ASSUME pc'[h] = "boot"
        PROVE  Course(h)' /\ Modes(h)' /\ Directory(h)' /\ Seat(h)' /\ Recorded(h)'
    BY <1>1, <1>2, <2>1, <2>3, <2>4 DEF Course, Modes, Directory, Seat, Recorded, Role
  <2> QED  BY <1>1, <2>1, <2>3, <2>4, ConfigStep DEF Steps
<1>4. CASE ~Answered(h, certs[h], Host)
  BY <1>1, <1>4, FailStep DEF JoinRemote, disk
<1> QED  BY <1>3, <1>4

\* A new member: nobody removes it without its host being noted in raced.
LEMMA AddLearnerRole ==
  ASSUME ModeInv, IInv', NEW h \in Host, AddLearner(h)
  PROVE  ModeInv'
<1>1. /\ pc[h] = "creds" /\ umode[h] = "server"
      /\ UNCHANGED <<umode, disk, founded, auth, user, record, job, budget>>
  BY DEF AddLearner
<1>2. TypeOK /\ Role(h) /\ Removing /\ certs[h] = Main /\ Main \in Cluster /\ "added" \in Steps
  BY <1>1, MainIsCluster DEF ModeInv, IInv, Local, InMain, Inside, Steps
<1>3. CASE CanAdd(h, certs[h])
  <2>1. /\ member' = [member EXCEPT ![Main][h] = "added"] /\ Goto(h, "added")
        /\ raced' = IF Targeted(h) THEN raced \cup {h} ELSE raced
        /\ UNCHANGED <<path, etcd, ans>>
    BY <1>2, <1>3 DEF AddLearner
  <2>2. /\ member'[Main][h] = "added"
        /\ \A g \in Host \ {h} : member'[Main][g] = member[Main][g]
    BY <1>2, <2>1, MainMember
  <2>3. pc'[h] = "added" /\ \A g \in Host \ {h} : pc'[g] = pc[g]
    BY <1>2, <2>1, GotoType
  <2>4. raced \subseteq raced' /\ \A i \in Removal : job[i].host = h => h \in raced'
    BY <2>1 DEF Targeted
  <2>5. \A g \in Host \ {h} : Quiet(g)
    BY <1>1, <2>1, <2>2, <2>3 DEF Quiet, disk
  <2>6. Course(h)' /\ Modes(h)' /\ Directory(h)' /\ Seat(h)' /\ Recorded(h)'
    BY <1>1, <1>2, <2>1, <2>2, <2>3 DEF Course, Modes, Directory, Seat, Recorded, Role, disk
  <2>7. Role(h)'
    BY <2>2, <2>6 DEF Role, Rooted
  <2>8. Removing'
    <3>1. ASSUME NEW i \in Removal, job[i].host = h, NEW at
          PROVE  Going(at, h)'
      BY <2>4, <3>1 DEF Going
    <3> QED  BY <1>1, <2>4, <2>5, <3>1, RemovingStep
  <2>9. \A g \in Host : Alone(g)'
    BY <1>1, <1>2, <2>1, <2>3, NobodyFounds
  <2> QED  BY <1>1, <2>4, <2>5, <2>7, <2>8, <2>9, RoleStep
<1>4. CASE ~CanAdd(h, certs[h])
  BY <1>1, <1>4, FailStep DEF AddLearner, store
<1> QED  BY <1>3, <1>4

LEMMA StartLearnerRole ==
  ASSUME ModeInv, IInv', NEW h \in Host, StartLearner(h)
  PROVE  ModeInv'
<1>1. TypeOK /\ Role(h) /\ Removing /\ Main \in Cluster /\ "learner" \in Steps
  BY MainIsCluster DEF ModeInv, IInv, Steps
<1>2. certs[h] = Main /\ pc[h] = "added"
  BY DEF StartLearner, ModeInv, IInv, Local, InMain, Inside
<1>3. /\ data' = [data EXCEPT ![h] = [cl |-> Main, live |-> TRUE]]
      /\ etcd' = [etcd EXCEPT ![h] = TRUE]
      /\ member' = [member EXCEPT ![Main][h] = "learner"]
      /\ Goto(h, "learner")
      /\ UNCHANGED <<umode, gen, certs, key, path, ans, founded, auth, user, record, job, raced>>
  BY <1>2 DEF StartLearner
<1>4. /\ member'[Main][h] = "learner"
      /\ \A g \in Host \ {h} : member'[Main][g] = member[Main][g]
  BY <1>1, <1>3, MainMember
<1>5. /\ pc'[h] = "learner" /\ data'[h].cl = Main
      /\ \A g \in Host \ {h} : pc'[g] = pc[g] /\ data'[g] = data[g] /\ etcd'[g] = etcd[g]
  BY <1>1, <1>3, GotoType DEF TypeOK
<1>6. \A g \in Host \ {h} : Quiet(g)
  BY <1>3, <1>4, <1>5 DEF Quiet
<1>7. umode[h] = "server" /\ gen[h].mode = "server"
  BY <1>1, <1>2 DEF Role, Modes
<1>8. Role(h)'
  <2>1. Course(h)' /\ Modes(h)' /\ Directory(h)' /\ Seat(h)' /\ Recorded(h)'
    BY <1>1, <1>2, <1>3, <1>5, <1>7 DEF Course, Modes, Directory, Seat, Recorded, Role
  <2> QED  BY <1>4, <2>1 DEF Role, Rooted
<1>9. Removing'
  <2>1. ASSUME NEW at \in {"list", "member", "user", "record"}, Going(at, h)
        PROVE  Going(at, h)'
    BY <1>2, <1>3, <1>4, <1>5, <2>1 DEF Going
  <2> QED  BY <1>3, <1>6, <2>1, RemovingStep
<1>10. \A g \in Host : Alone(g)'
  BY <1>2, <1>3, <1>5, NobodyFounds
<1> QED  BY <1>3, <1>6, <1>8, <1>9, <1>10, RoleStep

LEMMA StartLearnerFailsRole ==
  ASSUME ModeInv, IInv', NEW h \in Host, StartLearnerFails(h)
  PROVE  ModeInv'
<1>1. /\ pc[h] = "added" /\ Fail(h)
      /\ data' = [data EXCEPT ![h] = [cl |-> certs[h], live |-> TRUE]]
      /\ UNCHANGED <<umode, gen, certs, key, store, job, raced>>
  BY DEF StartLearnerFails
<1>2. TypeOK /\ Role(h) /\ certs[h] = Main
  BY <1>1 DEF ModeInv, IInv, Local, InMain, Inside
<1>3. \A g \in Host \ {h} : data'[g] = data[g]
  BY <1>1, <1>2 DEF TypeOK
<1>4. /\ pc'[h] \in {"preinit", "down"} /\ \A g \in Host : ans'[g] \subseteq ans[g]
      /\ \A g \in Host \ {h} : /\ pc'[g] = pc[g] /\ path'[g] = path[g]
                               /\ etcd'[g] = etcd[g]
  BY <1>1, <1>2, FailProcess
<1>5. \A g \in Host \ {h} : Quiet(g)
  BY <1>1, <1>3, <1>4 DEF Quiet, store
<1>6. gen[h].mode = "server" /\ member[Main][h] # "voter"
  BY <1>1, <1>2 DEF Role, Modes, Seat
<1>7. Role(h)'
  <2>1. Course(h)' /\ Modes(h)' /\ Directory(h)' /\ Seat(h)' /\ Recorded(h)'
    BY <1>1, <1>6, FailRole
  <2> QED  BY <1>1, <1>6, <2>1 DEF Role, Rooted, store
<1>8. Touches(h, Main)
  BY <1>2 DEF Touches
<1> QED  BY <1>1, <1>4, <1>5, <1>7, <1>8, HostStep DEF store

\* A learner becomes a voter when it can log in and has its data directory.
LEMMA PromoteRole ==
  ASSUME ModeInv, IInv', NEW h \in Host, Promote(h)
  PROVE  ModeInv'
<1>1. TypeOK /\ Role(h) /\ Removing /\ Main \in Cluster /\ "promoted" \in Steps
  BY MainIsCluster DEF ModeInv, IInv, Steps
<1>2. certs[h] = Main /\ pc[h] = "learner" /\ data[h].live
  BY DEF Promote, ModeInv, IInv, Local, InMain, Inside
<1>3. /\ Accepted(h, Main) /\ member' = [member EXCEPT ![Main][h] = "voter"]
      /\ Goto(h, "promoted")
      /\ UNCHANGED <<umode, disk, path, etcd, ans, founded, auth, user, record, job, raced>>
  BY <1>2 DEF Promote, Answered
<1>4. \A g \in Host \ {h} : member'[Main][g] = member[Main][g]
  BY <1>1, <1>3, MainMember
<1>5. pc'[h] = "promoted" /\ \A g \in Host \ {h} : pc'[g] = pc[g]
  BY <1>1, <1>3, GotoType
<1>6. \A g \in Host \ {h} : Quiet(g)
  BY <1>3, <1>4, <1>5 DEF Quiet, disk
<1>7. data[h] = [cl |-> Main, live |-> TRUE]
  <2>1. data[h].cl = Main
    BY <1>1, <1>2 DEF Role, Directory
  <2>2. data[h] \in [cl : Cluster, live : BOOLEAN]
    <3>1. data[h] \in {NoData} \cup [cl : Cluster, live : BOOLEAN]
      BY <1>1 DEF TypeOK
    <3>2. data[h] # NoData
      BY <2>1, MainIsCluster DEF NoData
    <3> QED  BY <3>1, <3>2
  <2> QED  BY <1>2, <2>1, <2>2
<1>8. Role(h)'
  <2>1. Course(h)' /\ Modes(h)' /\ Directory(h)' /\ Seat(h)' /\ Recorded(h)'
    BY <1>1, <1>2, <1>3, <1>5 DEF Course, Modes, Directory, Seat, Recorded, Role, disk
  <2>2. Rooted(h)'
    BY <1>3, <1>7 DEF Rooted, Accepted, disk
  <2> QED  BY <2>1, <2>2 DEF Role
<1>9. Removing'
  <2>1. ASSUME NEW at \in {"list", "member", "user", "record"}, Going(at, h)
        PROVE  Going(at, h)'
    BY <1>2, <1>3, <1>5, <2>1 DEF Going
  <2> QED  BY <1>3, <1>6, <2>1, RemovingStep
<1>10. \A g \in Host : Alone(g)'
  BY <1>2, <1>3, <1>5, NobodyFounds
<1> QED  BY <1>3, <1>6, <1>8, <1>9, <1>10, RoleStep

LEMMA PromoteFailsRole ==
  ASSUME ModeInv, IInv', NEW h \in Host, PromoteFails(h)
  PROVE  ModeInv'
<1>1. /\ pc[h] = "learner" /\ Fail(h)
      /\ UNCHANGED <<umode, gen, certs, key, founded, auth, user, record, job, raced>>
  BY DEF PromoteFails
<1>2. TypeOK /\ Role(h) /\ certs[h] = Main
  BY <1>1 DEF ModeInv, IInv, Local, InMain, Inside
<1>3. CASE UNCHANGED <<member, data>>
  BY <1>1, <1>3, FailStep DEF disk, store
<1>4. CASE MemberRemove(h, Main)
  <2>1. /\ member'[Main][h] = "none" /\ data'[h].cl = data[h].cl
        /\ \A g \in Host \ {h} : data'[g] = data[g] /\ member'[Main][g] = member[Main][g]
    BY <1>2, <1>4, MainRemove
  <2>2. /\ pc'[h] \in {"preinit", "down"} /\ \A g \in Host : ans'[g] \subseteq ans[g]
        /\ \A g \in Host \ {h} : /\ pc'[g] = pc[g] /\ path'[g] = path[g]
                                 /\ etcd'[g] = etcd[g]
    BY <1>1, <1>2, FailProcess
  <2>3. \A g \in Host \ {h} : Quiet(g)
    BY <1>1, <2>1, <2>2 DEF Quiet
  <2>4. Role(h)'
    <3>1. Course(h)' /\ Modes(h)' /\ Directory(h)' /\ Seat(h)' /\ Recorded(h)'
      BY <1>1, <2>1, FailRole
    <3> QED  BY <2>1, <3>1 DEF Role, Rooted
  <2>5. Touches(h, Main)
    BY <1>2 DEF Touches
  <2> QED  BY <1>1, <2>1, <2>2, <2>3, <2>4, <2>5, HostStep
<1> QED  BY <1>2, <1>3, <1>4 DEF PromoteFails

LEMMA JoinedRole ==
  ASSUME ModeInv, IInv', NEW h \in Host, Joined(h)
  PROVE  ModeInv'
<1>1. /\ pc[h] = "promoted" /\ Own(h) /\ Goto(h, "boot")
      /\ gen' = IF path[h] = "promote"
                THEN [gen EXCEPT ![h] = [mode |-> "server", eps |-> {}]] ELSE gen
      /\ UNCHANGED <<umode, certs, key, data, path, etcd, ans, store, job, raced>>
  BY DEF Joined
<1>2. TypeOK /\ Role(h) /\ certs[h] = Main
  BY <1>1 DEF ModeInv, IInv, Local, InMain, Inside
<1>3. umode[h] = "server" /\ gen[h].mode = "server"
  BY <1>1, <1>2 DEF Role, Modes
<1>4. gen'[h].mode = "server" /\ \A g \in Host \ {h} : gen'[g] = gen[g]
  BY <1>1, <1>2, <1>3 DEF TypeOK
<1>5. data[h].cl = Main /\ etcd[h] /\ member[Main][h] = "voter"
  BY <1>1, <1>2, OwnIsVoter DEF Role, Directory
<1>6. ASSUME pc'[h] = "boot"
      PROVE  Course(h)' /\ Modes(h)' /\ Directory(h)' /\ Seat(h)' /\ Recorded(h)'
  BY <1>1, <1>2, <1>3, <1>4, <1>5, <1>6
  DEF Course, Modes, Directory, Seat, Recorded, Role, store
<1> QED  BY <1>1, <1>4, <1>6, ConfigStep DEF Steps

LEMMA JoinedFailsRole ==
  ASSUME ModeInv, IInv', NEW h \in Host, JoinedFails(h)
  PROVE  ModeInv'
  BY FailStep DEF JoinedFails

-----------------------------------------------------------------------------
(***************************************************************************)
(* The change of mode, and the end of a process                            *)
(***************************************************************************)

LEMMA ConnectRole ==
  ASSUME ModeInv, IInv', NEW h \in Host, Connect(h)
  PROVE  ModeInv'
<1>1. /\ pc[h] = "connect" /\ UNCHANGED <<umode, certs, key, data, store, job, raced>>
  BY DEF Connect
<1>2. TypeOK /\ Role(h) /\ Endpoints(certs[h]) \in SUBSET Host
  BY DEF ModeInv, IInv, Endpoints, Voters
<1>3. CASE path[h] = "plain"
  <2>1. Goto(h, "boot") /\ UNCHANGED <<gen, path, etcd, ans>>
    BY <1>3 DEF Connect
  <2>2. ASSUME pc'[h] = "boot"
        PROVE  Course(h)' /\ Modes(h)' /\ Directory(h)' /\ Seat(h)' /\ Recorded(h)'
    BY <1>1, <1>2, <1>3, <2>1, <2>2 DEF Course, Modes, Directory, Seat, Recorded, Role
  <2> QED  BY <1>1, <2>1, <2>2, ConfigStep DEF Steps
<1>4. CASE path[h] # "plain" /\ data[h] # NoData
  <2>1. Exit(h) /\ gen' = [gen EXCEPT ![h].eps = Endpoints(certs[h])]
    BY <1>4 DEF Connect
  <2>2. gen'[h].mode = gen[h].mode /\ \A g \in Host \ {h} : gen'[g] = gen[g]
    BY <1>2, <2>1, GenEndpoints
  <2> QED  BY <1>1, <2>1, <2>2, ExitStep
<1>5. CASE path[h] # "plain" /\ data[h] = NoData
  <2>1. /\ gen' = [gen EXCEPT ![h] = [mode |-> umode[h], eps |-> Endpoints(certs[h])]]
        /\ Goto(h, "creds") /\ UNCHANGED <<path, etcd, ans>>
    BY <1>5 DEF Connect
  <2>2. gen'[h].mode = umode[h] /\ \A g \in Host \ {h} : gen'[g] = gen[g]
    BY <1>2, <2>1 DEF TypeOK
  <2>3. data[h].cl # Main
    BY <1>5, MainIsCluster DEF NoData
  <2>4. ASSUME pc'[h] = "creds"
        PROVE  Course(h)' /\ Modes(h)' /\ Directory(h)' /\ Seat(h)' /\ Recorded(h)'
    BY <1>1, <1>2, <1>5, <2>1, <2>2, <2>3, <2>4
    DEF Course, Modes, Directory, Seat, Recorded, Role
  <2> QED  BY <1>1, <2>1, <2>2, <2>4, ConfigStep DEF Steps
<1> QED  BY <1>3, <1>4, <1>5

LEMMA ListRole ==
  ASSUME ModeInv, IInv', NEW h \in Host, List(h)
  PROVE  ModeInv'
<1> DEFINE others == {g \in Members(data[h].cl) : member[data[h].cl][g] # "added"} \ {h}
<1>1. pc[h] = "list" /\ UNCHANGED <<umode, certs, key, data, store, job, raced>>
  BY DEF List
<1>2. TypeOK /\ Role(h) /\ others \in SUBSET Host
  BY DEF ModeInv, IInv, Members
<1>3. CASE Own(h) /\ others # {}
  <2>1. /\ gen' = [gen EXCEPT ![h].eps = others] /\ etcd' = [etcd EXCEPT ![h] = FALSE]
        /\ Goto(h, "alone") /\ UNCHANGED <<path, ans>>
    BY <1>3 DEF List
  <2> HIDE DEF others
  <2>2. gen'[h].mode = gen[h].mode /\ \A g \in Host \ {h} : gen'[g] = gen[g]
    BY <1>2, <2>1, GenEndpoints
  <2>3. \A g \in Host \ {h} : etcd'[g] = etcd[g]
    BY <1>2, <2>1 DEF TypeOK
  <2>4. ASSUME pc'[h] = "alone"
        PROVE  Course(h)' /\ Modes(h)' /\ Directory(h)' /\ Seat(h)' /\ Recorded(h)'
    BY <1>1, <1>2, <2>1, <2>2, <2>4 DEF Course, Modes, Directory, Seat, Recorded, Role
  <2> QED  BY <1>1, <2>1, <2>2, <2>3, <2>4, ConfigStep DEF Steps
<1>4. CASE ~(Own(h) /\ others # {})
  <2>1. Exit(h) /\ gen' = gen
    BY <1>4 DEF List
  <2> QED  BY <1>1, <2>1, ExitStep
<1> QED  BY <1>3, <1>4

LEMMA LeaveListRole ==
  ASSUME ModeInv, IInv', NEW h \in Host, LeaveList(h)
  PROVE  ModeInv'
<1>1. pc[h] = "alone" /\ UNCHANGED <<umode, disk, store, job, raced>>
  BY DEF LeaveList
<1>2. TypeOK /\ Role(h) /\ certs[h] = Main
  BY <1>1 DEF ModeInv, IInv, Local, InMain, Inside
<1>3. CASE Exit(h)
  BY <1>1, <1>3, ExitStep DEF disk
<1>4. CASE /\ Goto(h, IF Verdict(h, certs[h]) = "absent" THEN "left" ELSE "leaving")
           /\ UNCHANGED <<path, etcd, ans>>
  <2>1. CASE Verdict(h, certs[h]) = "absent"
    <3>1. member[Main][h] # "voter"
      BY <1>2, <2>1 DEF Verdict
    <3>2. ASSUME pc'[h] = "left"
          PROVE  Course(h)' /\ Modes(h)' /\ Directory(h)' /\ Seat(h)' /\ Recorded(h)'
      BY <1>1, <1>2, <1>4, <3>1, <3>2
      DEF Course, Modes, Directory, Seat, Recorded, Role, disk, store
    <3> QED  BY <1>1, <1>4, <2>1, <3>2, ConfigStep DEF Steps, disk
  <2>2. CASE Verdict(h, certs[h]) # "absent"
    <3>1. ASSUME pc'[h] = "leaving"
          PROVE  Course(h)' /\ Modes(h)' /\ Directory(h)' /\ Seat(h)' /\ Recorded(h)'
      BY <1>1, <1>2, <1>4, <3>1
      DEF Course, Modes, Directory, Seat, Recorded, Role, disk, store
    <3> QED  BY <1>1, <1>4, <2>2, <3>1, ConfigStep DEF Steps, disk
  <2> QED  BY <2>1, <2>2
<1> QED  BY <1>3, <1>4 DEF LeaveList

\* A server that is to become a client leaves the cluster, or its process ends.
LEMMA LeaveRole ==
  ASSUME ModeInv, IInv', NEW h \in Host, Leave(h)
  PROVE  ModeInv'
<1>1. /\ pc[h] = "leaving"
      /\ UNCHANGED <<umode, gen, certs, key, founded, auth, user, record, job, raced>>
  BY DEF Leave
<1>2. TypeOK /\ Role(h) /\ certs[h] = Main /\ "left" \in Steps
  BY <1>1 DEF ModeInv, IInv, Local, InMain, Inside, Steps
<1>3. CASE Exit(h) /\ UNCHANGED <<member, data>>
  BY <1>1, <1>3, ExitStep DEF store
<1>4. CASE MemberRemove(h, Main) /\ Goto(h, "left") /\ UNCHANGED <<path, etcd, ans>>
  <2>1. /\ member'[Main][h] = "none" /\ data'[h].cl = data[h].cl
        /\ \A g \in Host \ {h} : data'[g] = data[g] /\ member'[Main][g] = member[Main][g]
    BY <1>2, <1>4, MainRemove
  <2>2. pc'[h] = "left" /\ \A g \in Host \ {h} : pc'[g] = pc[g]
    BY <1>2, <1>4, GotoType
  <2>3. \A g \in Host \ {h} : Quiet(g)
    BY <1>1, <1>4, <2>1, <2>2 DEF Quiet
  <2>4. Role(h)'
    <3>1. Course(h)' /\ Modes(h)' /\ Directory(h)' /\ Seat(h)' /\ Recorded(h)'
      BY <1>1, <1>2, <1>4, <2>1, <2>2 DEF Course, Modes, Directory, Seat, Recorded, Role
    <3> QED  BY <2>1, <3>1 DEF Role, Rooted
  <2>5. Touches(h, Main)
    BY <1>2 DEF Touches
  <2> QED  BY <1>1, <1>4, <2>1, <2>2, <2>3, <2>4, <2>5, HostStep
<1> QED  BY <1>2, <1>3, <1>4 DEF Leave

\* Only who has left loses its data directory.
LEMMA WipeRole ==
  ASSUME ModeInv, IInv', NEW h \in Host, Wipe(h)
  PROVE  ModeInv'
<1>1. /\ pc[h] = "left" /\ data' = [data EXCEPT ![h] = NoData] /\ Goto(h, "wiped")
      /\ UNCHANGED <<umode, gen, certs, key, path, etcd, ans, store, job, raced>>
  BY DEF Wipe
<1>2. TypeOK /\ Role(h) /\ member[Main][h] # "voter" /\ "wiped" \in Steps
  BY <1>1 DEF ModeInv, IInv, Role, Seat, Steps
<1>3. data'[h] = NoData /\ \A g \in Host \ {h} : data'[g] = data[g]
  BY <1>1, <1>2 DEF TypeOK
<1>4. data'[h].cl # Main
  BY <1>3, MainIsCluster DEF NoData
<1>5. pc'[h] = "wiped" /\ \A g \in Host \ {h} : pc'[g] = pc[g]
  BY <1>1, <1>2, GotoType
<1>6. \A g \in Host \ {h} : Quiet(g)
  BY <1>1, <1>3, <1>5 DEF Quiet, store
<1>7. Role(h)'
  <2>1. Course(h)' /\ Modes(h)' /\ Directory(h)' /\ Seat(h)' /\ Recorded(h)'
    BY <1>1, <1>2, <1>3, <1>4, <1>5 DEF Course, Modes, Directory, Seat, Recorded, Role, store
  <2> QED  BY <1>1, <1>2, <2>1 DEF Role, Rooted, store
<1>8. Touches(h, Main)' => Touches(h, Main)
  BY <1>1, <1>4 DEF Touches, store
<1> QED  BY <1>1, <1>5, <1>6, <1>7, <1>8, HostStep DEF store

LEMMA DemotedRole ==
  ASSUME ModeInv, IInv', NEW h \in Host, Demoted(h)
  PROVE  ModeInv'
<1>1. /\ pc[h] = "wiped" /\ gen' = [gen EXCEPT ![h].mode = "client"] /\ Goto(h, "boot")
      /\ UNCHANGED <<umode, certs, key, data, path, etcd, ans, store, job, raced>>
  BY DEF Demoted
<1>2. TypeOK /\ Role(h) /\ Founds(h)
  BY DEF ModeInv, IInv, Local
<1>3. gen'[h].mode = "client" /\ \A g \in Host \ {h} : gen'[g] = gen[g]
  BY <1>1, <1>2, GenMode
<1>4. umode[h] = "client" /\ data[h].cl # Main
  <2>1. umode[h] = "client"
    BY <1>1, <1>2 DEF Role, Course, Founds
  <2>2. data[h] = NoData
    BY <1>1, <1>2 DEF Role, Directory
  <2> QED  BY <2>1, <2>2, MainIsCluster DEF NoData
<1>5. ASSUME pc'[h] = "boot"
      PROVE  Course(h)' /\ Modes(h)' /\ Directory(h)' /\ Seat(h)' /\ Recorded(h)'
  BY <1>1, <1>2, <1>3, <1>4, <1>5 DEF Course, Modes, Directory, Seat, Recorded, Role
<1> QED  BY <1>1, <1>3, <1>5, ConfigStep DEF Steps

\* UpdateHost writes the record.
LEMMA BootRole ==
  ASSUME ModeInv, IInv', NEW h \in Host, Boot(h)
  PROVE  ModeInv'
<1>1. /\ pc[h] = "boot" /\ Goto(h, "serving")
      /\ record' = [record EXCEPT ![certs[h]][h] = umode[h]]
      /\ UNCHANGED <<umode, disk, path, etcd, ans, founded, member, auth, user, job, raced>>
  BY DEF Boot
<1>2. TypeOK /\ Role(h) /\ certs[h] = Main /\ Main \in Cluster
  BY <1>1, MainIsCluster DEF ModeInv, IInv, Local, InMain, Inside
<1>3. /\ record'[Main][h] = umode[h] /\ umode[h] # "none"
      /\ \A g \in Host \ {h} : record'[Main][g] = record[Main][g]
  BY <1>1, <1>2 DEF TypeOK
<1>4. ASSUME pc'[h] = "serving"
      PROVE  Course(h)' /\ Modes(h)' /\ Directory(h)' /\ Seat(h)' /\ Recorded(h)'
  BY <1>1, <1>2, <1>3, <1>4 DEF Course, Modes, Directory, Seat, Recorded, Role, disk
<1> QED  BY <1>1, <1>3, <1>4, MoveStep DEF Steps

\* The ways in which a process ends with its disk as it is.
LEMMA EndsRole ==
  ASSUME ModeInv, IInv', NEW h \in Host,
         \/ ConnectFails(h) \/ BootFails(h) \/ Restart(h)
         \/ Expelled(h) \/ Crash(h) \/ Timeout(h)
  PROVE  ModeInv'
<1>1. Exit(h) /\ UNCHANGED <<umode, disk, store, raced>>
  BY DEF ConnectFails, BootFails, Restart, Expelled, Crash, Timeout
<1>2. job' = job \/ Interrupt(h)
  BY DEF ConnectFails, BootFails, Restart, Expelled, Crash, Timeout
<1>3. Course(h)' /\ Modes(h)' /\ Directory(h)' /\ Seat(h)' /\ Recorded(h)'
  BY <1>1, ExitRole DEF disk
<1>4. /\ pc'[h] = "down" /\ ans'[h] = {}
      /\ \A g \in Host \ {h} : /\ pc'[g] = pc[g] /\ path'[g] = path[g]
                               /\ etcd'[g] = etcd[g] /\ ans'[g] = ans[g]
  BY <1>1, ExitType DEF ModeInv, IInv
<1>5. \A g \in Host : ans'[g] \subseteq ans[g]
  BY <1>4
<1> QED  BY <1>1, <1>2, <1>3, <1>4, <1>5, ProcessStep DEF disk, store

LEMMA ReconfigureRole ==
  ASSUME ModeInv, IInv', NEW h \in Host, Reconfigure(h)
  PROVE  ModeInv'
<1>1. /\ gen[h].mode # ""
      /\ umode' = [umode EXCEPT ![h] = IF @ = "server" THEN "client" ELSE "server"]
      /\ gen' = gen \/ gen' = [gen EXCEPT ![h].eps = Endpoints(certs[h])]
      /\ Exit(h) /\ Interrupt(h)
      /\ UNCHANGED <<certs, key, data, store, raced>>
  BY DEF Reconfigure
<1>2. TypeOK
  BY DEF ModeInv, IInv
<1>3. gen'[h].mode = gen[h].mode /\ \A g \in Host \ {h} : gen'[g] = gen[g]
  <2>1. Endpoints(certs[h]) \in SUBSET Host
    BY DEF Endpoints, Voters
  <2> QED  BY <1>1, <1>2, <2>1, GenEndpoints
<1>4. \A g \in Host \ {h} : umode'[g] = umode[g]
  BY <1>1, <1>2 DEF TypeOK
<1>5. Course(h)' /\ Modes(h)' /\ Directory(h)' /\ Seat(h)' /\ Recorded(h)'
  BY <1>1, <1>3, ExitRole
<1>6. /\ pc'[h] = "down" /\ ans'[h] = {}
      /\ \A g \in Host \ {h} : /\ pc'[g] = pc[g] /\ path'[g] = path[g]
                               /\ etcd'[g] = etcd[g] /\ ans'[g] = ans[g]
  BY <1>1, <1>2, ExitType
<1>7. \A g \in Host : ans'[g] \subseteq ans[g]
  BY <1>6
<1> QED  BY <1>1, <1>3, <1>4, <1>5, <1>6, <1>7, ProcessStep DEF store

\* Who has no user is no voter.
LEMMA ClearDataDirRole ==
  ASSUME ModeInv, IInv', NEW h \in Host, ClearDataDir(h)
  PROVE  ModeInv'
<1>1. /\ certs[h] # None /\ h \notin user[certs[h]]
      /\ gen' = [gen EXCEPT ![h] = NoGen] /\ certs' = [certs EXCEPT ![h] = None]
      /\ key' = [key EXCEPT ![h] = "none"] /\ data' = [data EXCEPT ![h] = NoData]
      /\ Exit(h) /\ Interrupt(h)
      /\ UNCHANGED <<umode, store, raced>>
  BY DEF ClearDataDir
<1>2. TypeOK /\ Role(h)
  BY DEF ModeInv, IInv
<1>3. /\ certs'[h] = None /\ data'[h] = NoData
      /\ \A g \in Host \ {h} : /\ gen'[g] = gen[g] /\ certs'[g] = certs[g]
                               /\ key'[g] = key[g] /\ data'[g] = data[g]
  BY <1>1, <1>2 DEF TypeOK
<1>4. data'[h].cl # Main /\ certs'[h] # Main
  BY <1>3, MainIsCluster DEF NoData
<1>5. /\ pc'[h] = "down" /\ ans'[h] = {}
      /\ \A g \in Host \ {h} : /\ pc'[g] = pc[g] /\ path'[g] = path[g]
                               /\ etcd'[g] = etcd[g] /\ ans'[g] = ans[g]
  BY <1>1, <1>2, ExitType
<1>6. \A g \in Host \ {h} : Quiet(g)
  BY <1>1, <1>3, <1>5 DEF Quiet, store
<1>7. Role(h)'
  <2>1. Course(h)' /\ Modes(h)' /\ Directory(h)' /\ Seat(h)' /\ Recorded(h)'
    BY <1>1, <1>4, ExitRole
  <2>2. Rooted(h)'
    BY <1>1, <1>2 DEF Role, Rooted, Accepted, store
  <2> QED  BY <2>1, <2>2 DEF Role
<1>8. Touches(h, Main)' => Touches(h, Main)
  BY <1>1, <1>4 DEF Touches, store
<1>9. \A g \in Host : ans'[g] \subseteq ans[g]
  BY <1>5
<1> QED  BY <1>1, <1>5, <1>6, <1>7, <1>8, <1>9, HostStep DEF store

-----------------------------------------------------------------------------
(***************************************************************************)
(* The activity of remove-host                                             *)
(***************************************************************************)

\* The activity is begun, for a host that has a record.
LEMMA RemoveHostRole ==
  ASSUME ModeInv, IInv', NEW s \in Host, NEW h \in Host, RemoveHost(s, h)
  PROVE  ModeInv'
<1>1. certs[s] = Main /\ pc[s] = "serving"
  BY DEF RemoveHost, ModeInv, IInv, Local, InMain, Inside
<1> DEFINE n == budget.remove
           new == [by |-> s, host |-> h, at |-> "list"]
<1>2. /\ job' = [job EXCEPT ![n] = new]
      /\ UNCHANGED <<umode, disk, process, store, raced>>
  BY DEF RemoveHost
<1>3. founded > 0
  BY <1>1, MainIsFounded DEF ModeInv
<1>4. \A g \in Host : Quiet(g)
  BY <1>2 DEF Quiet, disk, process, store
<1>5. Role(h)'
  BY <1>2, <1>4, QuietRole DEF ModeInv, store
<1>6. Removing'
  <2>1. Removing /\ job \in [Removal -> {NoJob} \cup Job]
    BY DEF ModeInv, IInv, TypeOK
  <2>2. ASSUME NEW i \in Removal PROVE job'[i].at = "list" \/ job'[i] = job[i]
    BY <1>2, <2>1
  <2>3. ASSUME NEW i \in Removal, job'[i].at # "none"
        PROVE  Going(job[i].at, job[i].host)'
    <3>1. CASE job'[i].at = "list"
      BY <3>1 DEF Going
    <3>2. CASE job'[i] = job[i]
      BY <1>2, <2>1, <2>3, <3>2 DEF Removing, Going, disk, process, store
    <3> QED  BY <2>2, <3>1, <3>2
  <2> QED  BY <1>2, <1>3, <2>3 DEF Removing, store
<1>7. \A g \in Host : Alone(g)'
  BY <1>1, <1>2, NobodyFounds DEF process
<1> QED  BY <1>2, <1>4, <1>5, <1>6, <1>7, RoleStep DEF store

\* Who executes an activity serves, in the main cluster.
LEMMA AtMain ==
  ASSUME ModeInv, NEW i \in Removal, NEW step \in {"list", "member", "user", "record"}, At(i, step)
  PROVE  /\ job[i].at = step /\ job[i] \in Job /\ job[i].by \in Host /\ job[i].host \in Host
         /\ certs[job[i].by] = Main /\ pc[job[i].by] = "serving"
         /\ founded > 0 /\ Going(step, job[i].host)
<1>1. /\ job[i].at = step /\ pc[job[i].by] = "serving" /\ job[i].by \in Host
      /\ job[i].host \in Host /\ job[i] \in Job
  BY JobType DEF ModeInv, IInv, At
<1> QED  BY <1>1 DEF ModeInv, Removing, IInv, Local, InMain, Inside

\* A step of an activity needs to be looked at for the host it removes: for that
\* activity, and for the others that remove the same host.
LEMMA ActivityStep ==
  ASSUME ModeInv, IInv', NEW i \in Removal, NEW step \in {"list", "member", "user", "record"},
         At(i, step), NEW k \in Host, job[i].host = k,
         UNCHANGED <<umode, gen, certs, key, process, founded, auth>>, raced \subseteq raced',
         \A g \in Host \ {k} : Quiet(g), Role(k)',
         \A at \in {"list", "member", "user", "record"} : Going(at, k) => Going(at, k)',
         \/ Ends(i)
         \/ \E at \in {"member", "user", "record"} : Continue(i, at) /\ Going(at, k)'
  PROVE  ModeInv'
<1>1. job[i].by \in Host /\ certs[job[i].by] = Main /\ pc[job[i].by] = "serving" /\ founded > 0
  BY AtMain
<1>2. \A g \in Host : Alone(g)'
  BY <1>1, NobodyFounds DEF process
<1>3. Removing /\ TypeOK
  BY DEF ModeInv, IInv
<1>4. ASSUME NEW j \in Removal, job'[j].at # "none"
      PROVE  Going(job[j].at, job[j].host)'
  <2>1. CASE j = i
    <3>1. PICK at \in {"member", "user", "record"} : Continue(i, at) /\ Going(at, k)'
      BY <1>3, <1>4, <2>1, OneJob DEF NoJob
    <3>2. job'[i].at = at /\ job'[i].host = k
      BY <1>3, <3>1, OneJob
    <3> QED  BY <2>1, <3>1, <3>2 DEF Going
  <2>2. CASE j # i
    <3>1. job'[j] = job[j]
      BY <1>3, <2>2, OneJob
    <3>2. Going(job[j].at, job[j].host) /\ job[j] \in Job /\ job[j].host \in Host
      BY <1>3, <1>4, <3>1, JobHosts DEF Removing
    <3>3. PICK at \in {"list", "member", "user", "record"}, l \in Host :
              at = job[j].at /\ l = job[j].host
      BY <3>2 DEF Job
    <3>4. Going(at, l)'
      <4>1. CASE l = k
        BY <3>2, <3>3, <4>1
      <4>2. CASE l # k
        <5>1. Quiet(l)
          BY <4>2
        <5> QED  BY <3>2, <3>3, <5>1 DEF Going, Quiet
      <4> QED  BY <4>1, <4>2
    <3> QED  BY <3>1, <3>3, <3>4 DEF Going
  <2> QED  BY <2>1, <2>2
<1>5. Removing'
  BY <1>1, <1>3, <1>4 DEF Removing
<1> QED  BY <1>1, <1>2, <1>5, RoleStep

\* A member that is not in the list, or has not started yet: the host may still
\* become a voter, and is noted in raced.
LEMMA RemoveListRole ==
  ASSUME ModeInv, IInv', NEW i \in Removal, RemoveList(i)
  PROVE  ModeInv'
<1>0. PICK k \in Host : job[i].host = k
  BY AtMain DEF RemoveList
<1> DEFINE v == Verdict(k, Main)
<1>1. At(i, "list") /\ UNCHANGED <<umode, disk, process, store, budget>>
  BY DEF RemoveList
<1>2. /\ job[i].at = "list" /\ job[i] \in Job /\ job[i].host = k /\ certs[job[i].by] = Main
      /\ TypeOK /\ Role(k)
  BY <1>0, <1>1, AtMain DEF ModeInv, IInv
<1>3. /\ Ends(i) \/ (v # "too few" /\ Continue(i, IF v = "absent" THEN "user" ELSE "member"))
      /\ raced' = IF v = "absent" /\ Becoming(k) THEN raced \cup {k} ELSE raced
  BY <1>2 DEF RemoveList
<1>4. \A g \in Host : Quiet(g)
  BY <1>1 DEF Quiet, disk, process, store
<1>5. raced \subseteq raced'
  BY <1>3
<1>6. Role(k)'
  BY <1>1, <1>2, <1>4, <1>5, QuietRole DEF store
<1>11. \A at \in {"list", "member", "user", "record"} : Going(at, k) => Going(at, k)'
  BY <1>4, <1>5 DEF Going, Quiet
<1>7. CASE Ends(i)
  BY <1>2, <1>1, <1>4, <1>5, <1>6, <1>7, <1>11, ActivityStep DEF disk, store
<1>8. CASE v = "absent" /\ Continue(i, "user")
  <2>1. member[Main][k] \in {"none", "added"}
    BY <1>8 DEF Verdict
  <2>2. pc[k] \in {"added", "learner"} => k \in raced'
    BY <1>2, <1>3, <1>8 DEF Becoming, Role, Course
  <2>3. Going("user", k)'
    BY <1>1, <2>1, <2>2 DEF Going, process, store
  <2> QED  BY <1>2, <1>1, <1>4, <1>5, <1>6, <1>8, <1>11, <2>3, ActivityStep DEF disk, store
<1>9. CASE v = "remove" /\ Continue(i, "member")
  <2>1. member[Main][k] \notin {"none", "added"}
    BY <1>9 DEF Verdict
  <2>2. pc[k] # "added"
    BY <1>2, <2>1 DEF Role, Seat
  <2>3. Going("member", k)'
    BY <1>1, <2>2 DEF Going, process, store
  <2> QED  BY <1>2, <1>1, <1>4, <1>5, <1>6, <1>9, <1>11, <2>3, ActivityStep DEF disk, store
<1>10. v \in {"absent", "too few", "remove"}
  BY DEF Verdict
<1> QED  BY <1>3, <1>7, <1>8, <1>9, <1>10

\* The member is removed, its server with it, and its host will not be promoted.
LEMMA RemoveMemberRole ==
  ASSUME ModeInv, IInv', NEW i \in Removal, RemoveMember(i)
  PROVE  ModeInv'
<1>0. PICK k \in Host : job[i].host = k
  BY AtMain DEF RemoveMember
<1>1. /\ At(i, "member")
      /\ UNCHANGED <<umode, gen, certs, key, process, founded, auth, user, record, budget, raced>>
  BY DEF RemoveMember
<1>2. /\ job[i].at = "member" /\ job[i] \in Job /\ job[i].host = k /\ certs[job[i].by] = Main
      /\ TypeOK /\ Role(k) /\ Going("member", k)
  BY <1>0, <1>1, AtMain DEF ModeInv, IInv
<1>3. CASE Ends(i) /\ UNCHANGED <<member, data>>
  <2>1. \A g \in Host : Quiet(g)
    BY <1>1, <1>3 DEF Quiet, process
  <2>2. Role(k)'
    BY <1>1, <1>2, <2>1, QuietRole
  <2>3. \A at \in {"list", "member", "user", "record"} : Going(at, k) => Going(at, k)'
    BY <1>1, <2>1 DEF Going, Quiet
  <2> QED  BY <1>2, <1>1, <1>3, <2>1, <2>2, <2>3, ActivityStep
<1>4. CASE MemberRemove(k, Main) /\ Continue(i, "user")
  <2>1. /\ member'[Main][k] = "none" /\ data'[k].cl = data[k].cl
        /\ data[k].cl = Main => ~data'[k].live
        /\ data[k].cl # Main => data'[k] = data[k]
        /\ \A g \in Host \ {k} : data'[g] = data[g] /\ member'[Main][g] = member[Main][g]
    BY <1>2, <1>4, MainRemove
  <2>2. \A g \in Host \ {k} : Quiet(g)
    BY <1>1, <2>1 DEF Quiet, process
  <2>3. Role(k)'
    <3>1. Course(k)' /\ Modes(k)' /\ Recorded(k)'
      BY <1>1, <1>2 DEF Course, Modes, Recorded, Role, process
    <3>2. Directory(k)'
      <4>1. data[k] = NoData => data'[k] = data[k]
        BY <2>1, MainIsCluster DEF NoData
      <4> QED  BY <1>1, <1>2, <2>1, <4>1 DEF Directory, Role, process
    <3>3. Seat(k)' /\ Rooted(k)'
      BY <1>1, <1>2, <2>1 DEF Seat, Rooted, Directory, Role, process
    <3> QED  BY <3>1, <3>2, <3>3 DEF Role
  <2>5. pc[k] = "learner" => ~data'[k].live
    BY <1>2, <2>1 DEF Role, Directory
  <2>6. /\ Going("user", k)'
        /\ \A at \in {"list", "member", "user", "record"} : Going(at, k) => Going(at, k)'
    BY <1>1, <1>2, <2>1, <2>5 DEF Going, process
  <2> QED  BY <1>2, <1>1, <1>4, <2>2, <2>3, <2>6, ActivityStep
<1> QED  BY <1>2, <1>3, <1>4 DEF RemoveMember

\* The user goes when its host is no voter.
LEMMA RemoveUserRole ==
  ASSUME ModeInv, IInv', NEW i \in Removal, RemoveUser(i)
  PROVE  ModeInv'
<1>0. PICK k \in Host : job[i].host = k
  BY AtMain DEF RemoveUser
<1>1. /\ At(i, "user")
      /\ UNCHANGED <<umode, disk, process, founded, member, auth, record, budget, raced>>
  BY DEF RemoveUser
<1>2. /\ job[i].at = "user" /\ job[i] \in Job /\ job[i].host = k /\ certs[job[i].by] = Main
      /\ TypeOK /\ Role(k) /\ Main \in Cluster /\ Going("user", k)
  BY <1>0, <1>1, AtMain, MainIsCluster DEF ModeInv, IInv
<1>3. CASE Ends(i) /\ user' = user
  <2>1. \A g \in Host : Quiet(g)
    BY <1>1, <1>3 DEF Quiet, process, disk
  <2>2. Role(k)'
    BY <1>1, <1>2, <2>1, QuietRole
  <2>3. \A at \in {"list", "member", "user", "record"} : Going(at, k) => Going(at, k)'
    BY <1>1, <2>1 DEF Going, Quiet
  <2> QED  BY <1>2, <1>1, <1>3, <2>1, <2>2, <2>3, ActivityStep DEF disk
<1>4. CASE user' = [user EXCEPT ![Main] = @ \ {k}] /\ Continue(i, "record")
  <2>1. user'[Main] = user[Main] \ {k}
    BY <1>2, <1>4 DEF TypeOK
  <2>2. \A g \in Host \ {k} : Quiet(g)
    BY <1>1, <2>1 DEF Quiet, process, disk
  <2>3. Role(k)'
    <3>1. Course(k)' /\ Modes(k)' /\ Directory(k)' /\ Seat(k)' /\ Recorded(k)'
      BY <1>1, <1>2, <2>1 DEF Course, Modes, Directory, Seat, Recorded, Role, process, disk
    <3>2. Rooted(k)'
      BY <1>1, <1>2 DEF Rooted, Going
    <3> QED  BY <3>1, <3>2 DEF Role
  <2>5. /\ Going("record", k)'
        /\ \A at \in {"list", "member", "user", "record"} : Going(at, k) => Going(at, k)'
    BY <1>1, <1>2, <2>1 DEF Going, process, disk
  <2> QED  BY <1>2, <1>1, <1>4, <2>2, <2>3, <2>5, ActivityStep DEF disk
<1> QED  BY <1>2, <1>3, <1>4 DEF RemoveUser

\* The record goes when its host has no user.
LEMMA RemoveRecordRole ==
  ASSUME ModeInv, IInv', NEW i \in Removal, RemoveRecord(i)
  PROVE  ModeInv'
<1>0. PICK k \in Host : job[i].host = k
  BY AtMain DEF RemoveRecord
<1>1. /\ At(i, "record") /\ Ends(i)
      /\ UNCHANGED <<umode, disk, process, founded, member, auth, user, budget, raced>>
  BY DEF RemoveRecord
<1>2. /\ job[i].at = "record" /\ job[i] \in Job /\ job[i].host = k /\ certs[job[i].by] = Main
      /\ TypeOK /\ Role(k) /\ Main \in Cluster /\ Going("record", k)
  BY <1>0, <1>1, AtMain, MainIsCluster DEF ModeInv, IInv
<1>3. record' = record \/ record' = [record EXCEPT ![Main][k] = "none"]
  BY <1>2 DEF RemoveRecord
<1>4. \A g \in Host \ {k} : record'[Main][g] = record[Main][g]
  <2>1. record \in [Cluster -> [Host -> {"none", "server", "client"}]]
    BY <1>2 DEF TypeOK
  <2>2. CASE record' = [record EXCEPT ![Main][k] = "none"]
    BY <1>2, <2>1, <2>2
  <2> QED  BY <1>3, <2>2
<1>5. \A g \in Host \ {k} : Quiet(g)
  BY <1>1, <1>4 DEF Quiet, process, disk
<1>6. Role(k)'
  <2>1. Course(k)' /\ Modes(k)' /\ Directory(k)' /\ Seat(k)'
    BY <1>1, <1>2 DEF Course, Modes, Directory, Seat, Role, process, disk
  <2>2. Recorded(k)'
    BY <1>1, <1>2 DEF Recorded, Going
  <2>3. Rooted(k)'
    BY <1>1, <1>2 DEF Rooted, Accepted, Role, disk
  <2> QED  BY <2>1, <2>2, <2>3 DEF Role
<1>7. \A at \in {"list", "member", "user", "record"} : Going(at, k) => Going(at, k)'
  BY <1>1 DEF Going, process, disk
<1> QED  BY <1>2, <1>1, <1>5, <1>6, <1>7, ActivityStep DEF disk

-----------------------------------------------------------------------------
(***************************************************************************)
(* The theorems about the mode of a host                                   *)
(***************************************************************************)

LEMMA InitMode == Init => ModeInv
<1> SUFFICES ASSUME Init PROVE ModeInv
  OBVIOUS
<1>1. IInv /\ Main \in Cluster
  BY InitInv, MainIsCluster
<1>2. Removing
  BY <1>1 DEF Init, Removing, NoJob
<1>3. ASSUME NEW h \in Host PROVE Role(h) /\ Alone(h)
  <2>1. /\ pc[h] = "preinit" /\ path[h] = "plain" /\ gen[h].mode = "" /\ data[h].cl # Main
        /\ member[Main][h] = "none"
    BY <1>1, MainIsCluster DEF Init, NoGen, NoData
  <2>2. Course(h) /\ Modes(h) /\ Directory(h)
    BY <2>1 DEF Course, Modes, Directory
  <2>3. Seat(h) /\ Rooted(h) /\ Recorded(h) /\ Alone(h)
    BY <2>1 DEF Seat, Rooted, Recorded, Alone
  <2> QED  BY <2>2, <2>3 DEF Role
<1> QED  BY <1>1, <1>2, <1>3 DEF ModeInv

LEMMA StepMode == ModeInv /\ [Next]_vars => ModeInv'
<1> SUFFICES ASSUME ModeInv, [Next]_vars PROVE ModeInv'
  OBVIOUS
<1>1. IInv'
  BY StepInv DEF ModeInv
<1>2. ASSUME NEW h \in Host, Step(h)
      PROVE  ModeInv'
  BY <1>1, <1>2, StartRole, InitClusterRole, FoundRole, SecureRole, EnableAuthRole,
     StartEmbeddedRole, StartedRole, StartFailsRole, JoinRole, JoinRemoteRole, AddLearnerRole,
     StartLearnerRole, PromoteRole, PromoteFailsRole, JoinedRole, JoinedFailsRole, ConnectRole,
     ListRole, LeaveListRole, LeaveRole, WipeRole, DemotedRole, BootRole, EndsRole,
     ClearDataDirRole
  DEF Step
<1>3. ASSUME NEW h \in Host,
             StartLearnerFails(h) \/ Crash(h) \/ Timeout(h) \/ Reconfigure(h)
      PROVE  ModeInv'
  BY <1>1, <1>3, StartLearnerFailsRole, EndsRole, ReconfigureRole
<1>4. ASSUME NEW h \in Host, NEW s \in Host, GetJoinOptions(h, s) \/ RemoveHost(s, h)
      PROVE  ModeInv'
  BY <1>1, <1>4, GetJoinOptionsRole, RemoveHostRole
<1>5. ASSUME NEW i \in Removal, Activity(i)
      PROVE  ModeInv'
  BY <1>1, <1>5, RemoveListRole, RemoveMemberRole, RemoveUserRole, RemoveRecordRole DEF Activity
<1>6. CASE UNCHANGED vars
  <2>1. UNCHANGED <<umode, gen, certs, key, data, pc, path, etcd, ans, founded, member, auth,
                    user, record, job, raced>>
    BY <1>6 DEF vars, disk, process, store
  <2>2. Removing'
    BY <2>1 DEF ModeInv, Removing, Going
  <2>3. ASSUME NEW h \in Host PROVE Role(h)' /\ Alone(h)'
    <3>1. Role(h) /\ Alone(h) /\ Quiet(h)
      BY <2>1 DEF ModeInv, Quiet
    <3>2. Role(h)'
      BY <2>1, <3>1, QuietRole
    <3>3. Alone(h)'
      BY <2>1, <3>1 DEF Alone, Touches
    <3> QED  BY <3>2, <3>3
  <2> QED  BY <1>1, <2>2, <2>3 DEF ModeInv
<1> QED  BY <1>2, <1>3, <1>4, <1>5, <1>6 DEF Next

-----------------------------------------------------------------------------
(***************************************************************************)
(* A cluster whose initialization was interrupted                          *)
(***************************************************************************)

\* A host that serves apart from the others serves a cluster without RBAC.
Unfinished == \A h \in Host : pc[h] = "apart" => ~auth[data[h].cl]

\* What a step of one host is for those that serve apart: nobody begins to, data
\* directories stay of the same cluster, and RBAC is not enabled.
Elsewhere ==
    /\ \A h \in Host : pc'[h] = "apart" => pc[h] = "apart" /\ data'[h].cl = data[h].cl
    /\ auth' = auth

LEMMA ElsewhereMoves ==
  ASSUME TypeOK, NEW g \in Host, auth' = auth,
         pc' = pc \/ (\E p \in Steps \ {"apart"} : Goto(g, p)) \/ Exit(g) \/ Fail(g),
         \A h \in Host \ {g} : data'[h].cl = data[h].cl,
         pc[g] # "apart" \/ pc'[g] # "apart" \/ data' = data
  PROVE  Elsewhere
<1>1. (\A h \in Host \ {g} : pc'[h] = pc[h]) /\ (pc'[g] = "apart" => pc[g] = "apart")
  <2>1. CASE pc' = pc
    BY <2>1
  <2>2. CASE \E p \in Steps \ {"apart"} : Goto(g, p)
    <3>1. PICK p \in Steps \ {"apart"} : Goto(g, p)
      BY <2>2
    <3> QED  BY <3>1, GotoType
  <2>3. CASE Exit(g)
    BY <2>3, ExitType
  <2>4. CASE Fail(g)
    BY <2>4, FailType
  <2> QED  BY <2>1, <2>2, <2>3, <2>4
<1> QED  BY <1>1 DEF Elsewhere

LEMMA RemovedData ==
  ASSUME TypeOK, NEW g \in Host, NEW c, MemberRemove(g, c)
  PROVE  \A h \in Host : data'[h].cl = data[h].cl
<1> SUFFICES ASSUME NEW h \in Host PROVE data'[h].cl = data[h].cl
  OBVIOUS
<1>1. data[h] \in {NoData} \cup [cl : Cluster, live : BOOLEAN]
  BY DEF TypeOK
<1>2. data' = data \/ data' = [data EXCEPT ![g].live = FALSE]
  BY DEF MemberRemove
<1>3. [data[h] EXCEPT !.live = FALSE].cl = data[h].cl
  BY <1>1 DEF NoData
<1>4. CASE data' = [data EXCEPT ![g].live = FALSE]
  <2>1. data'[h] = data[h] \/ data'[h] = [data[h] EXCEPT !.live = FALSE]
    BY <1>4 DEF TypeOK
  <2> QED  BY <1>3, <2>1
<1> QED  BY <1>2, <1>4

\* Every step of a host but two.
LEMMA StepElsewhere ==
  ASSUME TypeOK, NEW g \in Host, Step(g), ~Started(g), ~EnableAuth(g)
  PROVE  Elsewhere
<1>1. CASE Start(g) \/ InitCluster(g) \/ Secure(g) \/ StartEmbedded(g)
  BY <1>1, ElsewhereMoves DEF Start, InitCluster, Secure, StartEmbedded, disk, store, Steps
<1>2. CASE StartFails(g) \/ Join(g) \/ JoinRemote(g) \/ AddLearner(g) \/ Promote(g) \/ Joined(g)
           \/ JoinedFails(g)
  BY <1>2, ElsewhereMoves
  DEF StartFails, Join, JoinRemote, AddLearner, Promote, Joined, JoinedFails, disk, store, Steps
<1>3. CASE Connect(g) \/ ConnectFails(g) \/ List(g) \/ LeaveList(g)
  BY <1>3, ElsewhereMoves DEF Connect, ConnectFails, List, LeaveList, disk, store, Steps
<1>4. CASE Demoted(g) \/ Boot(g) \/ BootFails(g) \/ Expelled(g) \/ Restart(g)
  BY <1>4, ElsewhereMoves DEF Demoted, Boot, BootFails, Expelled, Restart, disk, store, Steps
<1>5. CASE Found(g) \/ StartLearner(g) \/ Wipe(g) \/ ClearDataDir(g)
  <2>1. auth' = auth /\ \A h \in Host \ {g} : data'[h].cl = data[h].cl
    BY <1>5 DEF Found, StartLearner, Wipe, ClearDataDir, store, TypeOK
  <2>2. (\E p \in Steps \ {"apart"} : Goto(g, p)) \/ Exit(g)
    BY <1>5 DEF Found, StartLearner, Wipe, ClearDataDir, Steps
  <2>3. pc'[g] # "apart"
    BY <2>2 DEF Goto, Exit, TypeOK
  <2> QED  BY <2>1, <2>2, <2>3, ElsewhereMoves
<1>6. CASE PromoteFails(g) \/ Leave(g)
  <2>1. auth' = auth /\ pc[g] # "apart" /\ ((\E c : MemberRemove(g, c)) \/ data' = data)
    BY <1>6 DEF PromoteFails, Leave
  <2>2. (\E p \in Steps \ {"apart"} : Goto(g, p)) \/ Exit(g) \/ Fail(g)
    BY <1>6 DEF PromoteFails, Leave, Steps
  <2>3. \A h \in Host : data'[h].cl = data[h].cl
    BY <2>1, RemovedData
  <2> QED  BY <2>1, <2>2, <2>3, ElsewhereMoves
<1> QED  BY <1>1, <1>2, <1>3, <1>4, <1>5, <1>6 DEF Step

LEMMA OtherElsewhere ==
  ASSUME TypeOK, NEW g \in Host,
         \/ StartLearnerFails(g) \/ Crash(g) \/ Timeout(g) \/ Reconfigure(g)
         \/ \E s \in Host : GetJoinOptions(g, s) \/ RemoveHost(s, g)
  PROVE  Elsewhere
<1>1. CASE StartLearnerFails(g)
  <2>1. /\ auth' = auth /\ pc[g] # "apart" /\ Fail(g)
        /\ \A h \in Host \ {g} : data'[h].cl = data[h].cl
    BY <1>1 DEF StartLearnerFails, store, TypeOK
  <2> QED  BY <2>1, ElsewhereMoves
<1>2. CASE Crash(g) \/ Timeout(g) \/ Reconfigure(g)
  BY <1>2, ElsewhereMoves DEF Crash, Timeout, Reconfigure, disk, store
<1>3. CASE \E s \in Host : GetJoinOptions(g, s) \/ RemoveHost(s, g)
  BY <1>3, ElsewhereMoves DEF GetJoinOptions, RemoveHost, disk, process, store
<1> QED  BY <1>1, <1>2, <1>3

LEMMA ActivityElsewhere ==
  ASSUME TypeOK, NEW i \in Removal, Activity(i)
  PROVE  Elsewhere
<1>1. PICK step \in {"list", "member", "user", "record"} : At(i, step)
  BY DEF Activity, RemoveList, RemoveMember, RemoveUser, RemoveRecord
<1>2. job[i].host \in Host
  BY <1>1, JobType
<1>3. UNCHANGED <<pc, auth>> /\ (data' = data \/ \E c : MemberRemove(job[i].host, c))
  BY DEF Activity, RemoveList, RemoveMember, RemoveUser, RemoveRecord, disk, process, store
<1>4. \A h \in Host : data'[h].cl = data[h].cl
  BY <1>2, <1>3, RemovedData
<1> QED  BY <1>3, <1>4 DEF Elsewhere

LEMMA StepUnfinished == IInv /\ Unfinished /\ [Next]_vars => Unfinished'
<1> SUFFICES ASSUME IInv, Unfinished, [Next]_vars PROVE Unfinished'
  OBVIOUS
<1>1. TypeOK
  BY DEF IInv
<1>2. ASSUME Elsewhere PROVE Unfinished'
  BY <1>2 DEF Unfinished, Elsewhere
<1>3. ASSUME NEW g \in Host, Started(g) PROVE Unfinished'
  <2>1. UNCHANGED <<auth, data>> /\ \A h \in Host \ {g} : pc'[h] = pc[h]
    BY <1>1, <1>3 DEF Started, Goto, disk, store, TypeOK
  <2>2. pc'[g] = "apart" => data[g].cl # certs[g] /\ Accepted(g, data[g].cl)
    BY <1>1, <1>3 DEF Started, Own, Answered, Goto, TypeOK
  <2> QED  BY <2>1, <2>2 DEF Unfinished, Accepted
<1>4. ASSUME NEW g \in Host, EnableAuth(g) PROVE Unfinished'
  <2> SUFFICES ASSUME NEW h \in Host, pc'[h] = "apart" PROVE ~auth'[data'[h].cl]
    BY DEF Unfinished
  <2>1. /\ auth' = [auth EXCEPT ![data[g].cl] = TRUE] /\ data' = data
        /\ h # g /\ pc[h] = "apart"
    BY <1>1, <1>4 DEF EnableAuth, Goto, disk, TypeOK
  <2>2. data[h].cl \in Cluster \ {Main} /\ ~auth[data[h].cl]
    BY <2>1 DEF IInv, Local, Apart, Unfinished
  <2>3. data[g].cl # data[h].cl
    BY <2>1, <2>2 DEF IInv, OneHost, Touches
  <2> QED  BY <1>1, <2>1, <2>2, <2>3 DEF TypeOK
<1>5. CASE UNCHANGED vars
  BY <1>5 DEF Unfinished, vars, disk, process, store
<1> QED  BY <1>1, <1>2, <1>3, <1>4, <1>5, StepElsewhere, OtherElsewhere, ActivityElsewhere
         DEF Next

\* However often hosts die, fail to join and change their mode, two hosts that
\* serve the API serve it for the same cluster (provideEtcd, App.Run, ChangeMode):
\* unless one of them serves a cluster whose initialization was interrupted
\* before RBAC was enabled, with the credentials of another one.
THEOREM NoSplitBrainHolds == Spec => []NoSplitBrain
<1>1. ASSUME ModeInv, Unfinished PROVE NoSplitBrain
  <2>1. ASSUME NEW h \in Host, pc[h] = "serving" PROVE Served(h) = Main
    <3>1. certs[h] = Main /\ (umode[h] = "server" => data[h].cl = Main)
      BY <1>1, <2>1 DEF ModeInv, IInv, Local, InMain, Inside, Role, Directory
    <3> QED  BY <3>1 DEF Served
  <2>2. ASSUME NEW h \in Host, pc[h] = "apart" PROVE ~auth[Served(h)]
    <3>1. umode[h] = "server" /\ ~auth[data[h].cl]
      BY <1>1, <2>2 DEF ModeInv, Role, Modes, Unfinished
    <3> QED  BY <3>1 DEF Served
  <2> QED  BY <2>1, <2>2 DEF NoSplitBrain, Serving
<1>2. Init => Unfinished
  BY DEF Init, Unfinished
<1>3. ModeInv => IInv
  BY DEF ModeInv
<1> QED  BY <1>1, <1>2, <1>3, InitMode, StepMode, StepUnfinished, PTL DEF Spec

\* However a change of mode was interrupted, a host that serves and is not being
\* removed is what its operator configured, in its generated config, its record,
\* its data directory and the list of members.
THEOREM ModeIsRealHolds == Spec => []ModeIsReal
<1>1. ASSUME ModeInv PROVE ModeIsReal
  <2> SUFFICES ASSUME NEW h \in Host, pc[h] = "serving", Settled(h)
               PROVE  /\ gen[h].mode = umode[h]
                      /\ record[certs[h]][h] = umode[h]
                      /\ IF umode[h] = "server"
                         THEN data[h].cl = certs[h] /\ h \in Voters(certs[h])
                         ELSE data[h].cl # certs[h] /\ h \notin Voters(certs[h])
    BY DEF ModeIsReal
  <2>1. TypeOK /\ Role(h) /\ certs[h] = Main
    BY <1>1 DEF ModeInv, IInv, Local, InMain, Inside
  <2>2. gen[h].mode = umode[h] /\ record[Main][h] = umode[h]
    BY <2>1 DEF Role, Modes, Recorded, Settled
  <2>3. CASE umode[h] = "server"
    <3>1. data[h].cl = Main /\ member[Main][h] = "voter"
      BY <2>1, <2>3 DEF Role, Directory, Seat, Settled
    <3> QED  BY <2>1, <2>2, <2>3, <3>1 DEF Voters
  <2>4. CASE umode[h] # "server"
    <3>1. data[h].cl # Main
      BY <2>1, <2>2, <2>4, HostType DEF Role, Directory
    <3>2. member[Main][h] # "voter"
      BY <2>1, <3>1 DEF Role, Rooted, Settled
    <3> QED  BY <2>1, <2>2, <2>4, <3>1, <3>2 DEF Voters
  <2> QED  BY <2>3, <2>4
<1> QED  BY <1>1, InitMode, StepMode, PTL DEF Spec

\* A voter can still start or can be removed: no interrupted join, change of mode
\* or remove-host leaves a voter that nobody can bring back or get rid of.
THEOREM RemovableHolds == Spec => []Removable
<1>1. ASSUME ModeInv PROVE Removable
  <2> SUFFICES ASSUME NEW c \in Cluster, NEW h \in Voters(c), auth[c], h \notin raced,
                      NEW s \in Host \ {h}, pc[s] = "serving", certs[s] = c
               PROVE  data[h] = [cl |-> c, live |-> TRUE] /\ Accepted(h, c)
    BY DEF Removable
  <2>1. c = Main /\ h \in Host /\ member[Main][h] = "voter"
    BY <1>1 DEF ModeInv, IInv, Local, InMain, Inside, Voters
  <2> QED  BY <1>1, <2>1 DEF ModeInv, Role, Rooted
<1> QED  BY <1>1, InitMode, StepMode, PTL DEF Spec

\* A voter can start, whoever was removed, joined or changed its mode at the same
\* time: it has the data directory of a live member and credentials that etcd
\* accepts.  Except for hosts that were removed while they were becoming a server
\* or got another password than the one they had stored.
THEOREM VotersCanStart == Spec => [](\A h \in Host : Rooted(h))
<1>1. ModeInv => \A h \in Host : Rooted(h)
  BY DEF ModeInv, Role
<1> QED  BY <1>1, InitMode, StepMode, PTL DEF Spec

=============================================================================
