------------------------------- MODULE Ports -------------------------------
(***************************************************************************)
(* The random ports of instances and service instances:                    *)
(* server/internal/ports/service.go hands them out from a range that every *)
(* host behind one client address shares, and                              *)
(* server/internal/database/service.go records them in the stored specs of *)
(* the instances that own them.                                            *)
(*                                                                         *)
(* The range is one stored bitmap.  A call reads it (restoreAllocator),    *)
(* changes its copy and writes it back on condition that the version has   *)
(* not moved.  Versions of the range only grow (it is never deleted), so   *)
(* the comparison is modelled as the set `current` of the activities whose *)
(* copy nobody has written over.  Specs are deleted, and the version of a  *)
(* key starts again at 1 when it is created again: their versions are kept.*)
(*                                                                         *)
(* Activities of several hosts run at the same time; those of one host are *)
(* serialised by the mutex of the service for the length of a call.        *)
(***************************************************************************)
EXTENDS Naturals

CONSTANTS
  Activity,     \* runs of ReconcileInstanceSpec, DeleteInstanceSpec, ...
  Instance,     \* instances and service instances
  Host,
  HostOf,       \* the host of each instance
  Databases,    \* the sets of instances that DeleteDatabase deletes at once
  Range,        \* config RandomPorts [min, max]
  Busy,         \* ports bound by processes that are not ours (PortChecker)
  Explicit,     \* ports that specifications name
  Requests,     \* the port settings that specifications ask of each instance
  NoPort,       \* a nil port
  Random,       \* port 0: assign one
  MaxRetries,   \* attempts of a call (6 in the code)
  MaxVersion,   \* bound on the updates of a spec between two deletions
  MaxFaults,    \* bound on failed store calls and crashes
  Exclusive     \* nothing else touches an instance that is being deleted

Settings == [port : Range \cup Explicit \cup {NoPort},
             patroni : Range \cup Explicit \cup {NoPort}]
Unset == [port |-> NoPort, patroni |-> NoPort]

(* The ports that only the allocator hands out.  RandomPorts may well hold *)
(* ports that specifications name (the default range is 5432 to 15432):    *)
(* naming a port neither checks nor marks the range.                       *)
Drawn == Range \ Explicit

(* Stands for the absence of a copy of the range.                          *)
NoCopy == {NoPort}

ASSUME PortsAssumption ==
  /\ MaxRetries \in Nat \ {0} /\ MaxVersion \in Nat /\ MaxFaults \in Nat
  /\ Exclusive \in BOOLEAN
  /\ Host # {} /\ HostOf \in [Instance -> Host]
  /\ Databases \subseteq SUBSET Instance
  /\ Requests \in [Instance -> SUBSET [port : Explicit \cup {NoPort, Random},
                                       patroni : Explicit \cup {NoPort, Random}]]
  /\ NoPort \notin Range \cup Explicit /\ Random \notin Range \cup Explicit
  /\ NoPort # Random

VARIABLES
  marked,   \* the stored bitmap of the range
  current,  \* activities whose copy of the range is the stored one
  spec,     \* the stored port settings of each instance
  version,  \* the version of each stored spec, 0 when there is none
  stage,    \* where each activity is
  job,      \* what it works on and what it read when it began
  want,     \* the settings it is going to store
  got,      \* the ports it has allocated
  todo,     \* the release calls it has yet to make
  copy,     \* its copy of the range during a call
  tries,    \* attempts left in its call; it holds its host's mutex while > 0
  lost,     \* ports no call will release any more (history)
  spoiled,  \* ports released while a stored spec goes on naming them (history)
  faults

stored == <<marked, current, spec, version>>
local == <<stage, job, want, got, todo, copy, tries>>
vars == <<stored, local, lost, spoiled, faults>>

Stages == {"idle", "allocate", "store", "rollback", "release", "clear", "delete"}
Releasing == {"rollback", "release", "clear", "delete"}

PortsOf(s) == {s.port, s.patroni} \ {NoPort}

NoJob == [host |-> CHOOSE h \in Host : TRUE, target |-> {}, prev |-> Unset,
          seen |-> 0]

TypeOK ==
  /\ marked \subseteq Range \cup Explicit
  /\ current \subseteq Activity
  /\ spec \in [Instance -> Settings]
  /\ version \in [Instance -> 0..MaxVersion]
  /\ stage \in [Activity -> Stages]
  /\ job \in [Activity -> [host : Host, target : SUBSET Instance,
                           prev : Settings, seen : Nat]]
  /\ want \in [Activity -> [port : Range \cup Explicit \cup {NoPort, Random},
                            patroni : Range \cup Explicit \cup {NoPort, Random}]]
  /\ got \in [Activity -> SUBSET Range]
  /\ todo \in [Activity -> SUBSET SUBSET (Range \cup Explicit)]
  /\ copy \in [Activity -> (SUBSET (Range \cup Explicit)) \cup {NoCopy}]
  /\ tries \in [Activity -> 0..MaxRetries]
  /\ lost \subseteq Range \cup Explicit
  /\ spoiled \subseteq Range \cup Explicit
  /\ faults \in 0..MaxFaults

Init ==
  /\ marked = {} /\ current = {}
  /\ spec = [i \in Instance |-> Unset]
  /\ version = [i \in Instance |-> 0]
  /\ stage = [a \in Activity |-> "idle"]
  /\ job = [a \in Activity |-> NoJob]
  /\ want = [a \in Activity |-> Unset]
  /\ got = [a \in Activity |-> {}]
  /\ todo = [a \in Activity |-> {}]
  /\ copy = [a \in Activity |-> NoCopy]
  /\ tries = [a \in Activity |-> 0]
  /\ lost = {} /\ spoiled = {} /\ faults = 0

----------------------------------------------------------------------------
(* How an activity moves on.                                               *)

(* The calls of the ports service by the activities s are over: the mutex  *)
(* is released.                                                            *)
LeaveCall(s) ==
  /\ copy' = [a \in Activity |-> IF a \in s THEN NoCopy ELSE copy[a]]
  /\ tries' = [a \in Activity |-> IF a \in s THEN 0 ELSE tries[a]]

(* The activities s have ended.                                            *)
End(s) ==
  /\ stage' = [a \in Activity |-> IF a \in s THEN "idle" ELSE stage[a]]
  /\ job' = [a \in Activity |-> IF a \in s THEN NoJob ELSE job[a]]
  /\ want' = [a \in Activity |-> IF a \in s THEN Unset ELSE want[a]]
  /\ got' = [a \in Activity |-> IF a \in s THEN {} ELSE got[a]]
  /\ todo' = [a \in Activity |-> IF a \in s THEN {} ELSE todo[a]]
  /\ LeaveCall(s)

(* The ports that an activity which ends now will never release: the ones  *)
(* it allocated and has not stored, and the old ones it has replaced.      *)
InHand(a) ==
  CASE stage[a] \in {"allocate", "store"} -> got[a]
    [] stage[a] \in {"rollback", "release"} -> UNION todo[a]
    [] OTHER -> {}

(* The ports that a deletion which ends now has released although the      *)
(* specs that name them stay.                                              *)
Spoils(a) ==
  IF stage[a] = "delete"
  THEN (UNION {PortsOf(spec[i]) : i \in job[a].target}) \ (UNION todo[a])
  ELSE {}

(* The rollback closure of ReconcileInstanceSpec: one call that releases   *)
(* everything allocated so far.                                            *)
Rollback(a) ==
  /\ stage' = [stage EXCEPT ![a] = "rollback"]
  /\ todo' = [todo EXCEPT ![a] = {got[a]}]
  /\ LeaveCall({a})
  /\ UNCHANGED <<job, want, got>>

Deleting(i) ==
  \E a \in Activity : stage[a] \in {"clear", "delete"} /\ i \in job[a].target

Touched(i) == \E a \in Activity : stage[a] # "idle" /\ i \in job[a].target

----------------------------------------------------------------------------
(* Reconciling a spec.                                                     *)

(* reconcilePort: an assigned random port is kept.                         *)
ReconcilePort(cur, new) ==
  IF new = Random /\ cur # NoPort THEN cur ELSE new

CopySettingsFrom(prev, new) ==
  [port |-> ReconcilePort(prev.port, new.port),
   patroni |-> ReconcilePort(prev.patroni, new.patroni)]

(* AllocatePort is called for the port, then for the patroni port.         *)
AfterAllocation(w) ==
  IF Random \in {w.port, w.patroni} THEN "allocate" ELSE "store"

(* ReconcileInstanceSpec and ReconcileServiceInstanceSpec (which has no    *)
(* patroni port) up to the first allocation: the stored spec is read and   *)
(* its settings are carried over.                                          *)
Reconcile(a, i, req) ==
  /\ stage[a] = "idle" /\ version[i] < MaxVersion
  /\ Exclusive => ~Deleting(i)
  /\ want' = [want EXCEPT ![a] = CopySettingsFrom(spec[i], req)]
  /\ job' = [job EXCEPT ![a] = [host |-> HostOf[i], target |-> {i},
                                prev |-> spec[i], seen |-> version[i]]]
  /\ stage' = [stage EXCEPT ![a] = AfterAllocation(want'[a])]
  /\ UNCHANGED <<stored, got, todo, copy, tries, lost, spoiled, faults>>

(* portShouldBeReleased: what the new settings no longer use, one release  *)
(* call per port.                                                          *)
PreviousPorts(prev, new) ==
  {{prev[s]} : s \in {x \in {"port", "patroni"} :
                        prev[x] # NoPort /\ prev[x] # new[x]}}

(* Mutant of StoreSpec: the spec is put whatever its version.              *)
MutStoreSpec(a) ==
  /\ stage[a] = "store"
  /\ \E i \in job[a].target :
       /\ spec' = [spec EXCEPT ![i] = want[a]]
       /\ version' = [version EXCEPT ![i] = @ + 1]
       /\ LET previous == PreviousPorts(job[a].prev, want[a])
          IN  \/ /\ previous # {}
                 /\ stage' = [stage EXCEPT ![a] = "release"]
                 /\ todo' = [todo EXCEPT ![a] = previous]
                 /\ got' = [got EXCEPT ![a] = {}]
                 /\ UNCHANGED <<job, want, copy, tries>>
              \/ previous = {} /\ End({a})
  /\ UNCHANGED <<marked, current, lost, spoiled, faults>>

(* The versioned update of the spec.  A conflict releases what was         *)
(* allocated; a success releases what has been replaced.                   *)
StoreSpec(a) ==
  /\ stage[a] = "store"
  /\ \E i \in job[a].target :
       \/ /\ version[i] = job[a].seen
          /\ spec' = [spec EXCEPT ![i] = want[a]]
          /\ version' = [version EXCEPT ![i] = @ + 1]
          /\ LET previous == PreviousPorts(job[a].prev, want[a])
             IN  \/ /\ previous # {}
                    /\ stage' = [stage EXCEPT ![a] = "release"]
                    /\ todo' = [todo EXCEPT ![a] = previous]
                    /\ got' = [got EXCEPT ![a] = {}]
                    /\ UNCHANGED <<job, want, copy, tries>>
                 \/ previous = {} /\ End({a})
          /\ UNCHANGED current
       \/ /\ version[i] # job[a].seen
          /\ Rollback(a)
          /\ UNCHANGED <<current, spec, version>>
  /\ UNCHANGED <<marked, lost, spoiled, faults>>

----------------------------------------------------------------------------
(* Deleting specs.                                                         *)

(* DeleteInstanceSpec, DeleteServiceInstanceSpec and DeleteDatabase, which *)
(* any host may run: the specs are read and their ports are going to be    *)
(* released, one call per spec, before the specs are deleted.              *)
Delete(a, s, h) ==
  /\ stage[a] = "idle"
  /\ \E i \in s : version[i] > 0
  /\ Exclusive => \A i \in s : ~Touched(i)
  /\ stage' = [stage EXCEPT ![a] = "clear"]
  /\ job' = [job EXCEPT ![a] = [host |-> h, target |-> s,
                                prev |-> Unset, seen |-> 0]]
  /\ todo' = [todo EXCEPT ![a] = {PortsOf(spec[i]) : i \in {j \in s : version[j] > 0}}]
  /\ UNCHANGED <<stored, want, got, copy, tries, lost, spoiled, faults>>

(* All ports are released: the specs go, whatever their versions.          *)
DeleteSpecs(a) ==
  /\ stage[a] = "delete" /\ todo[a] = {}
  /\ spec' = [i \in Instance |-> IF i \in job[a].target THEN Unset ELSE spec[i]]
  /\ version' = [i \in Instance |-> IF i \in job[a].target THEN 0 ELSE version[i]]
  /\ End({a})
  /\ UNCHANGED <<marked, current, lost, spoiled, faults>>

----------------------------------------------------------------------------
(* The calls of the ports service.                                         *)

InCall(a) == stage[a] = "allocate" \/ (stage[a] \in Releasing /\ todo[a] # {})

MutexFree(h) == \A b \in Activity : tries[b] > 0 => job[b].host # h

(* restoreAllocator: the first attempt takes the mutex, a later one still  *)
(* holds it.                                                               *)
RestoreAllocator(a) ==
  /\ InCall(a) /\ copy[a] = NoCopy
  /\ tries[a] > 0 \/ MutexFree(job[a].host)
  /\ copy' = [copy EXCEPT ![a] = marked]
  /\ current' = current \cup {a}
  /\ tries' = [tries EXCEPT ![a] = IF @ = 0 THEN MaxRetries ELSE @]
  /\ UNCHANGED <<marked, spec, version, stage, job, want, got, todo, lost, spoiled, faults>>

(* Mutant of Update: the range is written whatever its version.            *)
MutUpdate(a, ports) ==
  /\ marked' = ports
  /\ current' = {}

(* The versioned update of the range by a: every other copy is stale.      *)
Update(a, ports) ==
  /\ a \in current
  /\ marked' = ports
  /\ current' = {}

(* allocateAvailablePort: ports are drawn until one is not bound; the bound*)
(* ones that were drawn before stay marked.                                *)
AllocatePort(a) ==
  /\ stage[a] = "allocate" /\ copy[a] # NoCopy
  /\ \E p \in (Range \ copy[a]) \ Busy, skipped \in SUBSET ((Range \cap Busy) \ copy[a]) :
       /\ Update(a, copy[a] \cup skipped \cup {p})
       /\ want' = [want EXCEPT ![a] =
                     IF @.port = Random THEN [@ EXCEPT !.port = p]
                                        ELSE [@ EXCEPT !.patroni = p]]
       /\ got' = [got EXCEPT ![a] = @ \cup {p}]
  /\ LeaveCall({a})
  /\ stage' = [stage EXCEPT ![a] = AfterAllocation(want'[a])]
  /\ UNCHANGED <<spec, version, job, todo, lost, spoiled, faults>>

(* releasePort: the bits of one release call are cleared, whoever set them.*)
(* After the last call of a rollback, or of the ports a spec no longer     *)
(* uses, the activity is over.                                             *)
ReleasePort(a) ==
  /\ stage[a] \in Releasing /\ copy[a] # NoCopy
  /\ \E ports \in todo[a] :
       LET rest == todo[a] \ {ports}
       IN  /\ Update(a, copy[a] \ ports)
           /\ \/ /\ rest # {} \/ stage[a] \in {"clear", "delete"}
                 /\ todo' = [todo EXCEPT ![a] = rest]
                 /\ stage' = [stage EXCEPT ![a] = IF @ = "clear" THEN "delete" ELSE @]
                 /\ LeaveCall({a})
                 /\ UNCHANGED <<job, want, got>>
              \/ /\ rest = {} /\ stage[a] \in {"rollback", "release"}
                 /\ End({a})
  /\ UNCHANGED <<spec, version, lost, spoiled, faults>>

(* A call of the ports service returns an error.  Without the first port   *)
(* nothing has been allocated and the activity ends; without the second    *)
(* one the first is rolled back; a release that fails ends the activity.   *)
FailCall(a) ==
  \/ /\ stage[a] = "allocate" /\ want[a].port # Random
     /\ Rollback(a)
     /\ current' = current \ {a}
     /\ UNCHANGED <<lost, spoiled>>
  \/ /\ stage[a] # "allocate" \/ want[a].port = Random
     /\ End({a})
     /\ current' = current \ {a}
     /\ lost' = lost \cup InHand(a)
     /\ spoiled' = spoiled \cup Spoils(a)

(* ErrFull: every port of the range is marked or bound; nothing is written.*)
RangeFull(a) ==
  /\ stage[a] = "allocate" /\ copy[a] # NoCopy
  /\ Range \subseteq copy[a] \cup Busy
  /\ FailCall(a)
  /\ UNCHANGED <<marked, spec, version, faults>>

(* ErrValueVersionMismatch: try again, or give up after the last attempt.  *)
Conflict(a) ==
  /\ copy[a] # NoCopy /\ a \notin current
  /\ stage[a] = "allocate" => ~(Range \subseteq copy[a] \cup Busy)
  /\ \/ /\ tries[a] > 1
        /\ tries' = [tries EXCEPT ![a] = @ - 1]
        /\ copy' = [copy EXCEPT ![a] = NoCopy]
        /\ UNCHANGED <<current, stage, job, want, got, todo, lost, spoiled>>
     \/ tries[a] = 1 /\ FailCall(a)
  /\ UNCHANGED <<marked, spec, version, faults>>

----------------------------------------------------------------------------
(* Faults.                                                                 *)

(* A store call fails: a read of the range, a write of it that is not      *)
(* applied, the update of the spec, which may have been applied before the *)
(* answer was lost, or the deletion.                                       *)
StoreFails(a) ==
  /\ faults < MaxFaults /\ faults' = faults + 1
  /\ \/ /\ InCall(a)
        /\ tries[a] > 0 \/ MutexFree(job[a].host)
        /\ FailCall(a)
        /\ UNCHANGED <<spec, version>>
     \/ /\ stage[a] = "store"
        /\ Rollback(a)
        /\ UNCHANGED <<current, spec, version, lost, spoiled>>
     \/ /\ stage[a] = "store"
        /\ \E i \in job[a].target :
             /\ version[i] = job[a].seen
             /\ spec' = [spec EXCEPT ![i] = want[a]]
             /\ version' = [version EXCEPT ![i] = @ + 1]
        /\ Rollback(a)
        /\ UNCHANGED current
        /\ lost' = lost \cup UNION PreviousPorts(job[a].prev, want[a])
        /\ spoiled' = spoiled \cup got[a]
     \/ /\ stage[a] = "delete" /\ todo[a] = {}
        /\ End({a})
        /\ spoiled' = spoiled \cup Spoils(a)
        /\ UNCHANGED <<current, spec, version, lost>>
  /\ UNCHANGED marked

(* An update of the range is applied and its answer is lost: the call ends *)
(* with an error, as in FailCall.  Nobody knows of the port it drew, and   *)
(* the specs of an interrupted deletion go on naming what it has released. *)
AnswerLost(a) ==
  /\ faults < MaxFaults /\ faults' = faults + 1
  /\ copy[a] # NoCopy
  /\ \/ /\ stage[a] = "allocate"
        /\ \E p \in (Range \ copy[a]) \ Busy, skipped \in SUBSET ((Range \cap Busy) \ copy[a]) :
             /\ Update(a, copy[a] \cup skipped \cup {p})
             /\ \/ want[a].port # Random /\ Rollback(a) /\ lost' = lost \cup {p}
                \/ want[a].port = Random /\ End({a}) /\ lost' = lost \cup {p} \cup InHand(a)
        /\ UNCHANGED spoiled
     \/ \E ports \in todo[a] :
          /\ Update(a, copy[a] \ ports)
          /\ End({a})
          /\ \/ /\ stage[a] \in {"rollback", "release"}
                /\ lost' = lost \cup (InHand(a) \ ports)
                /\ UNCHANGED spoiled
             \/ /\ stage[a] \in {"clear", "delete"}
                /\ spoiled' = spoiled \cup Spoils(a) \cup ports
                /\ UNCHANGED lost
  /\ UNCHANGED <<spec, version>>

(* A host's process dies with its activities.                              *)
Crash(h) ==
  LET running == {a \in Activity : stage[a] # "idle" /\ job[a].host = h}
  IN  /\ faults < MaxFaults /\ faults' = faults + 1
      /\ running # {}
      /\ End(running)
      /\ current' = current \ running
      /\ lost' = lost \cup UNION {InHand(a) : a \in running}
      /\ spoiled' = spoiled \cup UNION {Spoils(a) : a \in running}
      /\ UNCHANGED <<marked, spec, version>>

----------------------------------------------------------------------------

Begin(a) ==
  \/ \E i \in Instance : \E req \in Requests[i] : Reconcile(a, i, req)
  \/ \E s \in {{i} : i \in Instance} \cup Databases, h \in Host : Delete(a, s, h)

Step(a) ==
  \/ AllocatePort(a) \/ ReleasePort(a) \/ RangeFull(a) \/ Conflict(a)
  \/ StoreSpec(a) \/ DeleteSpecs(a)

Next ==
  \/ \E a \in Activity :
       Begin(a) \/ RestoreAllocator(a) \/ Step(a) \/ StoreFails(a) \/ AnswerLost(a)
  \/ \E h \in Host : Crash(h)

Spec == Init /\ [][Next]_vars

(* An activity that runs goes on, and the mutex, a sync.Mutex, is handed to*)
(* a waiter that has waited for long (strong fairness).                    *)
Fairness == \A a \in Activity : WF_vars(Step(a)) /\ SF_vars(RestoreAllocator(a))

FairSpec == Spec /\ Fairness

----------------------------------------------------------------------------
(* Properties.                                                             *)

(* Instances whose spec is stored and is not on its way out.               *)
Live ==
  {i \in Instance : /\ version[i] > 0
                    /\ \A a \in Activity : stage[a] = "delete" => i \notin job[a].target}

Shared(i, j) ==
  IF i = j THEN {p \in Drawn : spec[i].port = p /\ spec[i].patroni = p}
           ELSE PortsOf(spec[i]) \cap PortsOf(spec[j]) \cap Drawn

(* No two instances own the same random port, and the two ports of one     *)
(* instance differ, however the activities of the hosts behind one address *)
(* interleave, fail and die (AllocatePort, rollback, ReleasePort), and     *)
(* however named ports inside the range get in their way.  The ports       *)
(* exempted are those a deletion released before it failed, or a rollback  *)
(* after an update of the spec that was applied and reported failed; and   *)
(* the ports that specifications name, which are not in the allocator's    *)
(* hands.                                                                  *)
UniquePorts == \A i, j \in Live : Shared(i, j) \subseteq spoiled

(* The same for every port of the range, without exemptions.               *)
UniquePortsAlways ==
  \A i, j \in Live :
    IF i = j THEN spec[i].port \in Range => spec[i].port # spec[i].patroni
             ELSE PortsOf(spec[i]) \cap PortsOf(spec[j]) \cap Range = {}

(* A drawn port that a stored spec or a running activity relies on is      *)
(* marked in the stored range: no allocation can hand it out again.        *)
OwnedIsMarked ==
  /\ \A i \in Live : (PortsOf(spec[i]) \cap Drawn) \ spoiled \subseteq marked
  /\ \A a \in Activity :
       stage[a] \in {"allocate", "store"} => (got[a] \cap Drawn) \ spoiled \subseteq marked

(* No leak: a port stays marked only while somebody owns it, some activity *)
(* is going to release it, a foreign process was found on it, or the       *)
(* release was lost to a fault or to contention: the rollbacks and the     *)
(* releases of replaced ports reach every other port.                      *)
NoLeak ==
  marked \subseteq Busy \cup lost
    \cup (UNION {PortsOf(spec[i]) : i \in {j \in Instance : version[j] > 0}})
    \cup (UNION {InHand(a) : a \in Activity})

(* Bitmap and specifications agree from either side, although they are     *)
(* separate records: ReconcileInstanceSpec allocates before it stores and   *)
(* releases after, with a rollback between.                                 *)
MarkedMeansOwned == OwnedIsMarked /\ NoLeak

(* Every reconciliation and every deletion returns, even against endless   *)
(* contention for the range: the attempts are counted and the mutex is     *)
(* always given back.                                                      *)
CallsReturn == \A a \in Activity : stage[a] # "idle" ~> stage[a] = "idle"
=============================================================================
