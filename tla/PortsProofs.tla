---------------------------- MODULE PortsProofs ----------------------------
(***************************************************************************)
(* For any number of activities, instances, hosts, ports and attempts: no  *)
(* two instances own one random port, and the bitmap agrees with the       *)
(* specifications.                                                         *)
(*                                                                         *)
(* The proofs follow the claims on a port.  The stored specification of an *)
(* instance claims its ports until a deletion has released them, and an    *)
(* activity claims what it has in hand.  Every step hands claims on; none  *)
(* is duplicated, none is given up before the bit is cleared, and no bit   *)
(* stays without one, except what the histories lost and spoiled name.     *)
(***************************************************************************)
EXTENDS Ports, TLAPS

Reconciling == {"allocate", "store"}
Deletes == {"clear", "delete"}

(* The stored specification of i claims p.                                 *)
Claims(i, p) ==
  /\ version[i] > 0 /\ p \in PortsOf(spec[i])
  /\ \A a \in Activity :
       stage[a] = "delete" /\ i \in job[a].target => p \in UNION todo[a]

----------------------------------------------------------------------------
(* The parts of the inductive invariant.                                   *)

(* What is written to the store has no port left to assign, and follows    *)
(* the version that was read.                                              *)
StoreReady ==
  \A a \in Activity :
    /\ stage[a] \in Reconciling => job[a].seen < MaxVersion
    /\ stage[a] = "store" => want[a].port # Random /\ want[a].patroni # Random

(* A copy belongs to a call, and a current one is the stored bitmap.       *)
CopyIsStored ==
  /\ \A a \in current : copy[a] = marked
  /\ \A a \in Activity : copy[a] # NoCopy => InCall(a)

(* Nothing else works on an instance that is being deleted.                *)
DeletesAlone ==
  \A a, b \in Activity :
    a # b /\ stage[a] \in Deletes /\ stage[b] # "idle"
      => job[a].target \cap job[b].target = {}

GoneIsUnset == \A i \in Instance : version[i] = 0 => spec[i] = Unset

IdleHasNone == \A a \in Activity : stage[a] = "idle" => got[a] = {}

(* An allocation is for a port that is yet to be assigned.                 *)
AllocatesRandom ==
  \A a \in Activity : stage[a] = "allocate" => want[a].port = Random \/ want[a].patroni = Random

(* A reconciliation has what it wants from the stored settings or from     *)
(* allocations, and as long as the version it has seen is the stored one,  *)
(* the settings it has read are, too.                                      *)
WantsOwn(a) ==
  /\ want[a].port \in Drawn => want[a].port \in got[a] \cup {job[a].prev.port}
  /\ want[a].patroni \in Drawn => want[a].patroni \in got[a] \cup {job[a].prev.patroni}
  /\ got[a] \subseteq PortsOf(want[a])
  /\ \A i \in job[a].target :
       /\ job[a].seen <= version[i]
       /\ version[i] = job[a].seen =>
            /\ spec[i] = job[a].prev
            /\ want[a].port \in Drawn \ spoiled => want[a].port # want[a].patroni

WantsItsOwn == \A a \in Activity : stage[a] \in Reconciling => WantsOwn(a)

(* The release calls that an activity has yet to make.                     *)
TodoIsRight ==
  \A a \in Activity :
    /\ stage[a] \in {"rollback", "release"} =>
         \A s, t \in todo[a] : s # t => s \cap t = {}
    /\ stage[a] = "clear" => \A i \in job[a].target : PortsOf(spec[i]) \subseteq UNION todo[a]
    /\ stage[a] \in Deletes =>
         \A s \in todo[a] : \E i \in job[a].target : version[i] > 0 /\ s = PortsOf(spec[i])

(* No port has two claims, and what is claimed is marked.                  *)
OneClaim ==
  \A p \in Drawn \ spoiled :
    /\ \A i, j \in Instance : Claims(i, p) /\ Claims(j, p) => i = j
    /\ \A i \in Instance : Claims(i, p) => ~(spec[i].port = p /\ spec[i].patroni = p)
    /\ \A i \in Instance, a \in Activity : Claims(i, p) => p \notin InHand(a)
    /\ \A a, b \in Activity : p \in InHand(a) /\ p \in InHand(b) => a = b

ClaimedIsMarked ==
  \A p \in Drawn \ spoiled :
    /\ \A i \in Instance : Claims(i, p) => p \in marked
    /\ \A a \in Activity : p \in InHand(a) => p \in marked

(* What is marked is claimed.                                              *)
MarkedIsClaimed ==
  \A p \in marked : \/ p \in Busy \cup lost
                    \/ \E i \in Instance : Claims(i, p)
                    \/ \E a \in Activity : p \in InHand(a)

TypeInv == TypeOK /\ StoreReady
JobInv == TypeInv /\ CopyIsStored /\ DeletesAlone /\ GoneIsUnset /\ TodoIsRight
IInv ==
  /\ JobInv /\ IdleHasNone /\ AllocatesRandom /\ WantsItsOwn
  /\ OneClaim /\ ClaimedIsMarked /\ MarkedIsClaimed
----------------------------------------------------------------------------
(* Type correctness.                                                       *)

AnyPort == Range \cup Explicit

WantType == [port : AnyPort \cup {NoPort, Random}, patroni : AnyPort \cup {NoPort, Random}]
JobType == [host : Host, target : SUBSET Instance, prev : Settings, seen : Nat]
CopyType == (SUBSET AnyPort) \cup {NoCopy}

LEMMA UnsetIsSettings == Unset \in Settings /\ Unset \in WantType
BY DEF Unset, Settings, WantType

LEMMA NoJobIsJob == NoJob \in JobType
<1>1. (CHOOSE h \in Host : TRUE) \in Host
  BY PortsAssumption
<1>2. QED
  BY <1>1, UnsetIsSettings DEF NoJob, JobType

LEMMA PortsOfType == \A s \in Settings : PortsOf(s) \subseteq AnyPort
BY DEF PortsOf, Settings, AnyPort

LEMMA CarriedOver ==
  ASSUME NEW prev \in Settings,
         NEW req \in [port : Explicit \cup {NoPort, Random},
                      patroni : Explicit \cup {NoPort, Random}]
  PROVE  CopySettingsFrom(prev, req) \in WantType
BY DEF CopySettingsFrom, ReconcilePort, WantType, Settings, AnyPort

LEMMA PreviousIs ==
  ASSUME NEW prev \in Settings, NEW new \in WantType, NEW s
  PROVE  s \in PreviousPorts(prev, new) <=>
           \/ s = {prev.port} /\ prev.port # NoPort /\ prev.port # new.port
           \/ s = {prev.patroni} /\ prev.patroni # NoPort /\ prev.patroni # new.patroni
<1>1. prev["port"] = prev.port /\ prev["patroni"] = prev.patroni
  BY DEF Settings
<1>2. new["port"] = new.port /\ new["patroni"] = new.patroni
  BY DEF WantType
<1>3. QED
  BY <1>1, <1>2, Zenon DEF PreviousPorts

LEMMA PreviousUnion ==
  ASSUME NEW prev \in Settings, NEW new \in WantType, NEW q
  PROVE  q \in UNION PreviousPorts(prev, new) <=>
           \/ q = prev.port /\ prev.port # NoPort /\ prev.port # new.port
           \/ q = prev.patroni /\ prev.patroni # NoPort /\ prev.patroni # new.patroni
<1>1. ASSUME NEW s \in PreviousPorts(prev, new), q \in s
      PROVE  \/ q = prev.port /\ prev.port # NoPort /\ prev.port # new.port
             \/ q = prev.patroni /\ prev.patroni # NoPort /\ prev.patroni # new.patroni
  <2>1. CASE s = {prev.port} /\ prev.port # NoPort /\ prev.port # new.port
    BY <1>1, <2>1
  <2>2. CASE s = {prev.patroni} /\ prev.patroni # NoPort /\ prev.patroni # new.patroni
    BY <1>1, <2>2
  <2>3. QED
    BY <2>1, <2>2, PreviousIs
<1>2. prev.port # NoPort /\ prev.port # new.port => {prev.port} \in PreviousPorts(prev, new)
  BY PreviousIs
<1>3. prev.patroni # NoPort /\ prev.patroni # new.patroni
        => {prev.patroni} \in PreviousPorts(prev, new)
  BY PreviousIs
<1> HIDE DEF PreviousPorts
<1>4. QED
  BY <1>1, <1>2, <1>3

LEMMA PreviousType ==
  ASSUME NEW prev \in Settings, NEW new \in WantType
  PROVE  PreviousPorts(prev, new) \subseteq SUBSET AnyPort
<1>1. \A s \in PreviousPorts(prev, new) : s = {prev.port} \/ s = {prev.patroni}
  BY PreviousIs
<1>2. \A s \in PreviousPorts(prev, new) : s \subseteq AnyPort
  <2> TAKE s \in PreviousPorts(prev, new)
  <2>1. CASE s = {prev.port} /\ prev.port # NoPort
    BY <2>1 DEF Settings, AnyPort
  <2>2. CASE s = {prev.patroni} /\ prev.patroni # NoPort
    BY <2>2 DEF Settings, AnyPort
  <2>3. QED
    BY <2>1, <2>2, PreviousIs
<1>3. QED
  BY <1>2

LEMMA NoCopyIsNone == \A s : s \subseteq AnyPort => s # NoCopy
BY PortsAssumption DEF NoCopy, AnyPort

LEMMA InHandIs ==
  ASSUME NEW a \in Activity
  PROVE  /\ stage[a] \in Reconciling => InHand(a) = got[a]
         /\ stage[a] \in {"rollback", "release"} => InHand(a) = UNION todo[a]
         /\ stage[a] \notin Reconciling \cup {"rollback", "release"} => InHand(a) = {}
BY DEF InHand, Reconciling
(* Each branch of an action, with the parts of TypeOK spelled out.         *)
Typed ==
  /\ marked \subseteq AnyPort
  /\ current \subseteq Activity
  /\ spec \in [Instance -> Settings]
  /\ version \in [Instance -> 0..MaxVersion]
  /\ stage \in [Activity -> Stages]
  /\ job \in [Activity -> JobType]
  /\ want \in [Activity -> WantType]
  /\ got \in [Activity -> SUBSET Range]
  /\ todo \in [Activity -> SUBSET SUBSET AnyPort]
  /\ copy \in [Activity -> CopyType]
  /\ tries \in [Activity -> 0..MaxRetries]
  /\ lost \subseteq AnyPort
  /\ spoiled \subseteq AnyPort
  /\ faults \in 0..MaxFaults

LEMMA TypesAre == TypeOK <=> Typed
BY DEF TypeOK, Typed, AnyPort, WantType, JobType, CopyType

LEMMA LeaveCallTypes ==
  ASSUME Typed, NEW s, LeaveCall(s)
  PROVE  /\ copy' \in [Activity -> CopyType]
         /\ tries' \in [Activity -> 0..MaxRetries]
<1>1. copy' \in [Activity -> CopyType]
  BY DEF Typed, LeaveCall, CopyType
<1>2. 0 \in 0..MaxRetries
  BY PortsAssumption
<1>3. tries' \in [Activity -> 0..MaxRetries]
  BY <1>2 DEF Typed, LeaveCall
<1>4. QED
  BY <1>1, <1>3

LEMMA EndTypes ==
  ASSUME Typed, StoreReady, NEW s, End(s)
  PROVE  /\ stage' \in [Activity -> Stages]
         /\ job' \in [Activity -> JobType]
         /\ want' \in [Activity -> WantType]
         /\ got' \in [Activity -> SUBSET Range]
         /\ todo' \in [Activity -> SUBSET SUBSET AnyPort]
         /\ copy' \in [Activity -> CopyType]
         /\ tries' \in [Activity -> 0..MaxRetries]
         /\ StoreReady'
<1>1. /\ copy' \in [Activity -> CopyType]
      /\ tries' \in [Activity -> 0..MaxRetries]
  BY LeaveCallTypes DEF End
<1>2. /\ stage' \in [Activity -> Stages]
      /\ got' \in [Activity -> SUBSET Range]
      /\ todo' \in [Activity -> SUBSET SUBSET AnyPort]
  BY DEF Typed, End, Stages
<1>3. job' \in [Activity -> JobType]
  BY NoJobIsJob DEF Typed, End
<1>4. want' \in [Activity -> WantType]
  BY UnsetIsSettings DEF Typed, End
<1>5. ASSUME NEW a \in Activity
      PROVE  /\ stage'[a] \in Reconciling => job'[a].seen < MaxVersion
             /\ stage'[a] = "store" => want'[a].port # Random /\ want'[a].patroni # Random
  <2>1. CASE a \in s
    BY <2>1 DEF End, Typed, Reconciling
  <2>2. CASE a \notin s
    BY <2>2 DEF End, Typed, StoreReady
  <2>3. QED
    BY <2>1, <2>2
<1>6. QED
  BY <1>1, <1>2, <1>3, <1>4, <1>5 DEF StoreReady

LEMMA RollbackTypes ==
  ASSUME Typed, StoreReady, NEW a \in Activity, Rollback(a)
  PROVE  /\ stage' \in [Activity -> Stages]
         /\ job' \in [Activity -> JobType]
         /\ want' \in [Activity -> WantType]
         /\ got' \in [Activity -> SUBSET Range]
         /\ todo' \in [Activity -> SUBSET SUBSET AnyPort]
         /\ copy' \in [Activity -> CopyType]
         /\ tries' \in [Activity -> 0..MaxRetries]
         /\ StoreReady'
<1>1. /\ copy' \in [Activity -> CopyType]
      /\ tries' \in [Activity -> 0..MaxRetries]
  BY LeaveCallTypes DEF Rollback
<1>2. /\ stage' \in [Activity -> Stages]
      /\ job' = job /\ want' = want /\ got' = got
  BY DEF Typed, Rollback, Stages
<1>3. todo' \in [Activity -> SUBSET SUBSET AnyPort]
  BY DEF Typed, Rollback, AnyPort
<1>4. \A b \in Activity : stage'[b] \in Reconciling => stage'[b] = stage[b]
  BY DEF Typed, Rollback, Reconciling
<1>5. StoreReady'
  BY <1>2, <1>4 DEF StoreReady, Reconciling
<1>6. QED
  BY <1>1, <1>2, <1>3, <1>5 DEF Typed

LEMMA InHandTypes == ASSUME Typed, NEW a \in Activity PROVE InHand(a) \subseteq AnyPort
<1>1. got[a] \subseteq AnyPort /\ UNION todo[a] \subseteq AnyPort
  BY DEF Typed, AnyPort
<1>2. QED
  BY <1>1, InHandIs DEF Reconciling

LEMMA SpoilsTypes == ASSUME Typed, NEW a \in Activity PROVE Spoils(a) \subseteq AnyPort
<1>1. \A i \in Instance : PortsOf(spec[i]) \subseteq AnyPort
  BY PortsOfType DEF Typed
<1>2. job[a].target \subseteq Instance
  BY DEF Typed, JobType
<1>3. QED
  BY <1>1, <1>2 DEF Spoils

LEMMA FailCallTypes ==
  ASSUME Typed, StoreReady, NEW a \in Activity, FailCall(a)
  PROVE  /\ stage' \in [Activity -> Stages]
         /\ job' \in [Activity -> JobType]
         /\ want' \in [Activity -> WantType]
         /\ got' \in [Activity -> SUBSET Range]
         /\ todo' \in [Activity -> SUBSET SUBSET AnyPort]
         /\ copy' \in [Activity -> CopyType]
         /\ tries' \in [Activity -> 0..MaxRetries]
         /\ current' \subseteq Activity
         /\ lost' \subseteq AnyPort /\ spoiled' \subseteq AnyPort
         /\ StoreReady'
<1>1. CASE Rollback(a) /\ current' = current \ {a} /\ UNCHANGED <<lost, spoiled>>
  BY <1>1, RollbackTypes DEF Typed
<1>2. CASE /\ End({a})
           /\ current' = current \ {a}
           /\ lost' = lost \cup InHand(a)
           /\ spoiled' = spoiled \cup Spoils(a)
  BY <1>2, EndTypes, InHandTypes, SpoilsTypes DEF Typed
<1>3. QED
  BY <1>1, <1>2 DEF FailCall
LEMMA UpdateIs ==
  ASSUME Typed, NEW a \in Activity, NEW ports, Update(a, ports), ports \subseteq AnyPort
  PROVE  marked' \subseteq AnyPort /\ current' \subseteq Activity
BY DEF Update, Typed

LEMMA CopyIsPorts ==
  ASSUME Typed, NEW a \in Activity, copy[a] # NoCopy PROVE copy[a] \subseteq AnyPort
BY DEF Typed, CopyType

LEMMA WantedSettings ==
  ASSUME Typed, StoreReady, NEW a \in Activity, stage[a] = "store"
  PROVE  want[a] \in Settings
<1>1. want[a] \in WantType /\ want[a].port # Random /\ want[a].patroni # Random
  BY DEF Typed, StoreReady
<1>2. QED
  BY <1>1 DEF WantType, Settings, AnyPort

(* The specification is written over the version that was read.            *)
LEMMA WrittenTypes ==
  ASSUME Typed, StoreReady, NEW a \in Activity, stage[a] = "store",
         NEW i \in job[a].target, version[i] = job[a].seen,
         spec' = [spec EXCEPT ![i] = want[a]],
         version' = [version EXCEPT ![i] = @ + 1]
  PROVE  /\ i \in Instance
         /\ spec' \in [Instance -> Settings]
         /\ version' \in [Instance -> 0..MaxVersion]
<1>1. i \in Instance
  BY DEF Typed, JobType
<1>2. spec' \in [Instance -> Settings]
  BY <1>1, WantedSettings DEF Typed
<1>3. version[i] + 1 \in 0..MaxVersion
  BY <1>1, PortsAssumption DEF Typed, StoreReady, Reconciling
<1>4. version' \in [Instance -> 0..MaxVersion]
  BY <1>1, <1>3 DEF Typed
<1>5. QED
  BY <1>1, <1>2, <1>4

LEMMA ReconcileTypes ==
  ASSUME Typed, StoreReady, NEW a \in Activity, NEW i \in Instance,
         NEW req \in Requests[i], Reconcile(a, i, req)
  PROVE  Typed' /\ StoreReady'
<1> DEFINE w == CopySettingsFrom(spec[i], req)
           j == [host |-> HostOf[i], target |-> {i}, prev |-> spec[i], seen |-> version[i]]
<1>1. w \in WantType
  <2>1. spec[i] \in Settings
    BY DEF Typed
  <2>2. req \in [port : Explicit \cup {NoPort, Random}, patroni : Explicit \cup {NoPort, Random}]
    BY PortsAssumption
  <2>3. QED
    BY <2>1, <2>2, CarriedOver
<1>2. j \in JobType /\ j.seen = version[i] /\ version[i] < MaxVersion
  BY PortsAssumption DEF Typed, JobType, Reconcile
<1>3. /\ want' = [want EXCEPT ![a] = w]
      /\ job' = [job EXCEPT ![a] = j]
      /\ stage' = [stage EXCEPT ![a] = AfterAllocation(want'[a])]
      /\ UNCHANGED <<stored, got, todo, copy, tries, lost, spoiled, faults>>
  BY DEF Reconcile
<1> HIDE DEF w, j
<1>4. want'[a] = w /\ job'[a] = j
  BY <1>3 DEF Typed
<1>5. AfterAllocation(w) \in Reconciling
  BY DEF AfterAllocation, Reconciling
<1>6. AfterAllocation(w) = "store" => w.port # Random /\ w.patroni # Random
  BY DEF AfterAllocation
<1>7. stage' = [stage EXCEPT ![a] = AfterAllocation(w)]
  BY <1>3, <1>4
<1>8. Typed'
  BY <1>1, <1>2, <1>3, <1>5, <1>7 DEF Typed, stored, Reconciling, Stages
<1>9. ASSUME NEW b \in Activity
      PROVE  /\ stage'[b] \in Reconciling => job'[b].seen < MaxVersion
             /\ stage'[b] = "store" => want'[b].port # Random /\ want'[b].patroni # Random
  <2>1. CASE a = b
    BY <2>1, <1>2, <1>4, <1>6, <1>7 DEF Typed
  <2>2. CASE a # b
    BY <2>2, <1>3, <1>7 DEF Typed, StoreReady
  <2>3. QED
    BY <2>1, <2>2
<1>10. QED
  BY <1>8, <1>9 DEF StoreReady

LEMMA DeleteTypes ==
  ASSUME Typed, StoreReady, NEW a \in Activity, NEW s \in SUBSET Instance, NEW h \in Host,
         Delete(a, s, h)
  PROVE  Typed' /\ StoreReady'
<1> DEFINE j == [host |-> h, target |-> s, prev |-> Unset, seen |-> 0]
           t == {PortsOf(spec[i]) : i \in {k \in s : version[k] > 0}}
<1>1. j \in JobType
  BY UnsetIsSettings DEF JobType
<1>2. t \subseteq SUBSET AnyPort
  BY PortsOfType DEF Typed
<1>3. /\ stage' = [stage EXCEPT ![a] = "clear"]
      /\ job' = [job EXCEPT ![a] = j]
      /\ todo' = [todo EXCEPT ![a] = t]
      /\ UNCHANGED <<stored, want, got, copy, tries, lost, spoiled, faults>>
  BY DEF Delete
<1> HIDE DEF j, t
<1>4. Typed'
  BY <1>1, <1>2, <1>3 DEF Typed, stored, Stages
<1>5. ASSUME NEW b \in Activity, stage'[b] \in Reconciling
      PROVE  stage'[b] = stage[b] /\ job'[b] = job[b]
  BY <1>3, <1>5 DEF Typed, Reconciling
<1>6. StoreReady'
  BY <1>3, <1>5 DEF StoreReady, Reconciling
<1>7. QED
  BY <1>4, <1>6

LEMMA StoreSpecTypes ==
  ASSUME Typed, StoreReady, NEW a \in Activity, StoreSpec(a)
  PROVE  Typed' /\ StoreReady'
<1>1. PICK i \in job[a].target :
       \/ /\ version[i] = job[a].seen
          /\ spec' = [spec EXCEPT ![i] = want[a]]
          /\ version' = [version EXCEPT ![i] = @ + 1]
          /\ \/ /\ stage' = [stage EXCEPT ![a] = "release"]
                /\ todo' = [todo EXCEPT ![a] = PreviousPorts(job[a].prev, want[a])]
                /\ got' = [got EXCEPT ![a] = {}]
                /\ UNCHANGED <<job, want, copy, tries>>
             \/ End({a})
          /\ UNCHANGED current
       \/ /\ Rollback(a)
          /\ UNCHANGED <<current, spec, version>>
  BY DEF StoreSpec
<1>2. stage[a] = "store" /\ UNCHANGED <<marked, lost, spoiled, faults>>
  BY DEF StoreSpec
<1>3. CASE Rollback(a) /\ UNCHANGED <<current, spec, version>>
  BY <1>2, <1>3, RollbackTypes DEF Typed
<1>4. ASSUME version[i] = job[a].seen,
             spec' = [spec EXCEPT ![i] = want[a]],
             version' = [version EXCEPT ![i] = @ + 1],
             UNCHANGED current
      PROVE  spec' \in [Instance -> Settings] /\ version' \in [Instance -> 0..MaxVersion]
  BY <1>2, <1>4, WrittenTypes
<1>5. CASE /\ version[i] = job[a].seen
           /\ spec' = [spec EXCEPT ![i] = want[a]]
           /\ version' = [version EXCEPT ![i] = @ + 1]
           /\ End({a})
           /\ UNCHANGED current
  BY <1>2, <1>4, <1>5, EndTypes DEF Typed
<1>6. CASE /\ version[i] = job[a].seen
           /\ spec' = [spec EXCEPT ![i] = want[a]]
           /\ version' = [version EXCEPT ![i] = @ + 1]
           /\ stage' = [stage EXCEPT ![a] = "release"]
           /\ todo' = [todo EXCEPT ![a] = PreviousPorts(job[a].prev, want[a])]
           /\ got' = [got EXCEPT ![a] = {}]
           /\ UNCHANGED <<job, want, copy, tries>>
           /\ UNCHANGED current
  <2>1. PreviousPorts(job[a].prev, want[a]) \subseteq SUBSET AnyPort
    BY PreviousType DEF Typed, JobType
  <2>2. todo' \in [Activity -> SUBSET SUBSET AnyPort]
    BY <1>6, <2>1 DEF Typed
  <2>3. Typed'
    BY <1>2, <1>4, <1>6, <2>2 DEF Typed, Stages
  <2>4. \A b \in Activity : stage'[b] \in Reconciling => stage'[b] = stage[b]
    BY <1>6 DEF Typed, Reconciling
  <2>5. StoreReady'
    BY <1>6, <2>4 DEF StoreReady, Reconciling
  <2>6. QED
    BY <2>3, <2>5
<1>7. QED
  BY <1>1, <1>3, <1>5, <1>6

LEMMA DeleteSpecsTypes ==
  ASSUME Typed, StoreReady, NEW a \in Activity, DeleteSpecs(a)
  PROVE  Typed' /\ StoreReady'
<1>1. spec' \in [Instance -> Settings]
  BY UnsetIsSettings DEF DeleteSpecs, Typed
<1>2. 0 \in 0..MaxVersion
  BY PortsAssumption
<1>3. version' \in [Instance -> 0..MaxVersion]
  BY <1>2 DEF DeleteSpecs, Typed
<1>4. QED
  BY <1>1, <1>3, EndTypes DEF DeleteSpecs, Typed
LEMMA RestoreTypes ==
  ASSUME Typed, StoreReady, NEW a \in Activity, RestoreAllocator(a)
  PROVE  Typed' /\ StoreReady'
<1>1. copy' \in [Activity -> CopyType]
  BY DEF RestoreAllocator, Typed, CopyType
<1>2. tries' \in [Activity -> 0..MaxRetries]
  BY PortsAssumption DEF RestoreAllocator, Typed
<1>3. QED
  BY <1>1, <1>2 DEF RestoreAllocator, Typed, StoreReady

(* What an allocation wants next: the port comes before the patroni port.  *)
Assigned(w, p) ==
  IF w.port = Random THEN [port |-> p, patroni |-> w.patroni]
                     ELSE [port |-> w.port, patroni |-> p]

(* The parts of an allocation.                                             *)
LEMMA AllocateIs ==
  ASSUME Typed, NEW a \in Activity, AllocatePort(a)
  PROVE  \E p \in (Range \ copy[a]) \ Busy, skipped \in SUBSET ((Range \cap Busy) \ copy[a]) :
           /\ Update(a, copy[a] \cup skipped \cup {p})
           /\ want' = [want EXCEPT ![a] = Assigned(want[a], p)]
           /\ got' = [got EXCEPT ![a] = got[a] \cup {p}]
           /\ stage' = [stage EXCEPT ![a] = AfterAllocation(Assigned(want[a], p))]
           /\ Assigned(want[a], p) \in WantType
<1>1. PICK p \in (Range \ copy[a]) \ Busy, skipped \in SUBSET ((Range \cap Busy) \ copy[a]) :
           /\ Update(a, copy[a] \cup skipped \cup {p})
           /\ want' = [want EXCEPT ![a] = IF want[a].port = Random
                                          THEN [want[a] EXCEPT !.port = p]
                                          ELSE [want[a] EXCEPT !.patroni = p]]
           /\ got' = [got EXCEPT ![a] = got[a] \cup {p}]
  BY DEF AllocatePort
<1>2. want[a] \in WantType /\ p \in AnyPort
  BY DEF Typed, AnyPort
<1>3. /\ [want[a] EXCEPT !.port = p] = [port |-> p, patroni |-> want[a].patroni]
      /\ [want[a] EXCEPT !.patroni = p] = [port |-> want[a].port, patroni |-> p]
  BY <1>2 DEF WantType
<1>4. want' = [want EXCEPT ![a] = Assigned(want[a], p)]
  BY <1>1, <1>3 DEF Assigned
<1>5. want'[a] = Assigned(want[a], p)
  BY <1>4 DEF Typed
<1>6. Assigned(want[a], p) \in WantType
  BY <1>2 DEF Assigned, WantType
<1>7. stage' = [stage EXCEPT ![a] = AfterAllocation(want'[a])]
  BY DEF AllocatePort
<1>8. QED
  BY <1>1, <1>4, <1>5, <1>6, <1>7

LEMMA AllocateTypes ==
  ASSUME Typed, StoreReady, NEW a \in Activity, AllocatePort(a)
  PROVE  Typed' /\ StoreReady'
<1>1. PICK p \in (Range \ copy[a]) \ Busy, skipped \in SUBSET ((Range \cap Busy) \ copy[a]) :
           /\ Update(a, copy[a] \cup skipped \cup {p})
           /\ want' = [want EXCEPT ![a] = Assigned(want[a], p)]
           /\ got' = [got EXCEPT ![a] = got[a] \cup {p}]
           /\ stage' = [stage EXCEPT ![a] = AfterAllocation(Assigned(want[a], p))]
           /\ Assigned(want[a], p) \in WantType
  BY AllocateIs
<1> DEFINE w == Assigned(want[a], p)
<1>2. AfterAllocation(w) \in Reconciling
  BY DEF AfterAllocation, Reconciling
<1>3. AfterAllocation(w) = "store" => w.port # Random /\ w.patroni # Random
  BY DEF AfterAllocation
<1>4. /\ want' = [want EXCEPT ![a] = w]
      /\ stage' = [stage EXCEPT ![a] = AfterAllocation(w)]
      /\ w \in WantType
  BY <1>1
<1> HIDE DEF w
<1>5. copy[a] \subseteq AnyPort /\ stage[a] = "allocate"
  BY CopyIsPorts DEF AllocatePort
<1>6. copy[a] \cup skipped \cup {p} \subseteq AnyPort
  BY <1>5 DEF AnyPort
<1>7. marked' \subseteq AnyPort /\ current' \subseteq Activity
  BY <1>1, <1>6, UpdateIs
<1>8. copy' \in [Activity -> CopyType] /\ tries' \in [Activity -> 0..MaxRetries]
  BY LeaveCallTypes DEF AllocatePort
<1>9. got' \in [Activity -> SUBSET Range]
  BY <1>1 DEF Typed
<1>10. UNCHANGED <<spec, version, job, todo, lost, spoiled, faults>>
  BY DEF AllocatePort
<1>11. Typed'
  BY <1>2, <1>4, <1>7, <1>8, <1>9, <1>10 DEF Typed, Reconciling, Stages
<1>12. ASSUME NEW b \in Activity
      PROVE  /\ stage'[b] \in Reconciling => job'[b].seen < MaxVersion
             /\ stage'[b] = "store" => want'[b].port # Random /\ want'[b].patroni # Random
  <2>1. CASE a = b
    <3>1. stage'[a] = AfterAllocation(w) /\ want'[a] = w
      BY <1>4 DEF Typed
    <3>2. job[a].seen < MaxVersion
      BY <1>5 DEF StoreReady, Reconciling
    <3>3. QED
      BY <2>1, <3>1, <3>2, <1>3, <1>10
  <2>2. CASE a # b
    BY <2>2, <1>4, <1>10 DEF Typed, StoreReady
  <2>3. QED
    BY <2>1, <2>2
<1>13. QED
  BY <1>11, <1>12 DEF StoreReady

LEMMA ReleaseTypes ==
  ASSUME Typed, StoreReady, NEW a \in Activity, ReleasePort(a)
  PROVE  Typed' /\ StoreReady'
<1>1. PICK ports \in todo[a] :
        /\ Update(a, copy[a] \ ports)
        /\ \/ /\ todo' = [todo EXCEPT ![a] = todo[a] \ {ports}]
              /\ stage' = [stage EXCEPT ![a] = IF stage[a] = "clear" THEN "delete" ELSE stage[a]]
              /\ LeaveCall({a})
              /\ UNCHANGED <<job, want, got>>
           \/ End({a})
  BY DEF ReleasePort
<1>2. /\ stage[a] \in Releasing /\ copy[a] # NoCopy
      /\ UNCHANGED <<spec, version, lost, spoiled, faults>>
  BY DEF ReleasePort
<1>3. marked' \subseteq AnyPort /\ current' \subseteq Activity
  BY <1>1, <1>2, CopyIsPorts, UpdateIs
<1>4. CASE End({a})
  BY <1>2, <1>3, <1>4, EndTypes DEF Typed
<1>5. CASE /\ todo' = [todo EXCEPT ![a] = todo[a] \ {ports}]
           /\ stage' = [stage EXCEPT ![a] = IF stage[a] = "clear" THEN "delete" ELSE stage[a]]
           /\ LeaveCall({a})
           /\ UNCHANGED <<job, want, got>>
  <2>1. copy' \in [Activity -> CopyType] /\ tries' \in [Activity -> 0..MaxRetries]
    BY <1>5, LeaveCallTypes
  <2>2. todo' \in [Activity -> SUBSET SUBSET AnyPort]
    BY <1>5 DEF Typed
  <2>3. stage' \in [Activity -> Stages]
    BY <1>5 DEF Typed, Stages
  <2>4. Typed'
    BY <1>2, <1>3, <1>5, <2>1, <2>2, <2>3 DEF Typed
  <2>5. \A b \in Activity : stage'[b] \in Reconciling => stage'[b] = stage[b]
    BY <1>5 DEF Typed, Reconciling
  <2>6. StoreReady'
    BY <1>5, <2>5 DEF StoreReady, Reconciling
  <2>7. QED
    BY <2>4, <2>6
<1>6. QED
  BY <1>1, <1>4, <1>5

LEMMA ConflictTypes ==
  ASSUME Typed, StoreReady, NEW a \in Activity, Conflict(a)
  PROVE  Typed' /\ StoreReady'
<1>1. UNCHANGED <<marked, spec, version, faults>>
  BY DEF Conflict
<1>2. CASE FailCall(a)
  BY <1>1, <1>2, FailCallTypes DEF Typed
<1>3. CASE /\ tries[a] > 1
           /\ tries' = [tries EXCEPT ![a] = tries[a] - 1]
           /\ copy' = [copy EXCEPT ![a] = NoCopy]
           /\ UNCHANGED <<current, stage, job, want, got, todo, lost, spoiled>>
  <2>1. copy' \in [Activity -> CopyType]
    BY <1>3 DEF Typed, CopyType
  <2>2. tries' \in [Activity -> 0..MaxRetries]
    BY <1>3, PortsAssumption DEF Typed
  <2>3. QED
    BY <1>1, <1>3, <2>1, <2>2 DEF Typed, StoreReady
<1>4. QED
  BY <1>2, <1>3 DEF Conflict

LEMMA StoreFailsTypes ==
  ASSUME Typed, StoreReady, NEW a \in Activity, StoreFails(a)
  PROVE  Typed' /\ StoreReady'
<1>1. UNCHANGED marked /\ faults' \in 0..MaxFaults
  BY PortsAssumption DEF StoreFails, Typed
<1>2. CASE FailCall(a) /\ UNCHANGED <<spec, version>>
  BY <1>1, <1>2, FailCallTypes DEF Typed
<1>3. CASE Rollback(a) /\ UNCHANGED <<current, spec, version, lost, spoiled>>
  BY <1>1, <1>3, RollbackTypes DEF Typed
<1>4. CASE /\ stage[a] = "store"
           /\ \E i \in job[a].target :
                /\ version[i] = job[a].seen
                /\ spec' = [spec EXCEPT ![i] = want[a]]
                /\ version' = [version EXCEPT ![i] = @ + 1]
           /\ Rollback(a)
           /\ UNCHANGED current
           /\ lost' = lost \cup UNION PreviousPorts(job[a].prev, want[a])
           /\ spoiled' = spoiled \cup got[a]
  <2>1. spec' \in [Instance -> Settings] /\ version' \in [Instance -> 0..MaxVersion]
    BY <1>4, WrittenTypes
  <2>2. PreviousPorts(job[a].prev, want[a]) \subseteq SUBSET AnyPort
    BY PreviousType DEF Typed, JobType
  <2>3. lost' \subseteq AnyPort /\ spoiled' \subseteq AnyPort
    BY <1>4, <2>2 DEF Typed, AnyPort
  <2>4. QED
    BY <1>1, <1>4, <2>1, <2>3, RollbackTypes DEF Typed
<1>5. CASE /\ End({a})
           /\ spoiled' = spoiled \cup Spoils(a)
           /\ UNCHANGED <<current, spec, version, lost>>
  BY <1>1, <1>5, EndTypes, SpoilsTypes DEF Typed
<1>6. QED
  BY <1>2, <1>3, <1>4, <1>5 DEF StoreFails

LEMMA AnswerLostTypes ==
  ASSUME Typed, StoreReady, NEW a \in Activity, AnswerLost(a)
  PROVE  Typed' /\ StoreReady'
<1>1. faults' \in 0..MaxFaults /\ UNCHANGED <<spec, version>>
  BY PortsAssumption DEF AnswerLost, Typed
<1>2. copy[a] \subseteq AnyPort
  BY CopyIsPorts DEF AnswerLost
<1>3. ASSUME NEW p \in (Range \ copy[a]) \ Busy, NEW skipped \in SUBSET ((Range \cap Busy) \ copy[a]),
             Update(a, copy[a] \cup skipped \cup {p}), UNCHANGED spoiled,
             \/ Rollback(a) /\ lost' = lost \cup {p}
             \/ End({a}) /\ lost' = lost \cup {p} \cup InHand(a)
      PROVE  Typed' /\ StoreReady'
  <2>1. copy[a] \cup skipped \cup {p} \subseteq AnyPort
    BY <1>2 DEF AnyPort
  <2>2. marked' \subseteq AnyPort /\ current' \subseteq Activity
    BY <1>3, <2>1, UpdateIs
  <2>3. lost' \subseteq AnyPort
    BY <1>3, InHandTypes DEF Typed, AnyPort
  <2>4. CASE Rollback(a)
    BY <1>1, <1>3, <2>2, <2>3, <2>4, RollbackTypes DEF Typed
  <2>5. CASE End({a})
    BY <1>1, <1>3, <2>2, <2>3, <2>5, EndTypes DEF Typed
  <2>6. QED
    BY <1>3, <2>4, <2>5
<1>4. ASSUME NEW ports \in todo[a], Update(a, copy[a] \ ports), End({a}),
             \/ lost' = lost \cup (InHand(a) \ ports) /\ UNCHANGED spoiled
             \/ spoiled' = spoiled \cup Spoils(a) \cup ports /\ UNCHANGED lost
      PROVE  Typed' /\ StoreReady'
  <2>1. copy[a] \ ports \subseteq AnyPort /\ ports \subseteq AnyPort
    BY <1>2 DEF Typed
  <2>2. marked' \subseteq AnyPort /\ current' \subseteq Activity
    BY <1>4, <2>1, UpdateIs
  <2>3. lost' \subseteq AnyPort /\ spoiled' \subseteq AnyPort
    BY <1>4, <2>1, InHandTypes, SpoilsTypes DEF Typed
  <2>4. QED
    BY <1>1, <1>4, <2>2, <2>3, EndTypes DEF Typed
<1>5. QED
  BY <1>3, <1>4 DEF AnswerLost

LEMMA CrashTypes ==
  ASSUME Typed, StoreReady, NEW h \in Host, Crash(h)
  PROVE  Typed' /\ StoreReady'
<1> DEFINE running == {a \in Activity : stage[a] # "idle" /\ job[a].host = h}
<1>1. faults' \in 0..MaxFaults
  BY PortsAssumption DEF Crash, Typed
<1>2. lost' \subseteq AnyPort
  BY InHandTypes DEF Crash, Typed
<1>3. spoiled' \subseteq AnyPort
  BY SpoilsTypes DEF Crash, Typed
<1>4. /\ End(running)
      /\ current' = current \ running
      /\ UNCHANGED <<marked, spec, version>>
  BY DEF Crash
<1>5. QED
  BY <1>1, <1>2, <1>3, <1>4, EndTypes DEF Typed

LEMMA TypeInit == Init => TypeInv
<1> SUFFICES ASSUME Init PROVE TypeInv
  OBVIOUS
<1>1. Typed
  BY UnsetIsSettings, NoJobIsJob, PortsAssumption DEF Init, Typed, Stages, CopyType
<1>2. StoreReady
  BY DEF Init, StoreReady, Reconciling
<1>3. QED
  BY <1>1, <1>2, TypesAre DEF TypeInv

LEMMA TypeStep == TypeInv /\ [Next]_vars => TypeInv'
<1> SUFFICES ASSUME Typed, StoreReady, [Next]_vars PROVE Typed' /\ StoreReady'
  BY TypesAre DEF TypeInv, TypeOK, Typed, AnyPort, WantType, JobType, CopyType
<1>1. CASE UNCHANGED vars
  BY <1>1 DEF vars, stored, local, Typed, StoreReady
<1>2. ASSUME NEW a \in Activity, Begin(a) PROVE Typed' /\ StoreReady'
  <2>1. \A s \in {{i} : i \in Instance} \cup Databases : s \in SUBSET Instance
    BY PortsAssumption
  <2>2. QED
    BY <1>2, <2>1, ReconcileTypes, DeleteTypes DEF Begin
<1>3. ASSUME NEW a \in Activity, RestoreAllocator(a) PROVE Typed' /\ StoreReady'
  BY <1>3, RestoreTypes
<1>4. ASSUME NEW a \in Activity, Step(a) PROVE Typed' /\ StoreReady'
  <2>1. CASE RangeFull(a)
    BY <2>1, FailCallTypes DEF RangeFull, Typed
  <2>2. QED
    BY <1>4, <2>1, AllocateTypes, ReleaseTypes, ConflictTypes, StoreSpecTypes,
       DeleteSpecsTypes DEF Step
<1>5. ASSUME NEW a \in Activity, StoreFails(a) PROVE Typed' /\ StoreReady'
  BY <1>5, StoreFailsTypes
<1>8. ASSUME NEW a \in Activity, AnswerLost(a) PROVE Typed' /\ StoreReady'
  BY <1>8, AnswerLostTypes
<1>6. ASSUME NEW h \in Host, Crash(h) PROVE Typed' /\ StoreReady'
  BY <1>6, CrashTypes
<1>7. QED
  BY <1>1, <1>2, <1>3, <1>4, <1>5, <1>6, <1>8 DEF Next

(* Every state of the allocation is well typed, whatever fails and however *)
(* activities overlap: no version exceeds what a reconciliation may begin  *)
(* from, and no specification is stored with a port that is yet to be      *)
(* assigned (ReconcileInstanceSpec).                                       *)
THEOREM PortsTypeCorrect == Spec => []TypeOK
<1>1. TypeInv => TypeOK
  BY DEF TypeInv
<1>2. QED
  BY <1>1, TypeInit, TypeStep, PTL DEF Spec
----------------------------------------------------------------------------
(* What activities work on.                                                *)

JobParts == Typed /\ StoreReady /\ CopyIsStored /\ DeletesAlone /\ GoneIsUnset /\ TodoIsRight

LEMMA JobPartsAre == JobInv <=> JobParts
BY TypesAre DEF JobInv, JobParts, TypeInv

(* The activities of s are idle, the others are as they were.              *)
LEMMA EndIs ==
  ASSUME Typed, NEW s, End(s)
  PROVE  /\ \A a \in Activity : a \in s =>
              stage'[a] = "idle" /\ got'[a] = {} /\ todo'[a] = {} /\ copy'[a] = NoCopy
         /\ \A a \in Activity : a \notin s =>
              /\ stage'[a] = stage[a] /\ job'[a] = job[a] /\ want'[a] = want[a]
              /\ got'[a] = got[a] /\ todo'[a] = todo[a] /\ copy'[a] = copy[a]
BY DEF End, LeaveCall

LEMMA RollbackIs ==
  ASSUME Typed, NEW a \in Activity, Rollback(a)
  PROVE  /\ stage'[a] = "rollback" /\ todo'[a] = {got[a]} /\ copy'[a] = NoCopy
         /\ job' = job /\ want' = want /\ got' = got
         /\ \A b \in Activity : b # a =>
              stage'[b] = stage[b] /\ todo'[b] = todo[b] /\ copy'[b] = copy[b]
BY DEF Typed, Rollback, LeaveCall

LEMMA NotCurrent ==
  ASSUME Typed, CopyIsStored, NEW a \in Activity, ~InCall(a)
  PROVE  a \notin current
<1>1. marked # NoCopy
  BY NoCopyIsNone DEF Typed
<1>2. QED
  BY <1>1 DEF CopyIsStored

(* The specifications that other activities delete stay as they are.       *)
KeepsDeleted(s) ==
  \A b \in Activity : b \notin s /\ stage[b] \in Deletes =>
    \A i \in job[b].target : spec'[i] = spec[i] /\ version'[i] = version[i]

LEMMA EndKeeps ==
  ASSUME JobParts, NEW s, End(s), KeepsDeleted(s),
         current' \subseteq current \ s,
         current' = {} \/ marked' = marked
  PROVE  CopyIsStored' /\ DeletesAlone' /\ TodoIsRight'
<1>1. CopyIsStored'
  <2>1. ASSUME NEW a \in current' PROVE copy'[a] = marked'
    BY <2>1, EndIs DEF JobParts, CopyIsStored, Typed
  <2>2. ASSUME NEW a \in Activity, copy'[a] # NoCopy PROVE InCall(a)'
    BY <2>2, EndIs DEF JobParts, CopyIsStored, InCall
  <2>3. QED
    BY <2>1, <2>2 DEF CopyIsStored
<1>2. \A a \in Activity : stage'[a] # "idle" =>
         a \notin s /\ stage'[a] = stage[a] /\ job'[a] = job[a] /\ todo'[a] = todo[a]
  BY EndIs DEF JobParts
<1>3. DeletesAlone'
  BY <1>2 DEF JobParts, DeletesAlone, Deletes
<1>4. ASSUME NEW a \in Activity
      PROVE  /\ stage'[a] \in {"rollback", "release"} =>
                  \A u, t \in todo'[a] : u # t => u \cap t = {}
             /\ stage'[a] = "clear" =>
                  \A i \in job'[a].target : PortsOf(spec'[i]) \subseteq UNION todo'[a]
             /\ stage'[a] \in Deletes =>
                  \A u \in todo'[a] : \E i \in job'[a].target :
                    version'[i] > 0 /\ u = PortsOf(spec'[i])
  <2>1. CASE stage'[a] = "idle"
    BY <2>1 DEF Deletes
  <2>2. CASE stage'[a] # "idle"
    <3>1. a \notin s /\ stage'[a] = stage[a] /\ job'[a] = job[a] /\ todo'[a] = todo[a]
      BY <2>2, <1>2
    <3>2. stage[a] \in Deletes =>
            \A i \in job[a].target : spec'[i] = spec[i] /\ version'[i] = version[i]
      BY <3>1 DEF KeepsDeleted
    <3>3. QED
      BY <3>1, <3>2 DEF JobParts, TodoIsRight, Deletes
  <2>3. QED
    BY <2>1, <2>2
<1>5. TodoIsRight'
  BY <1>4 DEF TodoIsRight, PortsOf
<1>6. QED
  BY <1>1, <1>3, <1>5

LEMMA RollbackKeeps ==
  ASSUME JobParts, NEW a \in Activity, stage[a] \in Reconciling, Rollback(a), KeepsDeleted({a}),
         current' \subseteq current \ {a},
         current' = {} \/ marked' = marked
  PROVE  CopyIsStored' /\ DeletesAlone' /\ TodoIsRight'
<1>1. CopyIsStored'
  <2>1. ASSUME NEW b \in current' PROVE copy'[b] = marked'
    BY <2>1, RollbackIs DEF JobParts, CopyIsStored, Typed
  <2>2. ASSUME NEW b \in Activity, copy'[b] # NoCopy PROVE InCall(b)'
    BY <2>2, RollbackIs DEF JobParts, CopyIsStored, InCall
  <2>3. QED
    BY <2>1, <2>2 DEF CopyIsStored
<1>2. DeletesAlone'
  BY RollbackIs DEF JobParts, DeletesAlone, Deletes, Reconciling
<1>3. ASSUME NEW b \in Activity
      PROVE  /\ stage'[b] \in {"rollback", "release"} =>
                  \A u, t \in todo'[b] : u # t => u \cap t = {}
             /\ stage'[b] = "clear" =>
                  \A i \in job'[b].target : PortsOf(spec'[i]) \subseteq UNION todo'[b]
             /\ stage'[b] \in Deletes =>
                  \A u \in todo'[b] : \E i \in job'[b].target :
                    version'[i] > 0 /\ u = PortsOf(spec'[i])
  <2>1. CASE b = a
    BY <2>1, RollbackIs DEF JobParts, Deletes
  <2>2. CASE b # a
    <3>1. stage'[b] = stage[b] /\ job'[b] = job[b] /\ todo'[b] = todo[b]
      BY <2>2, RollbackIs DEF JobParts
    <3>2. stage[b] \in Deletes =>
            \A i \in job[b].target : spec'[i] = spec[i] /\ version'[i] = version[i]
      BY <2>2 DEF KeepsDeleted
    <3>3. QED
      BY <3>1, <3>2 DEF JobParts, TodoIsRight, Deletes
  <2>3. QED
    BY <2>1, <2>2
<1>4. TodoIsRight'
  BY <1>3 DEF TodoIsRight, PortsOf
<1>5. QED
  BY <1>1, <1>2, <1>4

LEMMA FailCallKeeps ==
  ASSUME JobParts, NEW a \in Activity, FailCall(a), UNCHANGED <<marked, spec, version>>
  PROVE  CopyIsStored' /\ DeletesAlone' /\ TodoIsRight'
<1>1. \A s : KeepsDeleted(s)
  BY DEF KeepsDeleted
<1>2. CASE Rollback(a) /\ current' = current \ {a} /\ stage[a] = "allocate"
  BY <1>1, <1>2, RollbackKeeps DEF Reconciling
<1>3. CASE End({a}) /\ current' = current \ {a}
  BY <1>1, <1>3, EndKeeps
<1>4. QED
  BY <1>2, <1>3 DEF FailCall

(* A store leaves alone what is being deleted.                             *)
LEMMA WriteKeeps ==
  ASSUME JobParts, NEW a \in Activity, stage[a] = "store", NEW i \in job[a].target,
         spec' = [spec EXCEPT ![i] = want[a]],
         version' = [version EXCEPT ![i] = @ + 1]
  PROVE  KeepsDeleted({a}) /\ GoneIsUnset'
<1>1. i \in Instance
  BY DEF JobParts, Typed, JobType
<1>2. KeepsDeleted({a})
  <2> SUFFICES ASSUME NEW b \in Activity, b # a, stage[b] \in Deletes, NEW k \in job[b].target
               PROVE  spec'[k] = spec[k] /\ version'[k] = version[k]
    BY DEF KeepsDeleted
  <2>1. k # i /\ k \in Instance
    BY DEF JobParts, DeletesAlone, Typed, JobType
  <2>2. QED
    BY <1>1, <2>1 DEF JobParts, Typed
<1>3. GoneIsUnset'
  <2> SUFFICES ASSUME NEW k \in Instance, version'[k] = 0 PROVE spec'[k] = Unset
    BY DEF GoneIsUnset
  <2>1. version'[i] # 0
    BY <1>1, PortsAssumption DEF JobParts, Typed
  <2>2. QED
    BY <1>1, <2>1 DEF JobParts, Typed, GoneIsUnset
<1>4. QED
  BY <1>2, <1>3
JobRest == CopyIsStored /\ DeletesAlone /\ GoneIsUnset /\ TodoIsRight

LEMMA ReconcileJobs ==
  ASSUME Exclusive, JobParts, NEW a \in Activity, NEW i \in Instance,
         NEW req \in Requests[i], Reconcile(a, i, req)
  PROVE  JobRest'
<1>1. /\ stage[a] = "idle" /\ ~Deleting(i)
      /\ \A b \in Activity : b # a => stage'[b] = stage[b] /\ job'[b] = job[b]
      /\ job'[a].target = {i}
      /\ UNCHANGED <<stored, todo, copy>>
  BY DEF Reconcile, JobParts, Typed
<1>2. stage'[a] \in Reconciling
  BY DEF Reconcile, JobParts, Typed, AfterAllocation, Reconciling
<1>3. CopyIsStored'
  <2>1. ASSUME NEW b \in Activity, copy'[b] # NoCopy PROVE InCall(b)'
    <3>1. InCall(b)
      BY <2>1, <1>1 DEF JobParts, CopyIsStored
    <3>2. b # a
      BY <3>1, <1>1 DEF InCall, Releasing
    <3>3. QED
      BY <1>1, <3>1, <3>2 DEF InCall
  <2>2. QED
    BY <1>1, <2>1 DEF JobParts, CopyIsStored, stored
<1>4. DeletesAlone'
  <2> SUFFICES ASSUME NEW b \in Activity, NEW c \in Activity, b # c, stage'[b] \in Deletes,
                      stage'[c] # "idle"
               PROVE  job'[b].target \cap job'[c].target = {}
    BY DEF DeletesAlone
  <2>1. b # a
    BY <1>2 DEF Deletes, Reconciling
  <2>2. CASE c = a
    BY <1>1, <2>1, <2>2 DEF Deleting, Deletes
  <2>3. CASE c # a
    BY <1>1, <2>1, <2>3 DEF JobParts, DeletesAlone
  <2>4. QED
    BY <2>2, <2>3
<1>5. GoneIsUnset'
  BY <1>1 DEF JobParts, GoneIsUnset, stored
<1>6. TodoIsRight'
  <2>1. \A b \in Activity : stage'[b] \notin Reconciling => b # a
    BY <1>2
  <2>2. \A b \in Activity : stage'[b] \notin Reconciling =>
           stage'[b] = stage[b] /\ job'[b] = job[b] /\ todo'[b] = todo[b]
    BY <1>1, <2>1
  <2>3. spec' = spec /\ version' = version
    BY <1>1 DEF stored
  <2>4. QED
    BY <2>2, <2>3 DEF JobParts, TodoIsRight, Deletes, Reconciling
<1>7. QED
  BY <1>3, <1>4, <1>5, <1>6 DEF JobRest

LEMMA DeleteJobs ==
  ASSUME Exclusive, JobParts, NEW a \in Activity, NEW s \in SUBSET Instance, NEW h \in Host,
         Delete(a, s, h)
  PROVE  JobRest'
<1>1. /\ stage[a] = "idle"
      /\ \A i \in s : ~Touched(i)
      /\ \A b \in Activity : b # a =>
           stage'[b] = stage[b] /\ job'[b] = job[b] /\ todo'[b] = todo[b]
      /\ stage'[a] = "clear" /\ job'[a].target = s
      /\ todo'[a] = {PortsOf(spec[i]) : i \in {j \in s : version[j] > 0}}
      /\ UNCHANGED <<stored, copy>>
  BY DEF Delete, JobParts, Typed
<1>2. CopyIsStored'
  <2>1. ASSUME NEW b \in Activity, copy'[b] # NoCopy PROVE InCall(b)'
    <3>1. InCall(b)
      BY <2>1, <1>1 DEF JobParts, CopyIsStored
    <3>2. b # a
      BY <3>1, <1>1 DEF InCall, Releasing
    <3>3. QED
      BY <1>1, <3>1, <3>2 DEF InCall
  <2>2. QED
    BY <1>1, <2>1 DEF JobParts, CopyIsStored, stored
<1>3. \A c \in Activity : c # a /\ stage[c] # "idle" => s \cap job[c].target = {}
  BY <1>1 DEF Touched
<1>4. DeletesAlone'
  <2> SUFFICES ASSUME NEW b \in Activity, NEW c \in Activity, b # c, stage'[b] \in Deletes,
                      stage'[c] # "idle"
               PROVE  job'[b].target \cap job'[c].target = {}
    BY DEF DeletesAlone
  <2>1. CASE b = a
    BY <1>1, <1>3, <2>1
  <2>2. CASE c = a
    BY <1>1, <1>3, <2>2 DEF Deletes
  <2>3. CASE b # a /\ c # a
    BY <1>1, <2>3 DEF JobParts, DeletesAlone
  <2>4. QED
    BY <2>1, <2>2, <2>3
<1>5. GoneIsUnset'
  BY <1>1 DEF JobParts, GoneIsUnset, stored
<1>6. spec' = spec /\ version' = version
  BY <1>1 DEF stored
<1>7. \A i \in s : PortsOf(spec[i]) \subseteq UNION todo'[a]
  <2> TAKE i \in s
  <2>1. CASE version[i] > 0
    BY <1>1, <2>1
  <2>2. CASE ~(version[i] > 0)
    <3>1. version[i] = 0
      BY <2>2 DEF JobParts, Typed
    <3>2. PortsOf(spec[i]) = {}
      BY <3>1 DEF JobParts, GoneIsUnset, Unset, PortsOf
    <3>3. QED
      BY <3>2
  <2>3. QED
    BY <2>1, <2>2
<1>8. \A u \in todo'[a] : \E i \in s : version[i] > 0 /\ u = PortsOf(spec[i])
  BY <1>1
<1>9. TodoIsRight'
  <2>1. ASSUME NEW b \in Activity
        PROVE  /\ stage'[b] \in {"rollback", "release"} =>
                    \A u, t \in todo'[b] : u # t => u \cap t = {}
               /\ stage'[b] = "clear" =>
                    \A i \in job'[b].target : PortsOf(spec[i]) \subseteq UNION todo'[b]
               /\ stage'[b] \in Deletes =>
                    \A u \in todo'[b] : \E i \in job'[b].target :
                      version[i] > 0 /\ u = PortsOf(spec[i])
    <3>1. CASE b = a
      BY <3>1, <1>1, <1>7, <1>8
    <3>2. CASE b # a
      BY <3>2, <1>1 DEF JobParts, TodoIsRight
    <3>3. QED
      BY <3>1, <3>2
  <2>2. QED
    BY <1>6, <2>1 DEF TodoIsRight
<1>10. QED
  BY <1>2, <1>4, <1>5, <1>9 DEF JobRest

(* What a store makes an activity release are single ports.                *)
LEMMA PreviousDisjoint ==
  ASSUME NEW prev \in Settings, NEW new \in WantType
  PROVE  \A s, t \in PreviousPorts(prev, new) : s # t => s \cap t = {}
<1>1. \A s \in PreviousPorts(prev, new) : s = {prev.port} \/ s = {prev.patroni}
  BY PreviousIs
<1>2. QED
  BY <1>1

LEMMA StoreSpecJobs ==
  ASSUME JobParts, NEW a \in Activity, StoreSpec(a)
  PROVE  JobRest'
<1>1. PICK i \in job[a].target :
       \/ /\ version[i] = job[a].seen
          /\ spec' = [spec EXCEPT ![i] = want[a]]
          /\ version' = [version EXCEPT ![i] = @ + 1]
          /\ \/ /\ stage' = [stage EXCEPT ![a] = "release"]
                /\ todo' = [todo EXCEPT ![a] = PreviousPorts(job[a].prev, want[a])]
                /\ got' = [got EXCEPT ![a] = {}]
                /\ UNCHANGED <<job, want, copy, tries>>
             \/ End({a})
          /\ UNCHANGED current
       \/ /\ Rollback(a)
          /\ UNCHANGED <<current, spec, version>>
  BY DEF StoreSpec
<1>2. stage[a] = "store" /\ marked' = marked
  BY DEF StoreSpec
<1>4. ~InCall(a) /\ a \notin current
  BY <1>2, NotCurrent DEF InCall, Releasing, JobParts
<1>3. CASE Rollback(a) /\ UNCHANGED <<current, spec, version>>
  <2>1. KeepsDeleted({a})
    BY <1>3 DEF KeepsDeleted
  <2>2. GoneIsUnset'
    BY <1>3 DEF JobParts, GoneIsUnset
  <2>3. QED
    BY <1>2, <1>3, <1>4, <2>1, <2>2, RollbackKeeps DEF Reconciling, JobRest
<1>5. ASSUME spec' = [spec EXCEPT ![i] = want[a]],
             version' = [version EXCEPT ![i] = @ + 1]
      PROVE  KeepsDeleted({a}) /\ GoneIsUnset'
  BY <1>2, <1>5, WriteKeeps
<1>6. CASE /\ spec' = [spec EXCEPT ![i] = want[a]]
           /\ version' = [version EXCEPT ![i] = @ + 1]
           /\ End({a})
           /\ UNCHANGED current
  BY <1>2, <1>4, <1>5, <1>6, EndKeeps DEF JobRest
<1>7. CASE /\ spec' = [spec EXCEPT ![i] = want[a]]
           /\ version' = [version EXCEPT ![i] = @ + 1]
           /\ stage' = [stage EXCEPT ![a] = "release"]
           /\ todo' = [todo EXCEPT ![a] = PreviousPorts(job[a].prev, want[a])]
           /\ UNCHANGED <<job, want, copy, tries>>
           /\ UNCHANGED current
  <2>1. /\ stage'[a] = "release" /\ todo'[a] = PreviousPorts(job[a].prev, want[a])
        /\ \A b \in Activity : b # a => stage'[b] = stage[b] /\ todo'[b] = todo[b]
        /\ job' = job /\ copy' = copy
    BY <1>7 DEF JobParts, Typed
  <2>2. CopyIsStored'
    <3>1. ASSUME NEW b \in Activity, copy'[b] # NoCopy PROVE InCall(b)'
      <4>1. InCall(b)
        BY <3>1, <1>7 DEF JobParts, CopyIsStored
      <4>2. b # a
        BY <4>1, <1>4
      <4>3. QED
        BY <2>1, <4>1, <4>2 DEF InCall
    <3>2. QED
      BY <1>2, <1>7, <3>1 DEF JobParts, CopyIsStored
  <2>3. DeletesAlone'
    BY <1>2, <2>1 DEF JobParts, DeletesAlone, Deletes
  <2>4. \A s, t \in PreviousPorts(job[a].prev, want[a]) : s # t => s \cap t = {}
    BY PreviousDisjoint DEF JobParts, Typed, JobType
  <2>5. ASSUME NEW b \in Activity
        PROVE  /\ stage'[b] \in {"rollback", "release"} =>
                    \A u, t \in todo'[b] : u # t => u \cap t = {}
               /\ stage'[b] = "clear" =>
                    \A k \in job'[b].target : PortsOf(spec'[k]) \subseteq UNION todo'[b]
               /\ stage'[b] \in Deletes =>
                    \A u \in todo'[b] : \E k \in job'[b].target :
                      version'[k] > 0 /\ u = PortsOf(spec'[k])
    <3>1. CASE b = a
      BY <3>1, <2>1, <2>4 DEF Deletes
    <3>2. CASE b # a
      <4>1. stage'[b] = stage[b] /\ job'[b] = job[b] /\ todo'[b] = todo[b]
        BY <3>2, <2>1
      <4>2. stage[b] \in Deletes =>
              \A k \in job[b].target : spec'[k] = spec[k] /\ version'[k] = version[k]
        BY <3>2, <1>5, <1>7 DEF KeepsDeleted
      <4>3. QED
        BY <4>1, <4>2 DEF JobParts, TodoIsRight, Deletes
    <3>3. QED
      BY <3>1, <3>2
  <2>6. TodoIsRight'
    BY <2>5 DEF TodoIsRight, PortsOf
  <2>7. QED
    BY <1>5, <1>7, <2>2, <2>3, <2>6 DEF JobRest
<1>8. QED
  BY <1>1, <1>3, <1>6, <1>7
LEMMA DeleteSpecsJobs ==
  ASSUME JobParts, NEW a \in Activity, DeleteSpecs(a)
  PROVE  JobRest'
<1>1. /\ stage[a] = "delete" /\ todo[a] = {}
      /\ End({a})
      /\ UNCHANGED <<marked, current>>
  BY DEF DeleteSpecs
<1>2. a \notin current
  BY <1>1, NotCurrent DEF InCall, JobParts
<1>3. \A i \in Instance :
        IF i \in job[a].target THEN spec'[i] = Unset /\ version'[i] = 0
                               ELSE spec'[i] = spec[i] /\ version'[i] = version[i]
  BY DEF DeleteSpecs
<1>4. KeepsDeleted({a})
  <2> SUFFICES ASSUME NEW b \in Activity, b # a, stage[b] \in Deletes, NEW k \in job[b].target
               PROVE  spec'[k] = spec[k] /\ version'[k] = version[k]
    BY DEF KeepsDeleted
  <2>1. k \notin job[a].target
    BY <1>1 DEF JobParts, DeletesAlone, Deletes
  <2>2. k \in Instance
    BY DEF JobParts, Typed, JobType
  <2>3. QED
    BY <1>3, <2>1, <2>2
<1>5. GoneIsUnset'
  BY <1>3 DEF JobParts, GoneIsUnset
<1>6. QED
  BY <1>1, <1>2, <1>4, <1>5, EndKeeps DEF JobRest

LEMMA RestoreJobs ==
  ASSUME JobParts, NEW a \in Activity, RestoreAllocator(a)
  PROVE  JobRest'
<1>1. /\ InCall(a)
      /\ copy'[a] = marked
      /\ \A b \in Activity : b # a => copy'[b] = copy[b]
      /\ current' = current \cup {a}
      /\ UNCHANGED <<marked, spec, version, stage, job, todo>>
  BY DEF RestoreAllocator, JobParts, Typed
<1>2. CopyIsStored'
  <2>1. \A b \in current' : copy'[b] = marked'
    BY <1>1 DEF JobParts, CopyIsStored, Typed
  <2>2. \A b \in Activity : copy'[b] # NoCopy => InCall(b)
    BY <1>1 DEF JobParts, CopyIsStored
  <2>3. QED
    BY <1>1, <2>1, <2>2 DEF CopyIsStored, InCall
<1>3. DeletesAlone' /\ GoneIsUnset' /\ TodoIsRight'
  BY <1>1 DEF JobParts, DeletesAlone, GoneIsUnset, TodoIsRight
<1>4. QED
  BY <1>2, <1>3 DEF JobRest

LEMMA AllocateJobs ==
  ASSUME JobParts, NEW a \in Activity, AllocatePort(a)
  PROVE  JobRest'
<1>1. /\ stage[a] = "allocate"
      /\ current' = {}
      /\ UNCHANGED <<spec, version, job, todo>>
  BY DEF AllocatePort, Update
<1>2. /\ copy'[a] = NoCopy
      /\ \A b \in Activity : b # a => copy'[b] = copy[b] /\ stage'[b] = stage[b]
  BY DEF AllocatePort, LeaveCall, JobParts, Typed
<1>3. stage'[a] \in Reconciling
  BY DEF AllocatePort, AfterAllocation, Reconciling, JobParts, Typed
<1>4. CopyIsStored'
  BY <1>1, <1>2 DEF JobParts, CopyIsStored, InCall
<1>5. \A b \in Activity : stage'[b] \notin Reconciling => b # a /\ stage'[b] = stage[b]
  BY <1>2, <1>3
<1>6. DeletesAlone'
  <2>1. \A b \in Activity : stage'[b] # "idle" => stage[b] # "idle"
    BY <1>1, <1>2
  <2>2. \A b \in Activity : stage'[b] \in Deletes => stage[b] \in Deletes
    BY <1>5 DEF Deletes, Reconciling
  <2>3. QED
    BY <1>1, <2>1, <2>2 DEF JobParts, DeletesAlone
<1>7. GoneIsUnset' /\ TodoIsRight'
  BY <1>1, <1>5 DEF JobParts, GoneIsUnset, TodoIsRight, Deletes, Reconciling
<1>8. QED
  BY <1>4, <1>6, <1>7 DEF JobRest

LEMMA ReleaseJobs ==
  ASSUME JobParts, NEW a \in Activity, ReleasePort(a)
  PROVE  JobRest'
<1>1. PICK ports \in todo[a] :
        /\ Update(a, copy[a] \ ports)
        /\ \/ /\ todo' = [todo EXCEPT ![a] = todo[a] \ {ports}]
              /\ stage' = [stage EXCEPT ![a] = IF stage[a] = "clear" THEN "delete" ELSE stage[a]]
              /\ LeaveCall({a})
              /\ UNCHANGED <<job, want, got>>
           \/ End({a})
  BY DEF ReleasePort
<1>2. /\ stage[a] \in Releasing
      /\ current' = {}
      /\ UNCHANGED <<spec, version>>
  BY <1>1 DEF ReleasePort, Update
<1>3. GoneIsUnset'
  BY <1>2 DEF JobParts, GoneIsUnset
<1>4. CASE End({a})
  <2>1. KeepsDeleted({a})
    BY <1>2 DEF KeepsDeleted
  <2>2. QED
    BY <1>2, <1>3, <1>4, <2>1, EndKeeps DEF JobRest
<1>5. CASE /\ todo' = [todo EXCEPT ![a] = todo[a] \ {ports}]
           /\ stage' = [stage EXCEPT ![a] = IF stage[a] = "clear" THEN "delete" ELSE stage[a]]
           /\ LeaveCall({a})
           /\ UNCHANGED <<job, want, got>>
  <2>1. /\ todo'[a] = todo[a] \ {ports} /\ copy'[a] = NoCopy
        /\ stage'[a] = IF stage[a] = "clear" THEN "delete" ELSE stage[a]
        /\ \A b \in Activity : b # a =>
             stage'[b] = stage[b] /\ todo'[b] = todo[b] /\ copy'[b] = copy[b]
        /\ job' = job
    BY <1>5 DEF LeaveCall, JobParts, Typed
  <2>2. CopyIsStored'
    BY <1>2, <2>1 DEF JobParts, CopyIsStored, InCall
  <2>3. DeletesAlone'
    <3>1. \A b \in Activity : /\ stage'[b] # "idle" => stage[b] # "idle"
                              /\ stage'[b] \in Deletes => stage[b] \in Deletes
      BY <1>2, <2>1 DEF Deletes, Releasing
    <3>2. QED
      BY <2>1, <3>1 DEF JobParts, DeletesAlone
  <2>4. ASSUME NEW b \in Activity
        PROVE  /\ stage'[b] \in {"rollback", "release"} =>
                    \A u, t \in todo'[b] : u # t => u \cap t = {}
               /\ stage'[b] = "clear" =>
                    \A k \in job'[b].target : PortsOf(spec[k]) \subseteq UNION todo'[b]
               /\ stage'[b] \in Deletes =>
                    \A u \in todo'[b] : \E k \in job'[b].target :
                      version[k] > 0 /\ u = PortsOf(spec[k])
    <3>1. CASE b = a
      BY <3>1, <2>1 DEF JobParts, TodoIsRight, Deletes
    <3>2. CASE b # a
      BY <3>2, <2>1 DEF JobParts, TodoIsRight
    <3>3. QED
      BY <3>1, <3>2
  <2>5. TodoIsRight'
    BY <1>2, <2>4 DEF TodoIsRight
  <2>6. QED
    BY <1>3, <2>2, <2>3, <2>5 DEF JobRest
<1>6. QED
  BY <1>1, <1>4, <1>5

LEMMA ConflictJobs ==
  ASSUME JobParts, NEW a \in Activity, Conflict(a)
  PROVE  JobRest'
<1>1. UNCHANGED <<marked, spec, version>> /\ a \notin current
  BY DEF Conflict
<1>2. GoneIsUnset'
  BY <1>1 DEF JobParts, GoneIsUnset
<1>3. CASE FailCall(a)
  BY <1>1, <1>2, <1>3, FailCallKeeps DEF JobRest
<1>4. CASE /\ copy' = [copy EXCEPT ![a] = NoCopy]
           /\ UNCHANGED <<current, stage, job, want, got, todo, lost, spoiled>>
  <2>1. CopyIsStored'
    BY <1>1, <1>4 DEF JobParts, Typed, CopyIsStored, InCall
  <2>2. DeletesAlone' /\ TodoIsRight'
    BY <1>1, <1>4 DEF JobParts, DeletesAlone, TodoIsRight
  <2>3. QED
    BY <1>2, <2>1, <2>2 DEF JobRest
<1>5. QED
  BY <1>3, <1>4 DEF Conflict

LEMMA StoreFailsJobs ==
  ASSUME JobParts, NEW a \in Activity, StoreFails(a)
  PROVE  JobRest'
<1>0. stage[a] = "store" => a \notin current
  BY NotCurrent DEF InCall, Releasing, JobParts
<1>1. marked' = marked
  BY DEF StoreFails
<1>2. ASSUME UNCHANGED <<spec, version>>
      PROVE  (\A s : KeepsDeleted(s)) /\ GoneIsUnset'
  BY <1>2 DEF KeepsDeleted, JobParts, GoneIsUnset
<1>3. CASE FailCall(a) /\ UNCHANGED <<spec, version>>
  BY <1>1, <1>2, <1>3, FailCallKeeps DEF JobRest
<1>4. CASE stage[a] = "store" /\ Rollback(a) /\ UNCHANGED <<current, spec, version>>
  BY <1>0, <1>1, <1>2, <1>4, RollbackKeeps DEF JobRest, Reconciling
<1>5. CASE /\ stage[a] = "store"
           /\ \E i \in job[a].target :
                /\ version[i] = job[a].seen
                /\ spec' = [spec EXCEPT ![i] = want[a]]
                /\ version' = [version EXCEPT ![i] = @ + 1]
           /\ Rollback(a) /\ UNCHANGED current
  BY <1>0, <1>1, <1>5, WriteKeeps, RollbackKeeps DEF JobRest, Reconciling
<1>6. CASE /\ stage[a] = "delete" /\ todo[a] = {}
           /\ End({a})
           /\ UNCHANGED <<current, spec, version>>
  <2>1. a \notin current
    BY <1>6, NotCurrent DEF InCall, JobParts
  <2>2. QED
    BY <1>1, <1>2, <1>6, <2>1, EndKeeps DEF JobRest
<1>7. QED
  BY <1>3, <1>4, <1>5, <1>6 DEF StoreFails

LEMMA AnswerLostJobs ==
  ASSUME JobParts, NEW a \in Activity, AnswerLost(a)
  PROVE  JobRest'
<1>1. /\ current' = {} /\ UNCHANGED <<spec, version>>
      /\ End({a}) \/ (stage[a] = "allocate" /\ Rollback(a))
  BY DEF AnswerLost, Update
<1>2. KeepsDeleted({a}) /\ GoneIsUnset'
  BY <1>1 DEF KeepsDeleted, JobParts, GoneIsUnset
<1>3. CASE End({a})
  BY <1>1, <1>2, <1>3, EndKeeps DEF JobRest
<1>4. CASE stage[a] = "allocate" /\ Rollback(a)
  BY <1>1, <1>2, <1>4, RollbackKeeps DEF JobRest, Reconciling
<1>5. QED
  BY <1>1, <1>3, <1>4

LEMMA CrashJobs ==
  ASSUME JobParts, NEW h \in Host, Crash(h)
  PROVE  JobRest'
<1> DEFINE running == {a \in Activity : stage[a] # "idle" /\ job[a].host = h}
<1>1. /\ End(running)
      /\ current' = current \ running
      /\ UNCHANGED <<marked, spec, version>>
  BY DEF Crash
<1>2. KeepsDeleted(running) /\ GoneIsUnset'
  BY <1>1 DEF KeepsDeleted, JobParts, GoneIsUnset
<1> HIDE DEF running
<1>3. QED
  BY <1>1, <1>2, EndKeeps DEF JobRest
LEMMA JobInit == Init => JobRest
BY NoCopyIsNone DEF Init, JobRest, CopyIsStored, DeletesAlone, GoneIsUnset, TodoIsRight, Deletes

----------------------------------------------------------------------------
(* How claims are handed on.                                               *)

ClaimParts == OneClaim /\ ClaimedIsMarked /\ MarkedIsClaimed

LEMMA InHandNext ==
  ASSUME NEW a \in Activity
  PROVE  /\ stage'[a] \in Reconciling => InHand(a)' = got'[a]
         /\ stage'[a] \in {"rollback", "release"} => InHand(a)' = UNION todo'[a]
         /\ stage'[a] \notin Reconciling \cup {"rollback", "release"} => InHand(a)' = {}
BY DEF InHand, Reconciling

LEMMA SameInHand ==
  ASSUME NEW a \in Activity, stage'[a] = stage[a], got'[a] = got[a], todo'[a] = todo[a]
  PROVE  InHand(a)' = InHand(a)
BY DEF InHand

(* Claims of a specification stay as they are when no deletion moves.      *)
LEMMA SameClaims ==
  ASSUME NEW i \in Instance, NEW p, spec'[i] = spec[i], version'[i] = version[i],
         \A a \in Activity :
           /\ stage'[a] = "delete" <=> stage[a] = "delete"
           /\ stage[a] = "delete" => job'[a] = job[a] /\ todo'[a] = todo[a]
  PROVE  Claims(i, p)' <=> Claims(i, p)
BY DEF Claims, PortsOf

(* Nobody gets a claim, and the ports are marked that were, but for what   *)
(* the histories name.                                                     *)
LEMMA Undisturbed ==
  ASSUME ClaimParts, UNCHANGED spec, spoiled \subseteq spoiled', lost \subseteq lost',
         \A i \in Instance, p \in AnyPort \ spoiled' : Claims(i, p)' => Claims(i, p),
         \A i \in Instance, p \in AnyPort : Claims(i, p) => Claims(i, p)',
         \A a \in Activity : InHand(a)' \subseteq InHand(a),
         \A a \in Activity : InHand(a) \subseteq InHand(a)' \cup lost',
         marked \subseteq AnyPort,
         marked' \subseteq marked \cup Busy \cup lost', marked \subseteq marked' \cup spoiled'
  PROVE  ClaimParts'
<1> DEFINE InHandNow(a) == InHand(a)'
           ClaimsNow(i, p) == Claims(i, p)'
<1>1. Drawn \ spoiled' \subseteq (AnyPort \ spoiled') \cap (Drawn \ spoiled)
  BY DEF AnyPort, Drawn
<1>2. \A p \in Drawn \ spoiled', i \in Instance : ClaimsNow(i, p) => Claims(i, p)
  BY <1>1
<1>3. \A a \in Activity : InHandNow(a) \subseteq InHand(a) /\ InHand(a) \subseteq InHandNow(a) \cup lost'
  OBVIOUS
<1>4. \A i \in Instance, p \in AnyPort : Claims(i, p) => ClaimsNow(i, p)
  OBVIOUS
<1> HIDE DEF InHandNow, ClaimsNow
<1>5. \A p \in Drawn \ spoiled' :
        /\ \A i, j \in Instance : ClaimsNow(i, p) /\ ClaimsNow(j, p) => i = j
        /\ \A i \in Instance : ClaimsNow(i, p) => ~(spec'[i].port = p /\ spec'[i].patroni = p)
        /\ \A i \in Instance, a \in Activity : ClaimsNow(i, p) => p \notin InHandNow(a)
        /\ \A a, b \in Activity : p \in InHandNow(a) /\ p \in InHandNow(b) => a = b
  BY <1>1, <1>2, <1>3 DEF ClaimParts, OneClaim
<1>6. \A p \in Drawn \ spoiled' :
        /\ \A i \in Instance : ClaimsNow(i, p) => p \in marked'
        /\ \A a \in Activity : p \in InHandNow(a) => p \in marked'
  BY <1>1, <1>2, <1>3 DEF ClaimParts, ClaimedIsMarked
<1>7. \A p \in marked' : \/ p \in Busy \cup lost'
                         \/ \E i \in Instance : ClaimsNow(i, p)
                         \/ \E a \in Activity : p \in InHandNow(a)
  BY <1>3, <1>4 DEF ClaimParts, MarkedIsClaimed
<1> USE DEF InHandNow, ClaimsNow
<1>8. OneClaim'
  BY <1>5 DEF OneClaim
<1>9. ClaimedIsMarked'
  BY <1>6 DEF ClaimedIsMarked
<1>10. MarkedIsClaimed'
  BY <1>7 DEF MarkedIsClaimed
<1>11. QED
  BY <1>8, <1>9, <1>10 DEF ClaimParts
(* Activities that end leave to the histories what they had in hand, and   *)
(* what their deletions had released.                                      *)
LEMMA EndClaims ==
  ASSUME JobParts, ClaimParts, NEW s, End(s), UNCHANGED <<spec, version>>,
         spoiled \subseteq spoiled', lost \subseteq lost',
         marked' \subseteq marked \cup Busy \cup lost', marked \subseteq marked' \cup spoiled',
         \A a \in Activity : a \in s => InHand(a) \subseteq lost' /\ Spoils(a) \subseteq spoiled'
  PROVE  ClaimParts'
<1>1. \A a \in Activity : a \in s => InHand(a)' = {}
  BY EndIs, InHandNext DEF JobParts, Reconciling
<1>2. \A a \in Activity : a \notin s => InHand(a)' = InHand(a)
  BY EndIs, SameInHand DEF JobParts
<1>3. ASSUME NEW i \in Instance, NEW p \in AnyPort, Claims(i, p)
      PROVE  Claims(i, p)'
  <2>1. version'[i] > 0 /\ p \in PortsOf(spec'[i])
    BY <1>3 DEF Claims
  <2>2. ASSUME NEW a \in Activity, stage'[a] = "delete", i \in job'[a].target
        PROVE  p \in UNION todo'[a]
    BY <1>3, <2>2, EndIs DEF Claims, JobParts
  <2>3. QED
    BY <2>1, <2>2 DEF Claims, PortsOf
<1>4. ASSUME NEW i \in Instance, NEW p \in AnyPort \ spoiled', Claims(i, p)'
      PROVE  Claims(i, p)
  <2>1. version[i] > 0 /\ p \in PortsOf(spec[i])
    BY <1>4 DEF Claims, PortsOf
  <2>2. ASSUME NEW a \in Activity, stage[a] = "delete", i \in job[a].target
        PROVE  p \in UNION todo[a]
    <3>1. CASE a \in s
      <4>1. p \notin Spoils(a)
        BY <3>1
      <4>2. PortsOf(spec[i]) \in {PortsOf(spec[k]) : k \in job[a].target}
        BY <2>2
      <4>3. p \in UNION {PortsOf(spec[k]) : k \in job[a].target}
        BY <2>1, <4>2
      <4>4. Spoils(a) = (UNION {PortsOf(spec[k]) : k \in job[a].target}) \ (UNION todo[a])
        BY <2>2, Zenon DEF Spoils
      <4>5. QED
        BY <4>1, <4>3, <4>4
    <3>2. CASE a \notin s
      BY <1>4, <2>2, <3>2, EndIs DEF Claims, JobParts
    <3>3. QED
      BY <3>1, <3>2
  <2>3. QED
    BY <2>1, <2>2 DEF Claims
<1>5. marked \subseteq AnyPort
  BY DEF JobParts, Typed
<1>6. \A a \in Activity : InHand(a)' \subseteq InHand(a) /\ InHand(a) \subseteq InHand(a)' \cup lost'
  BY <1>1, <1>2
<1>7. QED
  BY <1>3, <1>4, <1>5, <1>6, Undisturbed

LEMMA RollbackClaims ==
  ASSUME JobParts, ClaimParts, NEW a \in Activity, Rollback(a), stage[a] \in Reconciling,
         UNCHANGED <<spec, version, spoiled>>, lost \subseteq lost',
         marked' \subseteq marked \cup Busy \cup lost', marked \subseteq marked'
  PROVE  ClaimParts'
<1>1. InHand(a)' = InHand(a)
  <2>1. InHand(a) = got[a]
    BY InHandIs
  <2>2. InHand(a)' = UNION {got[a]}
    BY RollbackIs, InHandNext DEF JobParts
  <2>3. QED
    BY <2>1, <2>2
<1>2. \A b \in Activity : b # a => InHand(b)' = InHand(b)
  BY RollbackIs, SameInHand DEF JobParts
<1>3. \A b \in Activity : /\ stage'[b] = "delete" <=> stage[b] = "delete"
                          /\ stage[b] = "delete" => job'[b] = job[b] /\ todo'[b] = todo[b]
  BY RollbackIs DEF JobParts, Reconciling
<1>4. \A i \in Instance, p \in AnyPort : Claims(i, p)' <=> Claims(i, p)
  BY <1>3, SameClaims
<1>5. marked \subseteq AnyPort
  BY DEF JobParts, Typed
<1>6. QED
  BY <1>1, <1>2, <1>4, <1>5, Undisturbed

LEMMA FailCallClaims ==
  ASSUME JobParts, ClaimParts, NEW a \in Activity, FailCall(a), UNCHANGED <<marked, spec, version>>
  PROVE  ClaimParts'
<1>1. CASE stage[a] = "allocate" /\ Rollback(a) /\ UNCHANGED <<lost, spoiled>>
  BY <1>1, RollbackClaims DEF Reconciling
<1>2. CASE /\ End({a})
           /\ lost' = lost \cup InHand(a)
           /\ spoiled' = spoiled \cup Spoils(a)
  BY <1>2, EndClaims
<1>3. QED
  BY <1>1, <1>2 DEF FailCall

(* A step that changes neither the records nor what is in hand.            *)
LEMMA QuietClaims ==
  ASSUME JobParts, ClaimParts, UNCHANGED <<marked, spec, version, lost, spoiled>>,
         \A b \in Activity :
           /\ InHand(b)' = InHand(b)
           /\ stage'[b] = "delete" <=> stage[b] = "delete"
           /\ stage[b] = "delete" => job'[b] = job[b] /\ todo'[b] = todo[b]
  PROVE  ClaimParts'
<1>1. \A i \in Instance, p \in AnyPort : Claims(i, p)' <=> Claims(i, p)
  BY SameClaims
<1>2. marked \subseteq AnyPort
  BY DEF JobParts, Typed
<1>3. QED
  BY <1>1, <1>2, Undisturbed

LEMMA ReconcileClaims ==
  ASSUME JobParts, IdleHasNone, ClaimParts, NEW a \in Activity, NEW i \in Instance,
         NEW req \in Requests[i], Reconcile(a, i, req)
  PROVE  ClaimParts'
<1>1. /\ stage[a] = "idle" /\ got[a] = {}
      /\ \A b \in Activity : b # a => stage'[b] = stage[b] /\ job'[b] = job[b]
      /\ UNCHANGED <<stored, got, todo, lost, spoiled>>
  BY DEF Reconcile, JobParts, Typed, IdleHasNone
<1>2. stage'[a] \in Reconciling
  BY DEF Reconcile, JobParts, Typed, AfterAllocation, Reconciling
<1>3. InHand(a)' = InHand(a)
  BY <1>1, <1>2, InHandIs, InHandNext DEF Reconciling
<1>4. \A b \in Activity : b # a => InHand(b)' = InHand(b)
  BY <1>1, SameInHand
<1>5. \A b \in Activity : /\ stage'[b] = "delete" <=> stage[b] = "delete"
                          /\ stage[b] = "delete" => job'[b] = job[b] /\ todo'[b] = todo[b]
  BY <1>1, <1>2 DEF Reconciling
<1>6. QED
  BY <1>1, <1>3, <1>4, <1>5, QuietClaims DEF stored

LEMMA DeleteClaims ==
  ASSUME JobParts, ClaimParts, NEW a \in Activity, NEW s \in SUBSET Instance, NEW h \in Host,
         Delete(a, s, h)
  PROVE  ClaimParts'
<1>1. /\ stage[a] = "idle" /\ stage'[a] = "clear"
      /\ \A b \in Activity : b # a =>
           stage'[b] = stage[b] /\ job'[b] = job[b] /\ todo'[b] = todo[b]
      /\ UNCHANGED <<stored, got, lost, spoiled>>
  BY DEF Delete, JobParts, Typed
<1>2. InHand(a)' = InHand(a)
  BY <1>1, InHandIs, InHandNext DEF Reconciling
<1>3. \A b \in Activity : b # a => InHand(b)' = InHand(b)
  BY <1>1, SameInHand
<1>4. \A b \in Activity : /\ stage'[b] = "delete" <=> stage[b] = "delete"
                          /\ stage[b] = "delete" => job'[b] = job[b] /\ todo'[b] = todo[b]
  BY <1>1
<1>5. QED
  BY <1>1, <1>2, <1>3, <1>4, QuietClaims DEF stored

LEMMA StillClaims ==
  ASSUME JobParts, ClaimParts,
         UNCHANGED <<marked, spec, version, stage, job, got, todo, lost, spoiled>>
  PROVE  ClaimParts'
<1>1. \A b \in Activity : InHand(b)' = InHand(b)
  BY SameInHand
<1>2. QED
  BY <1>1, QuietClaims

LEMMA DeleteSpecsClaims ==
  ASSUME JobParts, ClaimParts, NEW a \in Activity, DeleteSpecs(a)
  PROVE  ClaimParts'
<1>1. /\ stage[a] = "delete" /\ todo[a] = {}
      /\ End({a})
      /\ UNCHANGED <<marked, lost, spoiled>>
      /\ \A i \in Instance :
           IF i \in job[a].target THEN version'[i] = 0
                                  ELSE spec'[i] = spec[i] /\ version'[i] = version[i]
  BY DEF DeleteSpecs
<1>2. \A b \in Activity : InHand(b)' = InHand(b)
  <2>1. InHand(a)' = {} /\ InHand(a) = {}
    BY <1>1, EndIs, InHandIs, InHandNext DEF JobParts, Reconciling
  <2>2. \A b \in Activity : b # a => InHand(b)' = InHand(b)
    BY <1>1, EndIs, SameInHand DEF JobParts
  <2>3. QED
    BY <2>1, <2>2
<1>3. \A i \in Instance, p \in AnyPort : i \in job[a].target => ~Claims(i, p) /\ ~Claims(i, p)'
  BY <1>1 DEF Claims
<1>4. ASSUME NEW i \in Instance, NEW p \in AnyPort, i \notin job[a].target
      PROVE  Claims(i, p)' <=> Claims(i, p)
  <2>1. spec'[i] = spec[i] /\ version'[i] = version[i]
    BY <1>1, <1>4
  <2>2. \A b \in Activity : b # a =>
          stage'[b] = stage[b] /\ job'[b] = job[b] /\ todo'[b] = todo[b]
    BY <1>1, EndIs DEF JobParts
  <2>3. stage'[a] = "idle"
    BY <1>1, EndIs DEF JobParts
  <2>4. (\A b \in Activity : stage'[b] = "delete" /\ i \in job'[b].target => p \in UNION todo'[b])
         <=> (\A b \in Activity : stage[b] = "delete" /\ i \in job[b].target => p \in UNION todo[b])
    BY <1>4, <2>2, <2>3
  <2>5. QED
    BY <2>1, <2>4 DEF Claims, PortsOf
<1> DEFINE InHandNow(b) == InHand(b)'
           ClaimsNow(i, p) == Claims(i, p)'
<1>5. \A i \in Instance, p \in AnyPort : ClaimsNow(i, p) <=> Claims(i, p)
  BY <1>3, <1>4
<1>6. \A b \in Activity : InHandNow(b) = InHand(b)
  BY <1>2
<1>7. \A i \in Instance, p \in AnyPort : ClaimsNow(i, p) => spec'[i] = spec[i]
  BY <1>1, <1>3
<1> HIDE DEF InHandNow, ClaimsNow
<1>8. Drawn \subseteq AnyPort /\ marked \subseteq AnyPort
  BY DEF AnyPort, Drawn, JobParts, Typed
<1>9. \A p \in Drawn \ spoiled' :
        /\ \A i, j \in Instance : ClaimsNow(i, p) /\ ClaimsNow(j, p) => i = j
        /\ \A i \in Instance : ClaimsNow(i, p) => ~(spec'[i].port = p /\ spec'[i].patroni = p)
        /\ \A i \in Instance, b \in Activity : ClaimsNow(i, p) => p \notin InHandNow(b)
        /\ \A b, c \in Activity : p \in InHandNow(b) /\ p \in InHandNow(c) => b = c
  BY <1>1, <1>5, <1>6, <1>7, <1>8 DEF ClaimParts, OneClaim
<1>10. \A p \in Drawn \ spoiled' :
        /\ \A i \in Instance : ClaimsNow(i, p) => p \in marked'
        /\ \A b \in Activity : p \in InHandNow(b) => p \in marked'
  BY <1>1, <1>5, <1>6, <1>8 DEF ClaimParts, ClaimedIsMarked
<1>11. \A p \in marked' : \/ p \in Busy \cup lost'
                          \/ \E i \in Instance : ClaimsNow(i, p)
                          \/ \E b \in Activity : p \in InHandNow(b)
  BY <1>1, <1>5, <1>6, <1>8 DEF ClaimParts, MarkedIsClaimed
<1> USE DEF InHandNow, ClaimsNow
<1>12. OneClaim' /\ ClaimedIsMarked' /\ MarkedIsClaimed'
  BY <1>9, <1>10, <1>11 DEF OneClaim, ClaimedIsMarked, MarkedIsClaimed
<1>13. QED
  BY <1>12 DEF ClaimParts
(* The parts of ClaimParts', from facts about claims that are hidden.      *)
LEMMA ClaimPartsNext ==
  ASSUME \A p \in Drawn \ spoiled' :
           /\ \A i, j \in Instance : Claims(i, p)' /\ Claims(j, p)' => i = j
           /\ \A i \in Instance : Claims(i, p)' => ~(spec'[i].port = p /\ spec'[i].patroni = p)
           /\ \A i \in Instance, a \in Activity : Claims(i, p)' => p \notin InHand(a)'
           /\ \A a, b \in Activity : p \in InHand(a)' /\ p \in InHand(b)' => a = b
           /\ \A i \in Instance : Claims(i, p)' => p \in marked'
           /\ \A a \in Activity : p \in InHand(a)' => p \in marked',
         \A p \in marked' : \/ p \in Busy \cup lost'
                            \/ \E i \in Instance : Claims(i, p)'
                            \/ \E a \in Activity : p \in InHand(a)'
  PROVE  ClaimParts'
<1>1. OneClaim'
  BY DEF OneClaim
<1>2. ClaimedIsMarked' /\ MarkedIsClaimed'
  BY DEF ClaimedIsMarked, MarkedIsClaimed
<1>3. QED
  BY <1>1, <1>2 DEF ClaimParts

(* What is allocated had no claim, because it was not marked.              *)
LEMMA AllocateClaims ==
  ASSUME JobParts, ClaimParts, NEW a \in Activity, AllocatePort(a)
  PROVE  ClaimParts'
<1>1. PICK p \in (Range \ copy[a]) \ Busy, skipped \in SUBSET ((Range \cap Busy) \ copy[a]) :
           /\ Update(a, copy[a] \cup skipped \cup {p})
           /\ got' = [got EXCEPT ![a] = got[a] \cup {p}]
           /\ stage' = [stage EXCEPT ![a] = AfterAllocation(Assigned(want[a], p))]
  BY AllocateIs DEF JobParts
<1>2. /\ stage[a] = "allocate"
      /\ UNCHANGED <<spec, version, job, todo, lost, spoiled>>
  BY DEF AllocatePort
<1>3. copy[a] = marked /\ marked' = marked \cup skipped \cup {p}
  BY <1>1 DEF Update, JobParts, CopyIsStored
<1>4. stage'[a] \in Reconciling
  BY <1>1 DEF AfterAllocation, Reconciling, JobParts, Typed
<1>5. InHand(a) = got[a] /\ InHand(a)' = got[a] \cup {p}
  BY <1>1, <1>2, <1>4, InHandIs, InHandNext DEF Reconciling, JobParts, Typed
<1>6. \A b \in Activity : b # a =>
        stage'[b] = stage[b] /\ got'[b] = got[b] /\ todo'[b] = todo[b]
  BY <1>1, <1>2 DEF JobParts, Typed
<1>7. \A b \in Activity : b # a => InHand(b)' = InHand(b)
  BY <1>6, SameInHand
<1>8. \A b \in Activity : /\ stage'[b] = "delete" <=> stage[b] = "delete"
                          /\ stage[b] = "delete" => job'[b] = job[b] /\ todo'[b] = todo[b]
  BY <1>2, <1>4, <1>6 DEF Reconciling
<1>9. \A i \in Instance, q \in AnyPort : Claims(i, q)' <=> Claims(i, q)
  BY <1>2, <1>8, SameClaims
<1> DEFINE InHandNow(b) == InHand(b)'
           ClaimsNow(i, q) == Claims(i, q)'
<1>10. \A i \in Instance, q \in AnyPort : ClaimsNow(i, q) <=> Claims(i, q)
  BY <1>9
<1>11. \A b \in Activity : InHandNow(b) = IF b = a THEN InHand(a) \cup {p} ELSE InHand(b)
  BY <1>5, <1>7
<1> HIDE DEF InHandNow, ClaimsNow
<1>12. Drawn \subseteq AnyPort /\ marked \subseteq AnyPort
  BY DEF AnyPort, Drawn, JobParts, Typed
<1>13. p \in Range \ marked
  BY <1>1, <1>3
<1>14. p \in Drawn \ spoiled => /\ \A i \in Instance : ~Claims(i, p)
                                /\ \A b \in Activity : p \notin InHand(b)
  BY <1>13 DEF ClaimParts, ClaimedIsMarked
<1>15. ASSUME NEW q \in Drawn \ spoiled'
       PROVE  /\ \A i, j \in Instance : ClaimsNow(i, q) /\ ClaimsNow(j, q) => i = j
              /\ \A i \in Instance : ClaimsNow(i, q) => ~(spec'[i].port = q /\ spec'[i].patroni = q)
              /\ \A i \in Instance, b \in Activity : ClaimsNow(i, q) => q \notin InHandNow(b)
              /\ \A b, c \in Activity : q \in InHandNow(b) /\ q \in InHandNow(c) => b = c
              /\ \A i \in Instance : ClaimsNow(i, q) => q \in marked'
              /\ \A b \in Activity : q \in InHandNow(b) => q \in marked'
  <2>1. q \in Drawn \ spoiled /\ q \in AnyPort
    BY <1>2, <1>12
  <2>2. /\ \A i, j \in Instance : Claims(i, q) /\ Claims(j, q) => i = j
        /\ \A i \in Instance : Claims(i, q) => ~(spec[i].port = q /\ spec[i].patroni = q)
        /\ \A i \in Instance, b \in Activity : Claims(i, q) => q \notin InHand(b)
        /\ \A b, c \in Activity : q \in InHand(b) /\ q \in InHand(c) => b = c
        /\ \A i \in Instance : Claims(i, q) => q \in marked
        /\ \A b \in Activity : q \in InHand(b) => q \in marked
    BY <2>1 DEF ClaimParts, OneClaim, ClaimedIsMarked
  <2>3. \A b \in Activity : q \in InHandNow(b) <=> q \in InHand(b) \/ (b = a /\ q = p)
    BY <1>11
  <2>4. CASE q = p
    BY <1>2, <1>3, <1>10, <1>14, <2>1, <2>3, <2>4
  <2>5. CASE q # p
    BY <1>2, <1>3, <1>10, <2>1, <2>2, <2>3, <2>5
  <2>6. QED
    BY <2>4, <2>5
<1>16. ASSUME NEW q \in marked'
       PROVE  \/ q \in Busy \cup lost'
              \/ \E i \in Instance : ClaimsNow(i, q)
              \/ \E b \in Activity : q \in InHandNow(b)
  <2>1. CASE q \in marked
    BY <1>2, <1>10, <1>11, <1>12, <2>1 DEF ClaimParts, MarkedIsClaimed
  <2>2. CASE q \in skipped \/ q = p
    BY <1>11, <2>2
  <2>3. QED
    BY <1>3, <2>1, <2>2
<1> USE DEF InHandNow, ClaimsNow
<1>17. QED
  BY <1>15, <1>16, ClaimPartsNext
(* Claims on ports that are released are given up, the others stay.        *)
LEMMA GivenUp ==
  ASSUME JobParts, ClaimParts, NEW ports, marked' = marked \ ports,
         UNCHANGED <<spec, version, spoiled>>, lost \subseteq lost',
         \A i \in Instance, q \in AnyPort : Claims(i, q)' => Claims(i, q),
         \A i \in Instance, q \in AnyPort : Claims(i, q) => q \in ports \/ Claims(i, q)',
         \A b \in Activity : InHand(b)' \subseteq InHand(b),
         \A b \in Activity : InHand(b) \subseteq ports \cup InHand(b)' \cup lost',
         \A q \in Drawn \ spoiled : q \in ports =>
           (\A i \in Instance : ~Claims(i, q)') /\ (\A b \in Activity : q \notin InHand(b)')
  PROVE  ClaimParts'
<1> DEFINE InHandNow(b) == InHand(b)'
           ClaimsNow(i, q) == Claims(i, q)'
<1>1. /\ \A i \in Instance, q \in AnyPort : ClaimsNow(i, q) => Claims(i, q)
      /\ \A i \in Instance, q \in AnyPort : Claims(i, q) => q \in ports \/ ClaimsNow(i, q)
      /\ \A b \in Activity : InHandNow(b) \subseteq InHand(b)
      /\ \A b \in Activity : InHand(b) \subseteq ports \cup InHandNow(b) \cup lost'
      /\ \A q \in Drawn \ spoiled : q \in ports =>
           (\A i \in Instance : ~ClaimsNow(i, q)) /\ (\A b \in Activity : q \notin InHandNow(b))
  OBVIOUS
<1> HIDE DEF InHandNow, ClaimsNow
<1>2. Drawn \subseteq AnyPort /\ marked \subseteq AnyPort
  BY DEF AnyPort, Drawn, JobParts, Typed
<1>3. ASSUME NEW q \in Drawn \ spoiled'
      PROVE  /\ \A i, j \in Instance : ClaimsNow(i, q) /\ ClaimsNow(j, q) => i = j
             /\ \A i \in Instance : ClaimsNow(i, q) => ~(spec'[i].port = q /\ spec'[i].patroni = q)
             /\ \A i \in Instance, b \in Activity : ClaimsNow(i, q) => q \notin InHandNow(b)
             /\ \A b, c \in Activity : q \in InHandNow(b) /\ q \in InHandNow(c) => b = c
             /\ \A i \in Instance : ClaimsNow(i, q) => q \in marked'
             /\ \A b \in Activity : q \in InHandNow(b) => q \in marked'
  <2>1. q \in Drawn \ spoiled /\ q \in AnyPort
    BY <1>2
  <2>2. /\ \A i, j \in Instance : Claims(i, q) /\ Claims(j, q) => i = j
        /\ \A i \in Instance : Claims(i, q) => ~(spec[i].port = q /\ spec[i].patroni = q)
        /\ \A i \in Instance, b \in Activity : Claims(i, q) => q \notin InHand(b)
        /\ \A b, c \in Activity : q \in InHand(b) /\ q \in InHand(c) => b = c
        /\ \A i \in Instance : Claims(i, q) => q \in marked
        /\ \A b \in Activity : q \in InHand(b) => q \in marked
    BY <2>1 DEF ClaimParts, OneClaim, ClaimedIsMarked
  <2>3. QED
    BY <1>1, <2>1, <2>2
<1>4. ASSUME NEW q \in marked'
      PROVE  \/ q \in Busy \cup lost'
             \/ \E i \in Instance : ClaimsNow(i, q)
             \/ \E b \in Activity : q \in InHandNow(b)
  BY <1>1, <1>2, <1>4 DEF ClaimParts, MarkedIsClaimed
<1> USE DEF InHandNow, ClaimsNow
<1>5. QED
  BY <1>3, <1>4, ClaimPartsNext

(* A rollback, or the release of replaced ports, gives up what is in hand. *)
LEMMA ReleaseInHand ==
  ASSUME JobParts, ClaimParts, NEW a \in Activity, stage[a] \in {"rollback", "release"},
         NEW ports \in todo[a], marked' = marked \ ports,
         UNCHANGED <<spec, version, spoiled>>, lost \subseteq lost',
         InHand(a)' \subseteq UNION (todo[a] \ {ports}),
         UNION (todo[a] \ {ports}) \subseteq InHand(a)' \cup lost', stage'[a] # "delete",
         \A b \in Activity : b # a =>
           stage'[b] = stage[b] /\ job'[b] = job[b] /\ got'[b] = got[b] /\ todo'[b] = todo[b]
  PROVE  ClaimParts'
<1>1. InHand(a) = UNION todo[a]
  BY InHandIs
<1>2. \A s, t \in todo[a] : s # t => s \cap t = {}
  BY DEF JobParts, TodoIsRight
<1>3. InHand(a)' \cap ports = {}
  BY <1>2
<1>4. InHand(a)' \subseteq InHand(a) /\ InHand(a) \subseteq ports \cup InHand(a)' \cup lost' /\ ports \subseteq InHand(a)
  BY <1>1
<1>5. \A b \in Activity : b # a => InHand(b)' = InHand(b)
  BY SameInHand
<1>6. \A i \in Instance, q \in AnyPort : Claims(i, q)' <=> Claims(i, q)
  <2>1. \A b \in Activity : /\ stage'[b] = "delete" <=> stage[b] = "delete"
                            /\ stage[b] = "delete" => job'[b] = job[b] /\ todo'[b] = todo[b]
    OBVIOUS
  <2>2. QED
    BY <2>1, SameClaims
<1>7. ASSUME NEW q \in Drawn \ spoiled, q \in ports
      PROVE  (\A i \in Instance : ~Claims(i, q)') /\ (\A b \in Activity : q \notin InHand(b)')
  <2>1. q \in InHand(a) /\ q \in AnyPort
    BY <1>4, <1>7 DEF AnyPort, Drawn
  <2>2. \A i \in Instance : ~Claims(i, q)
    BY <2>1 DEF ClaimParts, OneClaim
  <2>3. \A b \in Activity : b # a => q \notin InHand(b)
    BY <2>1 DEF ClaimParts, OneClaim
  <2>4. q \notin InHand(a)'
    BY <1>3, <1>7
  <2>5. \A i \in Instance : ~Claims(i, q)'
    BY <1>6, <2>1, <2>2
  <2>6. \A b \in Activity : q \notin InHand(b)'
    BY <1>5, <2>3, <2>4
  <2>7. QED
    BY <2>5, <2>6
<1>8. \A b \in Activity : InHand(b)' \subseteq InHand(b) /\ InHand(b) \subseteq ports \cup InHand(b)' \cup lost'
  BY <1>4, <1>5
<1>9. QED
  BY <1>6, <1>7, <1>8, GivenUp

(* A deletion gives up the claims of one of its specifications.            *)
LEMMA ReleaseDeleted ==
  ASSUME JobParts, ClaimParts, NEW a \in Activity, stage[a] \in Deletes,
         NEW ports \in todo[a], marked' = marked \ ports,
         UNCHANGED <<spec, version, lost, spoiled>>,
         stage'[a] = "delete", todo'[a] = todo[a] \ {ports}, job' = job,
         \A b \in Activity : b # a =>
           stage'[b] = stage[b] /\ got'[b] = got[b] /\ todo'[b] = todo[b]
  PROVE  ClaimParts'
<1>1. \A b \in Activity : InHand(b)' = InHand(b)
  <2>1. InHand(a) = {} /\ InHand(a)' = {}
    BY InHandIs, InHandNext DEF Deletes, Reconciling
  <2>2. \A b \in Activity : b # a => InHand(b)' = InHand(b)
    BY SameInHand
  <2>3. QED
    BY <2>1, <2>2
<1>2. ASSUME NEW i \in Instance, NEW q \in AnyPort, Claims(i, q)'
      PROVE  Claims(i, q)
  <2>1. version[i] > 0 /\ q \in PortsOf(spec[i])
    BY <1>2 DEF Claims, PortsOf
  <2>2. ASSUME NEW b \in Activity, stage[b] = "delete", i \in job[b].target
        PROVE  q \in UNION todo[b]
    <3>1. CASE b = a
      <4>1. q \in UNION todo'[a]
        BY <1>2, <2>2, <3>1 DEF Claims
      <4>2. QED
        BY <3>1, <4>1
    <3>2. CASE b # a
      BY <1>2, <2>2, <3>2 DEF Claims
    <3>3. QED
      BY <3>1, <3>2
  <2>3. QED
    BY <2>1, <2>2 DEF Claims
<1>3. ASSUME NEW i \in Instance, NEW q \in AnyPort, Claims(i, q), q \notin ports
      PROVE  Claims(i, q)'
  <2>1. version'[i] > 0 /\ q \in PortsOf(spec'[i])
    BY <1>3 DEF Claims, PortsOf
  <2>2. ASSUME NEW b \in Activity, stage'[b] = "delete", i \in job'[b].target
        PROVE  q \in UNION todo'[b]
    <3>1. CASE b = a
      <4>1. q \in UNION todo[a]
        <5>1. CASE stage[a] = "clear"
          BY <1>3, <2>2, <3>1, <5>1 DEF JobParts, TodoIsRight, Claims
        <5>2. CASE stage[a] = "delete"
          BY <1>3, <2>2, <3>1, <5>2 DEF Claims
        <5>3. QED
          BY <5>1, <5>2 DEF Deletes
      <4>2. QED
        BY <1>3, <3>1, <4>1
    <3>2. CASE b # a
      BY <1>3, <2>2, <3>2 DEF Claims
    <3>3. QED
      BY <3>1, <3>2
  <2>3. QED
    BY <2>1, <2>2 DEF Claims, PortsOf
<1>4. ASSUME NEW k \in job[a].target, version[k] > 0, NEW q \in PortsOf(spec[k]), q \in UNION todo[a]
      PROVE  Claims(k, q) /\ k \in Instance
  <2>1. k \in Instance
    BY DEF JobParts, Typed, JobType
  <2>2. ASSUME NEW b \in Activity, stage[b] = "delete", k \in job[b].target PROVE b = a
    BY <2>2 DEF JobParts, DeletesAlone, Deletes
  <2>3. QED
    BY <1>4, <2>1, <2>2 DEF Claims
<1>5. \A t \in todo[a] : \E i \in job[a].target : version[i] > 0 /\ t = PortsOf(spec[i])
  BY DEF JobParts, TodoIsRight
<1>6. ASSUME NEW q \in Drawn \ spoiled, q \in ports
      PROVE  (\A i \in Instance : ~Claims(i, q)') /\ (\A b \in Activity : q \notin InHand(b)')
  <2>1. PICK k \in job[a].target : version[k] > 0 /\ ports = PortsOf(spec[k])
    BY <1>5
  <2>2. Claims(k, q) /\ k \in Instance /\ q \in AnyPort
    BY <1>4, <1>6, <2>1 DEF AnyPort, Drawn
  <2>3. \A b \in Activity : q \notin InHand(b)'
    BY <1>1, <2>2 DEF ClaimParts, OneClaim
  <2>4. \A i \in Instance : Claims(i, q) => i = k
    BY <2>2 DEF ClaimParts, OneClaim
  <2>5. ~Claims(k, q)'
    <3> SUFFICES ASSUME Claims(k, q)' PROVE FALSE
      OBVIOUS
    <3>1. q \in UNION (todo[a] \ {ports})
      BY DEF Claims
    <3>2. PICK t \in todo[a] : t # ports /\ q \in t
      BY <3>1
    <3>3. PICK m \in job[a].target : version[m] > 0 /\ t = PortsOf(spec[m])
      BY <1>5
    <3>4. Claims(m, q) /\ m \in Instance
      BY <1>4, <3>2, <3>3
    <3>5. m = k
      BY <2>4, <3>4
    <3>6. QED
      BY <2>1, <3>2, <3>3, <3>5
  <2>6. \A i \in Instance : ~Claims(i, q)'
    BY <1>2, <2>2, <2>4, <2>5
  <2>7. QED
    BY <2>3, <2>6
<1>7. \A b \in Activity : InHand(b)' \subseteq InHand(b) /\ InHand(b) \subseteq ports \cup InHand(b)'
  BY <1>1
<1>8. QED
  BY <1>2, <1>3, <1>6, <1>7, GivenUp

LEMMA ReleaseClaims ==
  ASSUME JobParts, ClaimParts, NEW a \in Activity, ReleasePort(a)
  PROVE  ClaimParts'
<1>1. PICK ports \in todo[a] :
        /\ Update(a, copy[a] \ ports)
        /\ \/ /\ todo[a] \ {ports} # {} \/ stage[a] \in Deletes
              /\ todo' = [todo EXCEPT ![a] = todo[a] \ {ports}]
              /\ stage' = [stage EXCEPT ![a] = IF stage[a] = "clear" THEN "delete" ELSE stage[a]]
              /\ LeaveCall({a})
              /\ UNCHANGED <<job, want, got>>
           \/ /\ todo[a] \ {ports} = {} /\ stage[a] \in {"rollback", "release"}
              /\ End({a})
  BY DEF ReleasePort, Deletes
<1>2. /\ stage[a] \in Releasing
      /\ UNCHANGED <<spec, version, lost, spoiled>>
  BY DEF ReleasePort
<1>3. marked' = marked \ ports
  BY <1>1 DEF Update, JobParts, CopyIsStored
<1>4. CASE /\ todo[a] \ {ports} = {} /\ stage[a] \in {"rollback", "release"}
           /\ End({a})
  <2>1. stage'[a] = "idle"
    BY <1>4, EndIs DEF JobParts
  <2>2. InHand(a)' = UNION (todo[a] \ {ports})
    BY <1>4, <2>1, InHandNext DEF Reconciling
  <2>3. \A b \in Activity : b # a =>
          stage'[b] = stage[b] /\ job'[b] = job[b] /\ got'[b] = got[b] /\ todo'[b] = todo[b]
    BY <1>4, EndIs DEF JobParts
  <2>4. QED
    BY <1>2, <1>3, <1>4, <2>1, <2>2, <2>3, ReleaseInHand
<1>5. CASE /\ todo' = [todo EXCEPT ![a] = todo[a] \ {ports}]
           /\ stage' = [stage EXCEPT ![a] = IF stage[a] = "clear" THEN "delete" ELSE stage[a]]
           /\ UNCHANGED <<job, want, got>>
  <2>1. /\ todo'[a] = todo[a] \ {ports}
        /\ stage'[a] = IF stage[a] = "clear" THEN "delete" ELSE stage[a]
        /\ job' = job
        /\ \A b \in Activity : b # a =>
             stage'[b] = stage[b] /\ job'[b] = job[b] /\ got'[b] = got[b] /\ todo'[b] = todo[b]
    BY <1>5 DEF JobParts, Typed
  <2>2. CASE stage[a] \in Deletes
    BY <1>2, <1>3, <2>1, <2>2, ReleaseDeleted DEF Deletes
  <2>3. CASE stage[a] \in {"rollback", "release"}
    <3>1. stage'[a] = stage[a]
      BY <2>1, <2>3
    <3>2. InHand(a)' = UNION (todo[a] \ {ports})
      BY <2>1, <2>3, <3>1, InHandNext
    <3>3. QED
      BY <1>2, <1>3, <2>1, <2>3, <3>1, <3>2, ReleaseInHand
  <2>4. QED
    BY <1>2, <2>2, <2>3 DEF Releasing, Deletes
<1>6. QED
  BY <1>1, <1>4, <1>5
(* A store turns what is in hand into claims of the specification, and the *)
(* claims it replaces into what is in hand, or lost.                       *)
LEMMA WriteClaims ==
  ASSUME JobParts, WantsItsOwn, ClaimParts, NEW a \in Activity, stage[a] = "store",
         NEW i \in job[a].target, version[i] = job[a].seen,
         spec' = [spec EXCEPT ![i] = want[a]],
         version' = [version EXCEPT ![i] = @ + 1],
         marked' = marked, spoiled \subseteq spoiled', lost \subseteq lost',
         \A q \in Drawn \ spoiled' :
           q \in InHand(a)' => q \in UNION PreviousPorts(job[a].prev, want[a]),
         UNION PreviousPorts(job[a].prev, want[a]) \subseteq InHand(a)' \cup lost',
         stage'[a] # "delete",
         \A b \in Activity : b # a =>
           stage'[b] = stage[b] /\ job'[b] = job[b] /\ got'[b] = got[b] /\ todo'[b] = todo[b]
  PROVE  ClaimParts'
<1> DEFINE w == want[a]
           prev == job[a].prev
           replaced == UNION PreviousPorts(prev, w)
           InHandNow(b) == InHand(b)'
           ClaimsNow(k, q) == Claims(k, q)'
<1>1. /\ i \in Instance /\ spec'[i] = w /\ version'[i] > 0
      /\ \A k \in Instance : k # i => spec'[k] = spec[k] /\ version'[k] = version[k]
  BY PortsAssumption DEF JobParts, Typed, JobType
<1>2. prev \in Settings /\ w \in WantType
  BY DEF JobParts, Typed, JobType
<1>3. /\ spec[i] = prev
      /\ w.port \in Drawn \ spoiled => w.port # w.patroni
      /\ w.port \in Drawn => w.port \in got[a] \cup {prev.port}
      /\ w.patroni \in Drawn => w.patroni \in got[a] \cup {prev.patroni}
      /\ got[a] \subseteq PortsOf(w)
  BY DEF WantsItsOwn, WantsOwn, Reconciling
<1>4. \A b \in Activity : stage[b] = "delete" => i \notin job[b].target
  BY DEF JobParts, DeletesAlone, Deletes
<1>5. \A q : ClaimsNow(i, q) <=> q \in PortsOf(w)
  <2>1. \A b \in Activity : stage'[b] = "delete" => i \notin job'[b].target
    BY <1>4
  <2>2. QED
    BY <1>1, <2>1 DEF Claims, PortsOf
<1>6. \A q : Claims(i, q) <=> q \in PortsOf(prev)
  <2>1. version[i] = 0 => PortsOf(spec[i]) = {}
    BY <1>1 DEF JobParts, GoneIsUnset, Unset, PortsOf
  <2>2. version[i] # 0 => version[i] > 0
    BY <1>1 DEF JobParts, Typed
  <2>3. QED
    BY <1>3, <1>4, <2>1, <2>2 DEF Claims
<1>7. \A k \in Instance, q \in AnyPort : k # i => (ClaimsNow(k, q) <=> Claims(k, q))
  <2>1. \A b \in Activity : /\ stage'[b] = "delete" <=> stage[b] = "delete"
                            /\ stage[b] = "delete" => job'[b] = job[b] /\ todo'[b] = todo[b]
    OBVIOUS
  <2>2. QED
    BY <1>1, <2>1, SameClaims
<1>8. \A q : q \in replaced <=> \/ q = prev.port /\ prev.port # NoPort /\ prev.port # w.port
                                \/ q = prev.patroni /\ prev.patroni # NoPort /\ prev.patroni # w.patroni
  BY <1>2, PreviousUnion
<1>9. InHand(a) = got[a]
  BY InHandIs DEF Reconciling
<1>10. \A b \in Activity : b # a => InHandNow(b) = InHand(b)
  BY SameInHand
<1>11. /\ \A q \in Drawn \ spoiled' : q \in InHandNow(a) => q \in replaced
       /\ replaced \subseteq InHandNow(a) \cup lost'
  OBVIOUS
<1> HIDE DEF w, prev, replaced, InHandNow, ClaimsNow
<1>12. Drawn \subseteq AnyPort /\ marked \subseteq AnyPort
  BY DEF AnyPort, Drawn, JobParts, Typed
<1>13. ASSUME NEW q \in Drawn \ spoiled'
       PROVE  /\ \A k, j \in Instance : ClaimsNow(k, q) /\ ClaimsNow(j, q) => k = j
              /\ \A k \in Instance : ClaimsNow(k, q) => ~(spec'[k].port = q /\ spec'[k].patroni = q)
              /\ \A k \in Instance, b \in Activity : ClaimsNow(k, q) => q \notin InHandNow(b)
              /\ \A b, c \in Activity : q \in InHandNow(b) /\ q \in InHandNow(c) => b = c
              /\ \A k \in Instance : ClaimsNow(k, q) => q \in marked'
              /\ \A b \in Activity : q \in InHandNow(b) => q \in marked'
  <2>1. q \in Drawn \ spoiled /\ q \in AnyPort /\ q # NoPort
    BY <1>12, PortsAssumption DEF Drawn
  <2>2. /\ \A k, j \in Instance : Claims(k, q) /\ Claims(j, q) => k = j
        /\ \A k \in Instance : Claims(k, q) => ~(spec[k].port = q /\ spec[k].patroni = q)
        /\ \A k \in Instance, b \in Activity : Claims(k, q) => q \notin InHand(b)
        /\ \A b, c \in Activity : q \in InHand(b) /\ q \in InHand(c) => b = c
        /\ \A k \in Instance : Claims(k, q) => q \in marked
        /\ \A b \in Activity : q \in InHand(b) => q \in marked
    BY <2>1 DEF ClaimParts, OneClaim, ClaimedIsMarked
  <2>3. ClaimsNow(i, q) => Claims(i, q) \/ q \in InHand(a)
    BY <1>3, <1>5, <1>6, <1>9, <2>1 DEF PortsOf
  <2>4. q \in InHandNow(a) => Claims(i, q)
    BY <1>6, <1>8, <1>11 DEF PortsOf
  <2>5. ~(ClaimsNow(i, q) /\ q \in InHandNow(a))
    <3> SUFFICES ASSUME ClaimsNow(i, q), q \in InHandNow(a) PROVE FALSE
      OBVIOUS
    <3>1. q \in replaced /\ Claims(i, q)
      BY <1>11, <2>4
    <3>2. q \notin got[a]
      BY <1>1, <1>9, <2>2, <3>1
    <3>3. ~(prev.port = q /\ prev.patroni = q)
      BY <1>1, <1>3, <2>2, <3>1
    <3>4. q = w.port \/ q = w.patroni
      BY <1>5 DEF PortsOf
    <3>5. (q = w.port => q = prev.port) /\ (q = w.patroni => q = prev.patroni)
      BY <1>3, <2>1, <3>2
    <3>6. QED
      BY <1>8, <3>1, <3>3, <3>4, <3>5
  <2>6. \A k, j \in Instance : ClaimsNow(k, q) /\ ClaimsNow(j, q) => k = j
    BY <1>1, <1>7, <2>1, <2>2, <2>3
  <2>7. ASSUME NEW k \in Instance, ClaimsNow(k, q)
        PROVE  ~(spec'[k].port = q /\ spec'[k].patroni = q)
    <3>1. CASE k = i
      BY <1>1, <1>3, <2>1, <3>1
    <3>2. CASE k # i
      BY <1>1, <1>7, <2>1, <2>2, <2>7, <3>2
    <3>3. QED
      BY <3>1, <3>2
  <2>8. ASSUME NEW k \in Instance, NEW b \in Activity, ClaimsNow(k, q), q \in InHandNow(b)
        PROVE  FALSE
    <3>1. CASE k = i /\ b = a
      BY <2>5, <2>8, <3>1
    <3>2. CASE k = i /\ b # a
      BY <1>10, <2>2, <2>3, <2>8, <3>2
    <3>3. CASE k # i /\ b = a
      BY <1>1, <1>7, <2>1, <2>2, <2>4, <2>8, <3>3
    <3>4. CASE k # i /\ b # a
      BY <1>7, <1>10, <2>1, <2>2, <2>8, <3>4
    <3>5. QED
      BY <3>1, <3>2, <3>3, <3>4
  <2>9. \A b, c \in Activity : q \in InHandNow(b) /\ q \in InHandNow(c) => b = c
    BY <1>1, <1>10, <2>2, <2>4
  <2>10. \A k \in Instance : ClaimsNow(k, q) => q \in marked'
    BY <1>7, <2>1, <2>2, <2>3
  <2>11. \A b \in Activity : q \in InHandNow(b) => q \in marked'
    BY <1>1, <1>10, <2>2, <2>4
  <2>12. QED
    BY <2>6, <2>7, <2>8, <2>9, <2>10, <2>11
<1>14. ASSUME NEW q \in marked'
       PROVE  \/ q \in Busy \cup lost'
              \/ \E k \in Instance : ClaimsNow(k, q)
              \/ \E b \in Activity : q \in InHandNow(b)
  <2>1. q \in marked /\ q \in AnyPort
    BY <1>12
  <2>2. CASE q \in Busy \cup lost
    BY <2>2
  <2>3. ASSUME NEW k \in Instance, Claims(k, q), k # i PROVE ClaimsNow(k, q)
    BY <1>7, <2>1, <2>3
  <2>4. Claims(i, q) => ClaimsNow(i, q) \/ q \in replaced
    BY <1>5, <1>6, <1>8 DEF PortsOf
  <2>5. q \in InHand(a) => ClaimsNow(i, q)
    BY <1>3, <1>5, <1>9
  <2>6. \/ q \in Busy \cup lost
        \/ \E k \in Instance : Claims(k, q)
        \/ \E b \in Activity : q \in InHand(b)
    BY <2>1 DEF ClaimParts, MarkedIsClaimed
  <2>7. CASE \E k \in Instance : Claims(k, q)
    BY <1>1, <1>11, <2>3, <2>4, <2>7
  <2>8. CASE \E b \in Activity : q \in InHand(b)
    BY <1>1, <1>10, <2>5, <2>8
  <2>9. QED
    BY <2>2, <2>6, <2>7, <2>8
<1> USE DEF InHandNow, ClaimsNow
<1>15. QED
  BY <1>13, <1>14, ClaimPartsNext

LEMMA StoreSpecClaims ==
  ASSUME JobParts, WantsItsOwn, ClaimParts, NEW a \in Activity, StoreSpec(a)
  PROVE  ClaimParts'
<1> DEFINE previous == PreviousPorts(job[a].prev, want[a])
<1>1. PICK i \in job[a].target :
       \/ /\ version[i] = job[a].seen
          /\ spec' = [spec EXCEPT ![i] = want[a]]
          /\ version' = [version EXCEPT ![i] = @ + 1]
          /\ \/ /\ stage' = [stage EXCEPT ![a] = "release"]
                /\ todo' = [todo EXCEPT ![a] = previous]
                /\ got' = [got EXCEPT ![a] = {}]
                /\ UNCHANGED <<job, want, copy, tries>>
             \/ previous = {} /\ End({a})
       \/ /\ Rollback(a)
          /\ UNCHANGED <<spec, version>>
  BY DEF StoreSpec
<1>2. stage[a] = "store" /\ UNCHANGED <<marked, lost, spoiled>>
  BY DEF StoreSpec
<1> HIDE DEF previous
<1>3. CASE Rollback(a) /\ UNCHANGED <<spec, version>>
  BY <1>2, <1>3, RollbackClaims DEF Reconciling
<1>4. CASE /\ version[i] = job[a].seen
           /\ spec' = [spec EXCEPT ![i] = want[a]]
           /\ version' = [version EXCEPT ![i] = @ + 1]
           /\ previous = {} /\ End({a})
  <2>1. stage'[a] = "idle"
    BY <1>4, EndIs DEF JobParts
  <2>2. InHand(a)' = UNION previous
    BY <1>4, <2>1, InHandNext DEF Reconciling
  <2>3. \A b \in Activity : b # a =>
          stage'[b] = stage[b] /\ job'[b] = job[b] /\ got'[b] = got[b] /\ todo'[b] = todo[b]
    BY <1>4, EndIs DEF JobParts
  <2>4. QED
    BY <1>2, <1>4, <2>1, <2>2, <2>3, WriteClaims DEF previous
<1>5. CASE /\ version[i] = job[a].seen
           /\ spec' = [spec EXCEPT ![i] = want[a]]
           /\ version' = [version EXCEPT ![i] = @ + 1]
           /\ stage' = [stage EXCEPT ![a] = "release"]
           /\ todo' = [todo EXCEPT ![a] = previous]
           /\ got' = [got EXCEPT ![a] = {}]
           /\ UNCHANGED <<job, want, copy, tries>>
  <2>1. stage'[a] = "release" /\ todo'[a] = previous
    BY <1>5 DEF JobParts, Typed
  <2>2. InHand(a)' = UNION previous
    BY <2>1, InHandNext
  <2>3. \A b \in Activity : b # a =>
          stage'[b] = stage[b] /\ job'[b] = job[b] /\ got'[b] = got[b] /\ todo'[b] = todo[b]
    BY <1>5 DEF JobParts, Typed
  <2>4. QED
    BY <1>2, <1>5, <2>1, <2>2, <2>3, WriteClaims DEF previous
<1>6. QED
  BY <1>1, <1>3, <1>4, <1>5

LEMMA StoreFailsClaims ==
  ASSUME JobParts, WantsItsOwn, ClaimParts, NEW a \in Activity, StoreFails(a)
  PROVE  ClaimParts'
<1>1. marked' = marked
  BY DEF StoreFails
<1>2. CASE FailCall(a) /\ UNCHANGED <<spec, version>>
  BY <1>1, <1>2, FailCallClaims
<1>3. CASE stage[a] = "store" /\ Rollback(a) /\ UNCHANGED <<spec, version, lost, spoiled>>
  BY <1>1, <1>3, RollbackClaims DEF Reconciling
<1>4. CASE /\ stage[a] = "store"
           /\ \E i \in job[a].target :
                /\ version[i] = job[a].seen
                /\ spec' = [spec EXCEPT ![i] = want[a]]
                /\ version' = [version EXCEPT ![i] = @ + 1]
           /\ Rollback(a)
           /\ lost' = lost \cup UNION PreviousPorts(job[a].prev, want[a])
           /\ spoiled' = spoiled \cup got[a]
  <2>1. PICK i \in job[a].target :
          /\ version[i] = job[a].seen
          /\ spec' = [spec EXCEPT ![i] = want[a]]
          /\ version' = [version EXCEPT ![i] = @ + 1]
    BY <1>4
  <2>2. stage'[a] = "rollback" /\ todo'[a] = {got[a]}
    BY <1>4, RollbackIs DEF JobParts
  <2>3. InHand(a)' = got[a]
    <3>1. InHand(a)' = UNION {got[a]}
      BY <2>2, InHandNext
    <3>2. QED
      BY <3>1
  <2>4. \A b \in Activity : b # a =>
          stage'[b] = stage[b] /\ job'[b] = job[b] /\ got'[b] = got[b] /\ todo'[b] = todo[b]
    BY <1>4, RollbackIs DEF JobParts
  <2>5. \A q \in Drawn \ spoiled' : q \notin InHand(a)'
    BY <1>4, <2>3
  <2>6. /\ spoiled \subseteq spoiled' /\ lost \subseteq lost'
        /\ UNION PreviousPorts(job[a].prev, want[a]) \subseteq InHand(a)' \cup lost'
    BY <1>4
  <2>7. stage[a] = "store" /\ stage'[a] # "delete"
    BY <1>4, <2>2
  <2>8. QED
    BY <1>1, <2>1, <2>4, <2>5, <2>6, <2>7, WriteClaims
<1>5. CASE /\ stage[a] = "delete"
           /\ End({a})
           /\ spoiled' = spoiled \cup Spoils(a)
           /\ UNCHANGED <<current, spec, version, lost>>
  <2>1. InHand(a) = {}
    BY <1>5, InHandIs DEF Reconciling
  <2>2. QED
    BY <1>1, <1>5, <2>1, EndClaims
<1>6. QED
  BY <1>2, <1>3, <1>4, <1>5 DEF StoreFails

(* The bit of the port that was drawn is lost with the answer; what was    *)
(* released is nobody's any more, or is spoiled.                           *)
LEMMA AnswerLostClaims ==
  ASSUME JobParts, ClaimParts, NEW a \in Activity, AnswerLost(a)
  PROVE  ClaimParts'
<1>1. UNCHANGED <<spec, version>>
  BY DEF AnswerLost
<1>2. a \in current => copy[a] = marked
  BY DEF JobParts, CopyIsStored
<1>3. ASSUME NEW p \in (Range \ copy[a]) \ Busy, NEW skipped \in SUBSET ((Range \cap Busy) \ copy[a]),
             stage[a] = "allocate",
             Update(a, copy[a] \cup skipped \cup {p}), UNCHANGED spoiled,
             \/ Rollback(a) /\ lost' = lost \cup {p}
             \/ End({a}) /\ lost' = lost \cup {p} \cup InHand(a)
      PROVE  ClaimParts'
  <2>1. marked' = marked \cup skipped \cup {p}
    BY <1>2, <1>3 DEF Update
  <2>2. /\ marked' \subseteq marked \cup Busy \cup lost' /\ marked \subseteq marked'
        /\ lost \subseteq lost'
    BY <1>3, <2>1
  <2>3. CASE Rollback(a)
    BY <1>1, <1>3, <2>2, <2>3, RollbackClaims DEF Reconciling
  <2>4. CASE End({a}) /\ lost' = lost \cup {p} \cup InHand(a)
    <3>1. Spoils(a) = {}
      BY <1>3 DEF Spoils
    <3>2. QED
      BY <1>1, <1>3, <2>2, <2>4, <3>1, EndClaims
  <2>5. QED
    BY <1>3, <2>3, <2>4
<1>4. ASSUME NEW ports \in todo[a], Update(a, copy[a] \ ports), End({a}),
             stage[a] \in {"rollback", "release"},
             lost' = lost \cup (InHand(a) \ ports), UNCHANGED spoiled
      PROVE  ClaimParts'
  <2>1. marked' = marked \ ports
    BY <1>2, <1>4 DEF Update
  <2>2. stage'[a] = "idle"
    BY <1>4, EndIs DEF JobParts
  <2>3. InHand(a)' = {}
    BY <2>2, InHandNext DEF Reconciling
  <2>4. InHand(a) = UNION todo[a]
    BY <1>4, InHandIs
  <2>5. \A s, t \in todo[a] : s # t => s \cap t = {}
    BY <1>4 DEF JobParts, TodoIsRight
  <2>6. UNION (todo[a] \ {ports}) \subseteq lost'
    BY <1>4, <2>4, <2>5
  <2>7. \A b \in Activity : b # a =>
          stage'[b] = stage[b] /\ job'[b] = job[b] /\ got'[b] = got[b] /\ todo'[b] = todo[b]
    BY <1>4, EndIs DEF JobParts
  <2>8. QED
    BY <1>1, <1>4, <2>1, <2>2, <2>3, <2>6, <2>7, ReleaseInHand
<1>5. ASSUME NEW ports \in todo[a], Update(a, copy[a] \ ports), End({a}),
             stage[a] \in {"clear", "delete"},
             spoiled' = spoiled \cup Spoils(a) \cup ports, UNCHANGED lost
      PROVE  ClaimParts'
  <2>1. marked' = marked \ ports
    BY <1>2, <1>5 DEF Update
  <2>2. InHand(a) = {}
    BY <1>5, InHandIs DEF Reconciling
  <2>3. QED
    BY <1>1, <1>5, <2>1, <2>2, EndClaims
<1>6. QED
  BY <1>3, <1>4, <1>5 DEF AnswerLost

LEMMA CrashClaims ==
  ASSUME JobParts, ClaimParts, NEW h \in Host, Crash(h)
  PROVE  ClaimParts'
<1> DEFINE running == {a \in Activity : stage[a] # "idle" /\ job[a].host = h}
<1>1. /\ End(running)
      /\ lost' = lost \cup UNION {InHand(a) : a \in running}
      /\ spoiled' = spoiled \cup UNION {Spoils(a) : a \in running}
      /\ UNCHANGED <<marked, spec, version>>
  BY DEF Crash
<1> HIDE DEF running
<1>2. \A a \in Activity : a \in running => InHand(a) \subseteq lost' /\ Spoils(a) \subseteq spoiled'
  BY <1>1
<1>3. spoiled \subseteq spoiled' /\ lost \subseteq lost'
  BY <1>1
<1>4. QED
  BY <1>1, <1>2, <1>3, EndClaims
----------------------------------------------------------------------------
(* What a reconciliation wants.                                            *)

LEMMA WantsOwnKept ==
  ASSUME JobParts, NEW b \in Activity, WantsOwn(b),
         want'[b] = want[b], job'[b] = job[b], got'[b] = got[b], spoiled \subseteq spoiled',
         \A i \in job[b].target : \/ spec'[i] = spec[i] /\ version'[i] = version[i]
                                  \/ version'[i] = version[i] + 1
  PROVE  WantsOwn(b)'
<1>1. ASSUME NEW i \in job[b].target
      PROVE  /\ job[b].seen <= version'[i]
             /\ version'[i] = job[b].seen =>
                  /\ spec'[i] = job[b].prev
                  /\ want[b].port \in Drawn \ spoiled' => want[b].port # want[b].patroni
  <2>1. version[i] \in Nat /\ job[b].seen \in Nat /\ job[b].seen <= version[i]
    BY PortsAssumption DEF JobParts, Typed, JobType, WantsOwn
  <2>2. CASE spec'[i] = spec[i] /\ version'[i] = version[i]
    BY <2>1, <2>2 DEF WantsOwn
  <2>3. CASE version'[i] = version[i] + 1
    BY <2>1, <2>3
  <2>4. QED
    BY <2>2, <2>3
<1>2. QED
  BY <1>1 DEF WantsOwn, PortsOf

(* Nothing that is reconciled moves, but for the version.                  *)
LEMMA WantsKept ==
  ASSUME JobParts, WantsItsOwn, spoiled \subseteq spoiled',
         \A b \in Activity : stage'[b] \in Reconciling =>
           stage[b] \in Reconciling /\ want'[b] = want[b] /\ job'[b] = job[b] /\ got'[b] = got[b],
         \A b \in Activity : stage[b] \in Reconciling => \A i \in job[b].target :
           \/ spec'[i] = spec[i] /\ version'[i] = version[i]
           \/ version'[i] = version[i] + 1
  PROVE  WantsItsOwn'
<1> SUFFICES ASSUME NEW b \in Activity, stage'[b] \in Reconciling PROVE WantsOwn(b)'
  BY DEF WantsItsOwn
<1>1. WantsOwn(b)
  BY DEF WantsItsOwn
<1>2. QED
  BY <1>1, WantsOwnKept

OwnParts == IdleHasNone /\ WantsItsOwn

LEMMA EndOwn ==
  ASSUME JobParts, OwnParts, NEW s, End(s), spoiled \subseteq spoiled',
         \A b \in Activity : b \notin s /\ stage[b] \in Reconciling => \A i \in job[b].target :
           \/ spec'[i] = spec[i] /\ version'[i] = version[i]
           \/ version'[i] = version[i] + 1
  PROVE  OwnParts'
<1>1. IdleHasNone'
  BY EndIs DEF JobParts, OwnParts, IdleHasNone
<1>2. WantsItsOwn'
  <2> SUFFICES ASSUME NEW b \in Activity, stage'[b] \in Reconciling PROVE WantsOwn(b)'
    BY DEF WantsItsOwn
  <2>1. b \notin s
    BY EndIs DEF JobParts, Reconciling
  <2>2. /\ stage'[b] = stage[b] /\ want'[b] = want[b]
        /\ job'[b] = job[b] /\ got'[b] = got[b]
    BY <2>1, EndIs DEF JobParts
  <2>3. WantsOwn(b)
    BY <2>2 DEF OwnParts, WantsItsOwn
  <2>4. QED
    BY <2>1, <2>2, <2>3, WantsOwnKept
<1>3. QED
  BY <1>1, <1>2 DEF OwnParts

LEMMA RollbackOwn ==
  ASSUME JobParts, OwnParts, NEW a \in Activity, Rollback(a), spoiled \subseteq spoiled',
         \A b \in Activity : stage[b] \in Reconciling => \A i \in job[b].target :
           \/ spec'[i] = spec[i] /\ version'[i] = version[i]
           \/ version'[i] = version[i] + 1
  PROVE  OwnParts'
<1>1. IdleHasNone'
  BY RollbackIs DEF JobParts, OwnParts, IdleHasNone
<1>2. \A b \in Activity : stage'[b] \in Reconciling =>
        stage[b] \in Reconciling /\ want'[b] = want[b] /\ job'[b] = job[b] /\ got'[b] = got[b]
  BY RollbackIs DEF JobParts, Reconciling
<1>3. WantsItsOwn'
  BY <1>2, WantsKept DEF OwnParts
<1>4. QED
  BY <1>1, <1>3 DEF OwnParts

LEMMA FailCallOwn ==
  ASSUME JobParts, OwnParts, NEW a \in Activity, FailCall(a), UNCHANGED <<spec, version>>
  PROVE  OwnParts'
<1>1. CASE Rollback(a) /\ UNCHANGED <<lost, spoiled>>
  BY <1>1, RollbackOwn
<1>2. CASE End({a}) /\ spoiled' = spoiled \cup Spoils(a)
  BY <1>2, EndOwn
<1>3. QED
  BY <1>1, <1>2 DEF FailCall

(* A write of one specification leaves the others alone.                   *)
LEMMA OneWritten ==
  ASSUME JobParts, NEW i \in Instance, NEW s,
         spec' = [spec EXCEPT ![i] = s], version' = [version EXCEPT ![i] = @ + 1]
  PROVE  \A b \in Activity : \A k \in job[b].target :
           \/ spec'[k] = spec[k] /\ version'[k] = version[k]
           \/ version'[k] = version[k] + 1
<1>1. \A k \in Instance : \/ spec'[k] = spec[k] /\ version'[k] = version[k]
                          \/ version'[k] = version[k] + 1
  BY DEF JobParts, Typed
<1>2. \A b \in Activity : job[b].target \subseteq Instance
  BY DEF JobParts, Typed, JobType
<1>3. QED
  BY <1>1, <1>2

LEMMA StoreSpecOwn ==
  ASSUME JobParts, OwnParts, NEW a \in Activity, StoreSpec(a)
  PROVE  OwnParts'
<1>1. PICK i \in job[a].target :
       \/ /\ spec' = [spec EXCEPT ![i] = want[a]]
          /\ version' = [version EXCEPT ![i] = @ + 1]
          /\ \/ /\ stage' = [stage EXCEPT ![a] = "release"]
                /\ got' = [got EXCEPT ![a] = {}]
                /\ UNCHANGED <<job, want, copy, tries>>
             \/ End({a})
       \/ /\ Rollback(a)
          /\ UNCHANGED <<spec, version>>
  BY DEF StoreSpec
<1>2. spoiled' = spoiled /\ i \in Instance
  BY DEF StoreSpec, JobParts, Typed, JobType
<1>3. CASE Rollback(a) /\ UNCHANGED <<spec, version>>
  BY <1>2, <1>3, RollbackOwn
<1>4. CASE /\ spec' = [spec EXCEPT ![i] = want[a]]
           /\ version' = [version EXCEPT ![i] = @ + 1]
           /\ End({a})
  BY <1>2, <1>4, OneWritten, EndOwn
<1>5. CASE /\ spec' = [spec EXCEPT ![i] = want[a]]
           /\ version' = [version EXCEPT ![i] = @ + 1]
           /\ stage' = [stage EXCEPT ![a] = "release"]
           /\ got' = [got EXCEPT ![a] = {}]
           /\ UNCHANGED <<job, want, copy, tries>>
  <2>1. IdleHasNone'
    BY <1>5 DEF JobParts, Typed, OwnParts, IdleHasNone
  <2>2. \A b \in Activity : stage'[b] \in Reconciling =>
          stage[b] \in Reconciling /\ want'[b] = want[b] /\ job'[b] = job[b] /\ got'[b] = got[b]
    BY <1>5 DEF JobParts, Typed, Reconciling
  <2>3. WantsItsOwn'
    BY <1>2, <1>5, <2>2, OneWritten, WantsKept DEF OwnParts
  <2>4. QED
    BY <2>1, <2>3 DEF OwnParts
<1>6. QED
  BY <1>1, <1>3, <1>4, <1>5

LEMMA DeleteSpecsOwn ==
  ASSUME JobParts, OwnParts, NEW a \in Activity, DeleteSpecs(a)
  PROVE  OwnParts'
<1>1. /\ stage[a] = "delete" /\ End({a}) /\ spoiled' = spoiled
      /\ \A k \in Instance : k \notin job[a].target => spec'[k] = spec[k] /\ version'[k] = version[k]
  BY DEF DeleteSpecs
<1>2. ASSUME NEW b \in Activity, b # a, stage[b] \in Reconciling, NEW k \in job[b].target
      PROVE  spec'[k] = spec[k] /\ version'[k] = version[k]
  <2>1. k \in Instance /\ k \notin job[a].target
    BY <1>1, <1>2 DEF JobParts, DeletesAlone, Deletes, Reconciling, Typed, JobType
  <2>2. QED
    BY <1>1, <2>1
<1>3. QED
  BY <1>1, <1>2, EndOwn

LEMMA StoreFailsOwn ==
  ASSUME JobParts, OwnParts, NEW a \in Activity, StoreFails(a)
  PROVE  OwnParts'
<1>1. CASE FailCall(a) /\ UNCHANGED <<spec, version>>
  BY <1>1, FailCallOwn
<1>2. CASE Rollback(a) /\ UNCHANGED <<spec, version, lost, spoiled>>
  BY <1>2, RollbackOwn
<1>3. CASE /\ \E i \in job[a].target :
                /\ spec' = [spec EXCEPT ![i] = want[a]]
                /\ version' = [version EXCEPT ![i] = @ + 1]
           /\ Rollback(a)
           /\ spoiled' = spoiled \cup got[a]
  <2>1. PICK i \in job[a].target : /\ spec' = [spec EXCEPT ![i] = want[a]]
                                   /\ version' = [version EXCEPT ![i] = @ + 1]
    BY <1>3
  <2>2. i \in Instance
    BY DEF JobParts, Typed, JobType
  <2>3. QED
    BY <1>3, <2>1, <2>2, OneWritten, RollbackOwn
<1>4. CASE /\ End({a})
           /\ spoiled' = spoiled \cup Spoils(a)
           /\ UNCHANGED <<current, spec, version, lost>>
  BY <1>4, EndOwn
<1>5. QED
  BY <1>1, <1>2, <1>3, <1>4 DEF StoreFails

LEMMA AnswerLostOwn ==
  ASSUME JobParts, OwnParts, NEW a \in Activity, AnswerLost(a)
  PROVE  OwnParts'
<1>1. /\ End({a}) \/ Rollback(a)
      /\ spoiled \subseteq spoiled' /\ UNCHANGED <<spec, version>>
  BY DEF AnswerLost
<1>2. QED
  BY <1>1, EndOwn, RollbackOwn

LEMMA CrashOwn ==
  ASSUME JobParts, OwnParts, NEW h \in Host, Crash(h)
  PROVE  OwnParts'
<1> DEFINE running == {a \in Activity : stage[a] # "idle" /\ job[a].host = h}
<1>1. /\ End(running) /\ spoiled \subseteq spoiled'
      /\ UNCHANGED <<spec, version>>
  BY DEF Crash
<1> HIDE DEF running
<1>2. QED
  BY <1>1, EndOwn

LEMMA ReleaseOwn ==
  ASSUME JobParts, OwnParts, NEW a \in Activity, ReleasePort(a)
  PROVE  OwnParts'
<1>1. /\ stage[a] \in Releasing
      /\ UNCHANGED <<spec, version, spoiled>>
      /\ \/ /\ stage' = [stage EXCEPT ![a] = IF stage[a] = "clear" THEN "delete" ELSE stage[a]]
            /\ UNCHANGED <<job, want, got>>
         \/ End({a})
  BY DEF ReleasePort
<1>2. CASE End({a})
  BY <1>1, <1>2, EndOwn
<1>3. CASE /\ stage' = [stage EXCEPT ![a] = IF stage[a] = "clear" THEN "delete" ELSE stage[a]]
           /\ UNCHANGED <<job, want, got>>
  <2>1. \A b \in Activity : /\ stage'[b] = "idle" => stage[b] = "idle"
                            /\ stage'[b] \in Reconciling => stage[b] \in Reconciling
    BY <1>1, <1>3 DEF JobParts, Typed, Releasing, Reconciling
  <2>2. IdleHasNone'
    BY <1>3, <2>1 DEF OwnParts, IdleHasNone
  <2>3. WantsItsOwn'
    BY <1>1, <1>3, <2>1, WantsKept DEF OwnParts
  <2>4. QED
    BY <2>2, <2>3 DEF OwnParts
<1>4. QED
  BY <1>1, <1>2, <1>3

LEMMA StillOwn ==
  ASSUME JobParts, OwnParts, UNCHANGED <<spec, version, stage, job, want, got, spoiled>>
  PROVE  OwnParts'
BY WantsKept DEF OwnParts, IdleHasNone
LEMMA AfterAllocationIs ==
  \A w : AfterAllocation(w) = "allocate" => w.port = Random \/ w.patroni = Random
BY DEF AfterAllocation

LEMMA AllocatesKept ==
  ASSUME AllocatesRandom,
         \A b \in Activity : stage'[b] = "allocate" =>
           \/ stage[b] = "allocate" /\ want'[b] = want[b]
           \/ AfterAllocation(want'[b]) = "allocate"
  PROVE  AllocatesRandom'
BY AfterAllocationIs DEF AllocatesRandom

LEMMA FailCallAllocates ==
  ASSUME JobParts, AllocatesRandom, NEW a \in Activity, FailCall(a) PROVE AllocatesRandom'
<1>1. CASE Rollback(a)
  BY <1>1, RollbackIs, AllocatesKept DEF JobParts
<1>2. CASE End({a})
  BY <1>2, EndIs, AllocatesKept DEF JobParts
<1>3. QED
  BY <1>1, <1>2 DEF FailCall

LEMMA AllocatesStep ==
  ASSUME JobParts, AllocatesRandom, Next PROVE AllocatesRandom'
<1>1. ASSUME NEW a \in Activity, NEW i \in Instance, NEW req \in Requests[i], Reconcile(a, i, req)
      PROVE  AllocatesRandom'
  <2>1. stage'[a] = AfterAllocation(want'[a])
    BY <1>1 DEF Reconcile, JobParts, Typed
  <2>2. \A b \in Activity : b # a => stage'[b] = stage[b] /\ want'[b] = want[b]
    BY <1>1 DEF Reconcile, JobParts, Typed
  <2>3. QED
    BY <2>1, <2>2, AllocatesKept
<1>2. ASSUME NEW a \in Activity, NEW s, NEW h \in Host, Delete(a, s, h)
      PROVE  AllocatesRandom'
  <2>1. \A b \in Activity : stage'[b] = "allocate" => stage[b] = "allocate" /\ want'[b] = want[b]
    BY <1>2 DEF Delete, JobParts, Typed
  <2>2. QED
    BY <2>1, AllocatesKept
<1>3. ASSUME NEW a \in Activity, RestoreAllocator(a) PROVE AllocatesRandom'
  BY <1>3, AllocatesKept DEF RestoreAllocator
<1>4. ASSUME NEW a \in Activity, AllocatePort(a) PROVE AllocatesRandom'
  <2>1. stage'[a] = AfterAllocation(want'[a])
    BY <1>4 DEF AllocatePort, JobParts, Typed
  <2>2. \A b \in Activity : b # a => stage'[b] = stage[b] /\ want'[b] = want[b]
    BY <1>4 DEF AllocatePort, JobParts, Typed
  <2>3. QED
    BY <2>1, <2>2, AllocatesKept
<1>5. ASSUME NEW a \in Activity, ReleasePort(a) PROVE AllocatesRandom'
  <2>1. CASE End({a})
    BY <2>1, EndIs, AllocatesKept DEF JobParts
  <2>2. CASE /\ stage' = [stage EXCEPT ![a] = IF stage[a] = "clear" THEN "delete" ELSE stage[a]]
             /\ want' = want
    BY <2>2, AllocatesKept DEF JobParts, Typed
  <2>3. QED
    BY <1>5, <2>1, <2>2 DEF ReleasePort
<1>6. ASSUME NEW a \in Activity, RangeFull(a) \/ Conflict(a) PROVE AllocatesRandom'
  <2>1. CASE FailCall(a)
    BY <2>1, FailCallAllocates
  <2>2. CASE UNCHANGED <<stage, want>>
    BY <2>2, AllocatesKept
  <2>3. QED
    BY <1>6, <2>1, <2>2 DEF RangeFull, Conflict
<1>7. ASSUME NEW a \in Activity, StoreSpec(a) PROVE AllocatesRandom'
  <2>1. CASE Rollback(a)
    BY <2>1, RollbackIs, AllocatesKept DEF JobParts
  <2>2. CASE End({a})
    BY <2>2, EndIs, AllocatesKept DEF JobParts
  <2>3. CASE stage' = [stage EXCEPT ![a] = "release"] /\ want' = want
    BY <2>3, AllocatesKept DEF JobParts, Typed
  <2>4. QED
    BY <1>7, <2>1, <2>2, <2>3 DEF StoreSpec
<1>8. ASSUME NEW a \in Activity, DeleteSpecs(a) PROVE AllocatesRandom'
  BY <1>8, EndIs, AllocatesKept DEF DeleteSpecs, JobParts
<1>9. ASSUME NEW a \in Activity, StoreFails(a) PROVE AllocatesRandom'
  <2>1. CASE Rollback(a)
    BY <2>1, RollbackIs, AllocatesKept DEF JobParts
  <2>2. CASE End({a})
    BY <2>2, EndIs, AllocatesKept DEF JobParts
  <2>3. CASE FailCall(a)
    BY <2>3, FailCallAllocates
  <2>4. QED
    BY <1>9, <2>1, <2>2, <2>3 DEF StoreFails
<1>12. ASSUME NEW a \in Activity, AnswerLost(a) PROVE AllocatesRandom'
  <2>1. CASE Rollback(a)
    BY <2>1, RollbackIs, AllocatesKept DEF JobParts
  <2>2. CASE End({a})
    BY <2>2, EndIs, AllocatesKept DEF JobParts
  <2>3. QED
    BY <1>12, <2>1, <2>2 DEF AnswerLost
<1>10. ASSUME NEW h \in Host, Crash(h) PROVE AllocatesRandom'
  <2>1. \E s : End(s)
    BY <1>10 DEF Crash
  <2>2. QED
    BY <2>1, EndIs, AllocatesKept DEF JobParts
<1>11. QED
  BY <1>1, <1>2, <1>3, <1>4, <1>5, <1>6, <1>7, <1>8, <1>9, <1>10, <1>12 DEF Next, Begin, Step

(* A stored port of an instance that nobody deletes is a claim.            *)
LEMMA StoredIsClaimed ==
  ASSUME JobParts, NEW i \in Instance, NEW p \in PortsOf(spec[i]),
         \A a \in Activity : stage[a] = "delete" => i \notin job[a].target
  PROVE  Claims(i, p)
<1>1. version[i] = 0 => PortsOf(spec[i]) = {}
  BY DEF JobParts, GoneIsUnset, Unset, PortsOf
<1>2. version[i] # 0 => version[i] > 0
  BY DEF JobParts, Typed
<1>3. QED
  BY <1>1, <1>2 DEF Claims

LEMMA ReconcileOwn ==
  ASSUME Exclusive, JobParts, OwnParts, ClaimParts, NEW a \in Activity,
         NEW i \in Instance, NEW req \in Requests[i], Reconcile(a, i, req)
  PROVE  OwnParts'
<1> DEFINE w == CopySettingsFrom(spec[i], req)
<1>1. /\ stage[a] = "idle" /\ ~Deleting(i)
      /\ want'[a] = w /\ got[a] = {}
      /\ job'[a] = [host |-> HostOf[i], target |-> {i}, prev |-> spec[i], seen |-> version[i]]
      /\ \A b \in Activity : b # a =>
           stage'[b] = stage[b] /\ job'[b] = job[b] /\ want'[b] = want[b]
      /\ UNCHANGED <<spec, version, got, spoiled>>
  BY DEF Reconcile, JobParts, Typed, OwnParts, IdleHasNone, stored
<1>2. stage'[a] \in Reconciling
  BY DEF Reconcile, JobParts, Typed, AfterAllocation, Reconciling
<1>3. req \in [port : Explicit \cup {NoPort, Random}, patroni : Explicit \cup {NoPort, Random}]
  BY PortsAssumption
<1>4. spec[i] \in Settings
  BY DEF JobParts, Typed
<1>5. /\ w.port \in Drawn => w.port = spec[i].port
      /\ w.patroni \in Drawn => w.patroni = spec[i].patroni
  BY <1>3, PortsAssumption DEF CopySettingsFrom, ReconcilePort, Drawn
<1>6. w.port \in Drawn \ spoiled => w.port # w.patroni
  <2> SUFFICES ASSUME w.port \in Drawn \ spoiled, w.port = w.patroni PROVE FALSE
    OBVIOUS
  <2>1. spec[i].port = w.port /\ spec[i].patroni = w.port
    BY <1>5
  <2> HIDE DEF w
  <2>2. w.port \in PortsOf(spec[i])
    BY <2>1, PortsAssumption DEF PortsOf, Drawn
  <2>3. Claims(i, w.port)
    BY <1>1, <2>2, StoredIsClaimed DEF Deleting
  <2>4. QED
    BY <2>1, <2>3 DEF ClaimParts, OneClaim
<1> HIDE DEF w
<1>7. WantsOwn(a)'
  BY <1>1, <1>5, <1>6, PortsAssumption DEF WantsOwn, JobParts, Typed
<1>8. WantsItsOwn'
  <2> SUFFICES ASSUME NEW b \in Activity, stage'[b] \in Reconciling, b # a PROVE WantsOwn(b)'
    BY <1>7 DEF WantsItsOwn
  <2>1. WantsOwn(b)
    BY <1>1 DEF OwnParts, WantsItsOwn
  <2>2. QED
    BY <1>1, <2>1, WantsOwnKept
<1>9. IdleHasNone'
  BY <1>1, <1>2 DEF OwnParts, IdleHasNone, Reconciling
<1>10. QED
  BY <1>8, <1>9 DEF OwnParts

LEMMA DeleteOwn ==
  ASSUME JobParts, OwnParts, NEW a \in Activity, NEW s, NEW h, Delete(a, s, h)
  PROVE  OwnParts'
<1>1. /\ stage'[a] = "clear"
      /\ \A b \in Activity : b # a => stage'[b] = stage[b] /\ job'[b] = job[b]
      /\ UNCHANGED <<spec, version, want, got, spoiled>>
  BY DEF Delete, JobParts, Typed, stored
<1>2. IdleHasNone'
  BY <1>1 DEF OwnParts, IdleHasNone
<1>3. WantsItsOwn'
  BY <1>1, WantsKept DEF OwnParts, Reconciling
<1>4. QED
  BY <1>2, <1>3 DEF OwnParts

LEMMA AllocateOwn ==
  ASSUME JobParts, OwnParts, AllocatesRandom, ClaimParts, NEW a \in Activity, AllocatePort(a)
  PROVE  OwnParts'
<1>1. PICK p \in (Range \ copy[a]) \ Busy, skipped \in SUBSET ((Range \cap Busy) \ copy[a]) :
           /\ Update(a, copy[a] \cup skipped \cup {p})
           /\ want' = [want EXCEPT ![a] = Assigned(want[a], p)]
           /\ got' = [got EXCEPT ![a] = got[a] \cup {p}]
           /\ stage' = [stage EXCEPT ![a] = AfterAllocation(Assigned(want[a], p))]
           /\ Assigned(want[a], p) \in WantType
  BY AllocateIs DEF JobParts
<1> DEFINE w == Assigned(want[a], p)
<1>2. /\ want'[a] = w /\ got'[a] = got[a] \cup {p}
      /\ \A b \in Activity : b # a =>
           stage'[b] = stage[b] /\ got'[b] = got[b] /\ want'[b] = want[b]
  BY <1>1 DEF JobParts, Typed
<1>3. /\ stage[a] = "allocate"
      /\ UNCHANGED <<spec, version, job, spoiled>>
  BY DEF AllocatePort
<1>4. stage'[a] \in Reconciling
  BY <1>1 DEF AfterAllocation, Reconciling, JobParts, Typed
<1>5. p \in Range \ marked /\ p # NoPort
  BY <1>1, PortsAssumption DEF Update, JobParts, CopyIsStored
<1>6. WantsOwn(a) /\ (want[a].port = Random \/ want[a].patroni = Random)
  BY <1>3 DEF OwnParts, WantsItsOwn, AllocatesRandom, Reconciling
<1>7. \/ want[a].port = Random /\ w.port = p /\ w.patroni = want[a].patroni
      \/ want[a].patroni = Random /\ w.port = want[a].port /\ w.patroni = p
  BY <1>6 DEF Assigned
<1>8. got[a] \subseteq Range /\ Random \notin Range
  BY PortsAssumption DEF JobParts, Typed
<1> HIDE DEF w
<1>9. got[a] \cup {p} \subseteq PortsOf(w)
  BY <1>5, <1>6, <1>7, <1>8 DEF WantsOwn, PortsOf
<1>10. /\ w.port \in Drawn => w.port \in (got[a] \cup {p}) \cup {job[a].prev.port}
       /\ w.patroni \in Drawn => w.patroni \in (got[a] \cup {p}) \cup {job[a].prev.patroni}
  BY <1>6, <1>7 DEF WantsOwn
<1>11. ASSUME NEW i \in job[a].target, version[i] = job[a].seen, p \in Drawn \ spoiled
       PROVE  p \notin got[a] /\ p \notin PortsOf(job[a].prev)
  <2>1. i \in Instance /\ spec[i] = job[a].prev
    BY <1>6, <1>11 DEF WantsOwn, JobParts, Typed, JobType
  <2>2. InHand(a) = got[a]
    BY <1>3, InHandIs DEF Reconciling
  <2>3. p \notin got[a]
    BY <1>5, <1>11, <2>2 DEF ClaimParts, ClaimedIsMarked
  <2>4. \A b \in Activity : stage[b] = "delete" => i \notin job[b].target
    BY <1>3 DEF JobParts, DeletesAlone, Deletes
  <2>5. ~Claims(i, p)
    BY <1>5, <1>11, <2>1 DEF ClaimParts, ClaimedIsMarked
  <2>6. p \notin PortsOf(spec[i])
    BY <2>1, <2>4, <2>5, StoredIsClaimed
  <2>7. QED
    BY <2>1, <2>3, <2>6
<1>12. ASSUME NEW i \in job[a].target, version[i] = job[a].seen
       PROVE  spec[i] = job[a].prev /\ (w.port \in Drawn \ spoiled => w.port # w.patroni)
  <2>1. spec[i] = job[a].prev
    BY <1>6, <1>12 DEF WantsOwn
  <2>2. ASSUME w.port \in Drawn \ spoiled, w.port = w.patroni PROVE FALSE
    <3>1. w.port = p
      BY <1>7, <2>2
    <3>2. p \notin got[a] /\ p \notin PortsOf(job[a].prev)
      BY <1>11, <1>12, <2>2, <3>1
    <3>3. p \in got[a] \/ p \in {job[a].prev.port, job[a].prev.patroni}
      BY <1>5, <1>6, <1>7, <2>2, <3>1 DEF WantsOwn
    <3>4. QED
      BY <1>5, <3>2, <3>3 DEF PortsOf
  <2>3. QED
    BY <2>1, <2>2
<1>13. \A i \in job[a].target : job[a].seen <= version[i]
  BY <1>6 DEF WantsOwn
<1>14. WantsOwn(a)'
  BY <1>2, <1>3, <1>9, <1>10, <1>12, <1>13 DEF WantsOwn, PortsOf
<1>15. WantsItsOwn'
  <2> SUFFICES ASSUME NEW b \in Activity, stage'[b] \in Reconciling, b # a PROVE WantsOwn(b)'
    BY <1>14 DEF WantsItsOwn
  <2>1. WantsOwn(b)
    BY <1>2 DEF OwnParts, WantsItsOwn
  <2>2. QED
    BY <1>2, <1>3, <2>1, WantsOwnKept
<1>16. IdleHasNone'
  BY <1>2, <1>4 DEF OwnParts, IdleHasNone, Reconciling
<1>17. QED
  BY <1>15, <1>16 DEF OwnParts
----------------------------------------------------------------------------
(* The inductive invariant and what follows from it.                       *)

InvParts == JobParts /\ OwnParts /\ AllocatesRandom /\ ClaimParts

LEMMA InvPartsAre == IInv <=> InvParts
BY JobPartsAre DEF IInv, InvParts, OwnParts, ClaimParts

LEMMA InvInit == Init => InvParts
<1> SUFFICES ASSUME Init PROVE InvParts
  OBVIOUS
<1>1. JobParts
  BY TypeInit, JobInit, TypesAre DEF JobParts, JobRest, TypeInv
<1>2. OwnParts /\ AllocatesRandom
  BY DEF Init, OwnParts, IdleHasNone, WantsItsOwn, AllocatesRandom, Reconciling
<1>3. \A a \in Activity : InHand(a) = {}
  BY InHandIs DEF Init, Reconciling
<1>4. \A i \in Instance : \A p : ~Claims(i, p)
  BY DEF Init, Claims
<1>5. ClaimParts
  BY <1>3, <1>4 DEF Init, ClaimParts, OneClaim, ClaimedIsMarked, MarkedIsClaimed
<1>6. QED
  BY <1>1, <1>2, <1>5 DEF InvParts

LEMMA InvStep ==
  ASSUME Exclusive, InvParts, [Next]_vars PROVE InvParts'
<1>0. JobParts /\ OwnParts /\ WantsItsOwn /\ IdleHasNone /\ AllocatesRandom /\ ClaimParts
  BY DEF InvParts, OwnParts
<1> DEFINE Rest == JobRest' /\ OwnParts' /\ ClaimParts'
<1>1. Typed' /\ StoreReady'
  <2>1. TypeInv
    BY <1>0, TypesAre DEF JobParts, TypeInv
  <2>2. TypeInv'
    BY <2>1, TypeStep
  <2>3. QED
    BY <2>2 DEF TypeInv, TypeOK, Typed, AnyPort, WantType, JobType, CopyType
<1>2. CASE UNCHANGED vars
  <2>1. UNCHANGED <<marked, current, spec, version, stage, job, want, got, todo, copy, lost, spoiled>>
    BY <1>2 DEF vars, stored, local
  <2>2. JobRest'
    BY <1>0, <2>1 DEF JobParts, JobRest, CopyIsStored, InCall, DeletesAlone, GoneIsUnset, TodoIsRight
  <2>3. AllocatesRandom' /\ OwnParts' /\ ClaimParts'
    BY <1>0, <2>1, StillOwn, StillClaims, AllocatesKept
  <2>4. QED
    BY <1>1, <2>2, <2>3 DEF InvParts, JobParts, JobRest
<1>3. ASSUME NEW a \in Activity, NEW i \in Instance, NEW req \in Requests[i], Reconcile(a, i, req)
      PROVE  Rest
  BY <1>0, <1>3, ReconcileJobs, ReconcileOwn, ReconcileClaims
<1>4. ASSUME NEW a \in Activity, NEW s \in {{i} : i \in Instance} \cup Databases,
             NEW h \in Host, Delete(a, s, h)
      PROVE  Rest
  <2>1. s \in SUBSET Instance
    BY PortsAssumption
  <2>2. QED
    BY <1>0, <1>4, <2>1, DeleteJobs, DeleteOwn, DeleteClaims
<1>5. ASSUME NEW a \in Activity, RestoreAllocator(a) PROVE Rest
  <2>1. UNCHANGED <<marked, spec, version, stage, job, want, got, todo, lost, spoiled>>
    BY <1>5 DEF RestoreAllocator
  <2>2. QED
    BY <1>0, <1>5, <2>1, RestoreJobs, StillOwn, StillClaims
<1>6. ASSUME NEW a \in Activity, AllocatePort(a) PROVE Rest
  BY <1>0, <1>6, AllocateJobs, AllocateOwn, AllocateClaims
<1>7. ASSUME NEW a \in Activity, ReleasePort(a) PROVE Rest
  BY <1>0, <1>7, ReleaseJobs, ReleaseOwn, ReleaseClaims
<1>8. ASSUME NEW a \in Activity, RangeFull(a) PROVE Rest
  <2>1. FailCall(a) /\ UNCHANGED <<marked, spec, version>>
    BY <1>8 DEF RangeFull
  <2>2. GoneIsUnset'
    BY <1>0, <2>1 DEF JobParts, GoneIsUnset
  <2>3. QED
    BY <1>0, <2>1, <2>2, FailCallKeeps, FailCallOwn, FailCallClaims DEF JobRest
<1>9. ASSUME NEW a \in Activity, Conflict(a) PROVE Rest
  <2>1. JobRest' /\ UNCHANGED <<marked, spec, version>>
    BY <1>0, <1>9, ConflictJobs DEF Conflict
  <2>2. CASE FailCall(a)
    BY <1>0, <2>1, <2>2, FailCallOwn, FailCallClaims
  <2>3. CASE UNCHANGED <<current, stage, job, want, got, todo, lost, spoiled>>
    BY <1>0, <2>1, <2>3, StillOwn, StillClaims
  <2>4. QED
    BY <1>9, <2>2, <2>3 DEF Conflict
<1>10. ASSUME NEW a \in Activity, StoreSpec(a) PROVE Rest
  BY <1>0, <1>10, StoreSpecJobs, StoreSpecOwn, StoreSpecClaims
<1>11. ASSUME NEW a \in Activity, DeleteSpecs(a) PROVE Rest
  BY <1>0, <1>11, DeleteSpecsJobs, DeleteSpecsOwn, DeleteSpecsClaims
<1>12. ASSUME NEW a \in Activity, StoreFails(a) PROVE Rest
  BY <1>0, <1>12, StoreFailsJobs, StoreFailsOwn, StoreFailsClaims
<1>16. ASSUME NEW a \in Activity, AnswerLost(a) PROVE Rest
  BY <1>0, <1>16, AnswerLostJobs, AnswerLostOwn, AnswerLostClaims
<1>13. ASSUME NEW h \in Host, Crash(h) PROVE Rest
  BY <1>0, <1>13, CrashJobs, CrashOwn, CrashClaims
<1>14. CASE Next
  <2>1. Rest
    BY <1>3, <1>4, <1>5, <1>6, <1>7, <1>8, <1>9, <1>10, <1>11, <1>12, <1>13, <1>14, <1>16
       DEF Next, Begin, Step
  <2>2. AllocatesRandom'
    BY <1>0, <1>14, AllocatesStep
  <2>3. QED
    BY <1>1, <2>1, <2>2 DEF InvParts, JobParts, JobRest
<1>15. QED
  BY <1>2, <1>14

LEMMA Invariance == Exclusive /\ Spec => []InvParts
<1> SUFFICES ASSUME Exclusive PROVE Spec => []InvParts
  OBVIOUS
<1>1. InvParts /\ [Next]_vars => InvParts'
  BY InvStep
<1>2. QED
  BY <1>1, InvInit, PTL DEF Spec

LEMMA LiveClaims ==
  ASSUME JobParts, NEW i \in Live, NEW p \in PortsOf(spec[i])
  PROVE  i \in Instance /\ Claims(i, p)
BY StoredIsClaimed DEF Live

(* No two instances own the same random port, for any number of activities,*)
(* hosts and instances behind one address, whatever fails, is retried or   *)
(* dies, provided that nothing works on an instance that is being deleted  *)
(* (OneOperation of Lifecycle).  Ports that specifications name are none of*)
(* the random ones, wherever they lie (AllocatePort, ReleasePort,          *)
(* ReconcileInstanceSpec).                                                 *)
THEOREM UniquePortsHolds == Exclusive /\ Spec => []UniquePorts
<1>1. InvParts => UniquePorts
  <2> SUFFICES ASSUME InvParts, NEW i \in Live, NEW j \in Live, NEW p \in Shared(i, j), p \notin spoiled
               PROVE  FALSE
    BY DEF UniquePorts
  <2>1. JobParts /\ OneClaim
    BY DEF InvParts, ClaimParts
  <2>2. p \in Drawn /\ p # NoPort
    BY PortsAssumption DEF Shared, Drawn
  <2>3. CASE i = j
    <3>1. spec[i].port = p /\ spec[i].patroni = p
      BY <2>3 DEF Shared
    <3>2. p \in PortsOf(spec[i])
      BY <2>2, <3>1 DEF PortsOf
    <3>3. i \in Instance /\ Claims(i, p)
      BY <2>1, <3>2, LiveClaims
    <3>4. QED
      BY <2>1, <2>2, <3>1, <3>3 DEF OneClaim
  <2>4. CASE i # j
    <3>1. p \in PortsOf(spec[i]) /\ p \in PortsOf(spec[j])
      BY <2>4 DEF Shared
    <3>2. i \in Instance /\ Claims(i, p) /\ j \in Instance /\ Claims(j, p)
      BY <2>1, <3>1, LiveClaims
    <3>3. QED
      BY <2>1, <2>2, <2>4, <3>2 DEF OneClaim
  <2>5. QED
    BY <2>3, <2>4
<1>2. QED
  BY <1>1, Invariance, PTL

(* The bitmap and the specifications agree, under the same conditions: what*)
(* a stored specification or an activity relies on is marked, and what is  *)
(* marked is owned, about to be released, bound by a foreign process or    *)
(* lost to a fault (rollback and releasePreviousSpecPorts of               *)
(* database/service.go).                                                   *)
THEOREM MarkedMeansOwnedHolds == Exclusive /\ Spec => []MarkedMeansOwned
<1>1. InvParts => OwnedIsMarked
  <2> SUFFICES ASSUME InvParts PROVE OwnedIsMarked
    OBVIOUS
  <2>1. JobParts /\ ClaimedIsMarked
    BY DEF InvParts, ClaimParts
  <2>2. \A i \in Live : (PortsOf(spec[i]) \cap Drawn) \ spoiled \subseteq marked
    BY <2>1, LiveClaims DEF ClaimedIsMarked
  <2>3. ASSUME NEW a \in Activity, stage[a] \in {"allocate", "store"}
        PROVE  (got[a] \cap Drawn) \ spoiled \subseteq marked
    <3>1. InHand(a) = got[a] /\ got[a] \subseteq Range
      BY <2>1, <2>3, InHandIs DEF Reconciling, JobParts, Typed
    <3>2. QED
      BY <2>1, <3>1 DEF ClaimedIsMarked
  <2>4. QED
    BY <2>2, <2>3 DEF OwnedIsMarked
<1>2. InvParts => NoLeak
  <2> SUFFICES ASSUME InvParts, NEW p \in marked, p \notin Busy \cup lost
               PROVE  \/ p \in UNION {PortsOf(spec[i]) : i \in {j \in Instance : version[j] > 0}}
                      \/ p \in UNION {InHand(a) : a \in Activity}
    BY DEF NoLeak
  <2>1. \/ \E i \in Instance : Claims(i, p)
        \/ \E a \in Activity : p \in InHand(a)
    BY DEF InvParts, ClaimParts, MarkedIsClaimed
  <2>2. CASE \E i \in Instance : Claims(i, p)
    BY <2>2 DEF Claims
  <2>3. CASE \E a \in Activity : p \in InHand(a)
    BY <2>3
  <2>4. QED
    BY <2>1, <2>2, <2>3
<1>3. InvParts => MarkedMeansOwned
  BY <1>1, <1>2 DEF MarkedMeansOwned
<1>4. QED
  BY <1>3, Invariance, PTL
=============================================================================
