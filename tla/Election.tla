------------------------------ MODULE Election ------------------------------
(***************************************************************************)
(* Leader election over one etcd key (server/internal/election).           *)
(*                                                                         *)
(* Every candidate owns a mutex c.mu.  The goroutines of a candidate (the  *)
(* ticker loop, the watch loop and the callers of Start and Stop) take it  *)
(* for one whole check or release; between two requests to etcd the        *)
(* goroutine holds the mutex but the rest of the cluster moves on, so each *)
(* request is a step of its own.  pc[c] = "idle" means that c.mu is free.  *)
(*                                                                         *)
(* The storage layer compares the etcd *Version* of the key, a per-key     *)
(* counter that etcd restarts at 1 whenever the key is created again       *)
(* (storage/put.go, storage/delete.go).                                    *)
(***************************************************************************)
EXTENDS Naturals, FiniteSets

CONSTANTS
    Candidate,   \* the candidate ids (the host ids, see migrate/provide.go)
    NoOne,       \* "no leader": the claim's key does not exist
    MaxVersion,  \* bound: a claim is not renewed beyond this key version
    MaxFaults,   \* bound: number of failed etcd requests in a behaviour
    Punctual     \* TRUE: a renewal is applied, retried if need be, within the TTL

ASSUME NoOneAssumption    == NoOne \notin Candidate
ASSUME MaxVersionIsNat    == MaxVersion \in Nat \ {0}
ASSUME MaxFaultsIsNat     == MaxFaults \in Nat
ASSUME PunctualIsBoolean  == Punctual \in BOOLEAN

VARIABLES
    claim,     \* the stored election: its leader and the version of its key
    running,   \* c.running
    isLeader,  \* c.isLeader
    looping,   \* state of the ticker goroutine: "off", "live" or "blocked"
    watching,  \* the watch of the claim is open
    notified,  \* a delete event of the claim waits in the watch
    queued,    \* the goroutines of c that wait for c.mu to check the claim
    op,        \* the operation that holds c.mu
    pc,        \* the next request of that operation
    curr,      \* the claim that the operation read
    tries,     \* iterations of checkClaim's loop so far
    errCh,     \* errors buffered in c.errCh (capacity 1)
    faults     \* failed requests so far

vars == <<claim, running, isLeader, looping, watching, notified, queued, op,
          pc, curr, tries, errCh, faults>>

maxRetries == 3

Claim   == [leader : Candidate \cup {NoOne}, ver : Nat]
NoClaim == [leader |-> NoOne, ver |-> 0]

TypeOK ==
    /\ claim \in Claim
    /\ running \in [Candidate -> BOOLEAN]
    /\ isLeader \in [Candidate -> BOOLEAN]
    /\ looping \in [Candidate -> {"off", "live", "blocked"}]
    /\ watching \in [Candidate -> BOOLEAN]
    /\ notified \in [Candidate -> BOOLEAN]
    /\ queued \in [Candidate -> SUBSET {"tick", "watch"}]
    /\ op \in [Candidate -> {"none", "start", "stop", "tick", "watch"}]
    /\ pc \in [Candidate -> {"idle", "get", "create", "update", "watch",
                            "relGet", "relDelete"}]
    /\ curr \in [Candidate -> Claim]
    /\ tries \in [Candidate -> 0 .. maxRetries]
    /\ errCh \in [Candidate -> 0 .. 1]
    /\ faults \in 0 .. MaxFaults

Init ==
    /\ claim = NoClaim
    /\ running = [c \in Candidate |-> FALSE]
    /\ isLeader = [c \in Candidate |-> FALSE]
    /\ looping = [c \in Candidate |-> "off"]
    /\ watching = [c \in Candidate |-> FALSE]
    /\ notified = [c \in Candidate |-> FALSE]
    /\ queued = [c \in Candidate |-> {}]
    /\ op = [c \in Candidate |-> "none"]
    /\ pc = [c \in Candidate |-> "idle"]
    /\ curr = [c \in Candidate |-> NoClaim]
    /\ tries = [c \in Candidate |-> 0]
    /\ errCh = [c \in Candidate |-> 0]
    /\ faults = 0

-----------------------------------------------------------------------------
(***************************************************************************)
(* Helpers                                                                 *)
(***************************************************************************)

\* The key is gone: every open watch will see a delete event.
DeleteClaim ==
    /\ claim' = NoClaim
    /\ notified' = [d \in Candidate |-> notified[d] \/ watching[d]]

\* Mutant of SameVersion: compares with the version after the read one.
MutSameVersion(c) == claim.ver = curr[c].ver + 1

\* etcd's answer to "version = v?" is about the version the key has now.
SameVersion(c) == claim.ver = curr[c].ver

\* The operation of c returns without an error and unlocks c.mu.
Unlock(c) ==
    /\ pc' = [pc EXCEPT ![c] = "idle"]
    /\ op' = [op EXCEPT ![c] = "none"]
    /\ tries' = [tries EXCEPT ![c] = 0]
    /\ curr' = [curr EXCEPT ![c] = NoClaim]
    /\ UNCHANGED <<running, looping, errCh>>

\* checkClaim returns nil.  Start goes on, still holding c.mu: it launches the
\* ticker goroutine, sets running and opens the watch.
CheckDone(c) ==
    /\ UNCHANGED watching
    /\ IF op[c] = "start"
       THEN /\ running' = [running EXCEPT ![c] = TRUE]
            /\ looping' = [looping EXCEPT ![c] = "live"]
            /\ pc' = [pc EXCEPT ![c] = "watch"]
            /\ tries' = [tries EXCEPT ![c] = 0]
            /\ curr' = [curr EXCEPT ![c] = NoClaim]
            /\ UNCHANGED <<op, errCh>>
       ELSE Unlock(c)

\* The operation of c returns an error.  The caller of Start or Stop gets it;
\* the ticker goroutine sends it to c.errCh and blocks there when the buffer
\* is full; the watch loop closes the watch and reports it.
ReturnError(c) ==
    /\ pc' = [pc EXCEPT ![c] = "idle"]
    /\ op' = [op EXCEPT ![c] = "none"]
    /\ tries' = [tries EXCEPT ![c] = 0]
    /\ curr' = [curr EXCEPT ![c] = NoClaim]
    /\ errCh' = [errCh EXCEPT ![c] = IF op[c] \in {"tick", "watch"} THEN 1 ELSE @]
    /\ looping' = [looping EXCEPT ![c] =
                     IF op[c] = "tick" /\ errCh[c] = 1 THEN "blocked" ELSE @]
    /\ watching' = [watching EXCEPT ![c] = @ /\ op[c] # "watch"]
    /\ UNCHANGED running

Fault ==
    /\ faults < MaxFaults
    /\ faults' = faults + 1

-----------------------------------------------------------------------------
(***************************************************************************)
(* The goroutines that ask for c.mu                                        *)
(***************************************************************************)

\* Start: a running candidate returns at once.
Start(c) ==
    /\ pc[c] = "idle"
    /\ ~running[c]
    /\ op' = [op EXCEPT ![c] = "start"]
    /\ pc' = [pc EXCEPT ![c] = "get"]
    /\ tries' = [tries EXCEPT ![c] = 1]
    /\ UNCHANGED <<claim, running, isLeader, looping, watching, notified, queued,
                   curr, errCh, faults>>

\* Mutant of Tick: only the leader keeps ticking.
MutTick(c) ==
    /\ isLeader[c]
    /\ looping[c] = "live"
    /\ "tick" \notin queued[c]
    /\ op[c] # "tick"
    /\ queued' = [queued EXCEPT ![c] = @ \cup {"tick"}]
    /\ UNCHANGED <<claim, running, isLeader, looping, watching, notified, op, pc,
                   curr, tries, errCh, faults>>

\* The ticker goroutine picks ticker.C.  When done is closed too, select may
\* still pick the tick, so the guard does not ask for running[c].
Tick(c) ==
    /\ looping[c] = "live"
    /\ "tick" \notin queued[c]
    /\ op[c] # "tick"
    /\ queued' = [queued EXCEPT ![c] = @ \cup {"tick"}]
    /\ UNCHANGED <<claim, running, isLeader, looping, watching, notified, op, pc,
                   curr, tries, errCh, faults>>

\* The ticker goroutine picks the closed done channel and exits.
LoopExit(c) ==
    /\ looping[c] = "live"
    /\ ~running[c]
    /\ op[c] \notin {"tick", "start"}
    /\ "tick" \notin queued[c]
    /\ looping' = [looping EXCEPT ![c] = "off"]
    /\ UNCHANGED <<claim, running, isLeader, watching, notified, queued, op, pc,
                   curr, tries, errCh, faults>>

\* The watch loop delivers a delete event of the claim to its handler.
WatchDelete(c) ==
    /\ watching[c]
    /\ notified[c]
    /\ "watch" \notin queued[c]
    /\ op[c] # "watch"
    /\ notified' = [notified EXCEPT ![c] = FALSE]
    /\ queued' = [queued EXCEPT ![c] = @ \cup {"watch"}]
    /\ UNCHANGED <<claim, running, isLeader, looping, watching, op, pc, curr,
                   tries, errCh, faults>>

\* lockAndCheckClaim: one of the waiting goroutines gets the mutex.
LockAndCheckClaim(c) ==
    /\ pc[c] = "idle"
    /\ \E g \in queued[c] :
         /\ op' = [op EXCEPT ![c] = g]
         /\ queued' = [queued EXCEPT ![c] = @ \ {g}]
    /\ pc' = [pc EXCEPT ![c] = "get"]
    /\ tries' = [tries EXCEPT ![c] = 1]
    /\ UNCHANGED <<claim, running, isLeader, looping, watching, notified, curr,
                   errCh, faults>>

\* The owner of the candidate receives from Error().
ReadError(c) ==
    /\ errCh[c] = 1
    /\ errCh' = [errCh EXCEPT ![c] = IF looping[c] = "blocked" THEN 1 ELSE 0]
    /\ looping' = [looping EXCEPT ![c] = IF @ = "blocked" THEN "live" ELSE @]
    /\ UNCHANGED <<claim, running, isLeader, watching, notified, queued, op, pc,
                   curr, tries, faults>>

-----------------------------------------------------------------------------
(***************************************************************************)
(* checkClaim and attemptClaim                                             *)
(***************************************************************************)

\* Mutant of CheckGet: does not clear isLeader when someone else leads.
MutCheckGet(c) ==
    /\ pc[c] = "get"
    /\ \/ /\ claim = NoClaim
          /\ pc' = [pc EXCEPT ![c] = "create"]
          /\ UNCHANGED <<running, isLeader, looping, watching, op, curr, tries, errCh>>
       \/ /\ claim.leader \notin {NoOne, c}
          /\ CheckDone(c)
          /\ UNCHANGED isLeader
       \/ /\ claim.leader = c
          /\ isLeader' = [isLeader EXCEPT ![c] = TRUE]
          /\ curr' = [curr EXCEPT ![c] = claim]
          /\ pc' = [pc EXCEPT ![c] = "update"]
          /\ UNCHANGED <<running, looping, watching, op, tries, errCh>>
    /\ UNCHANGED <<claim, notified, queued, faults>>

\* GetByKey: no claim, someone else's claim, or our own.
CheckGet(c) ==
    /\ pc[c] = "get"
    /\ \/ /\ claim = NoClaim
          /\ pc' = [pc EXCEPT ![c] = "create"]
          /\ UNCHANGED <<running, isLeader, looping, watching, op, curr, tries, errCh>>
       \/ /\ claim.leader \notin {NoOne, c}
          /\ isLeader' = [isLeader EXCEPT ![c] = FALSE]
          /\ CheckDone(c)
       \/ /\ claim.leader = c
          /\ isLeader' = [isLeader EXCEPT ![c] = TRUE]
          /\ curr' = [curr EXCEPT ![c] = claim]
          /\ pc' = [pc EXCEPT ![c] = "update"]
          /\ UNCHANGED <<running, looping, watching, op, tries, errCh>>
    /\ UNCHANGED <<claim, notified, queued, faults>>

\* attemptClaim: create the key if it does not exist, start the handlers.
AttemptClaim(c) ==
    /\ pc[c] = "create"
    /\ \/ /\ claim = NoClaim
          /\ claim' = [leader |-> c, ver |-> 1]
          /\ isLeader' = [isLeader EXCEPT ![c] = TRUE]
       \/ /\ claim # NoClaim
          /\ isLeader' = [isLeader EXCEPT ![c] = FALSE]
          /\ UNCHANGED claim
    /\ CheckDone(c)
    /\ UNCHANGED <<notified, queued, faults>>

\* Update(curr): the value written back is the one that was read, so the
\* leader becomes c whoever holds the key at that version.
RefreshClaim(c) ==
    /\ pc[c] = "update"
    /\ SameVersion(c)
    /\ claim.ver < MaxVersion
    /\ claim' = [leader |-> c, ver |-> claim.ver + 1]
    /\ CheckDone(c)
    /\ UNCHANGED <<isLeader, notified, queued, faults>>

\* ErrValueVersionMismatch: read again, at most maxRetries times.
RefreshMismatch(c) ==
    /\ pc[c] = "update"
    /\ ~SameVersion(c)
    /\ IF tries[c] < maxRetries
       THEN /\ tries' = [tries EXCEPT ![c] = @ + 1]
            /\ pc' = [pc EXCEPT ![c] = "get"]
            /\ curr' = [curr EXCEPT ![c] = NoClaim]
            /\ UNCHANGED <<op, running, looping, watching, errCh>>
       ELSE ReturnError(c)
    /\ UNCHANGED <<claim, isLeader, notified, queued, faults>>

\* The end of Start: load the watched key and open the watch.
OpenWatch(c) ==
    /\ pc[c] = "watch"
    /\ watching' = [watching EXCEPT ![c] = TRUE]
    /\ Unlock(c)
    /\ UNCHANGED <<claim, isLeader, notified, queued, faults>>

-----------------------------------------------------------------------------
(***************************************************************************)
(* Stop and release                                                        *)
(***************************************************************************)

\* Mutant of Stop: running is not cleared before the claim is released.
MutStop(c) ==
    /\ pc[c] = "idle"
    /\ running[c]
    /\ watching' = [watching EXCEPT ![c] = FALSE]
    /\ notified' = [notified EXCEPT ![c] = FALSE]
    /\ IF isLeader[c]
       THEN /\ op' = [op EXCEPT ![c] = "stop"]
            /\ pc' = [pc EXCEPT ![c] = "relGet"]
       ELSE UNCHANGED <<op, pc>>
    /\ UNCHANGED <<claim, running, isLeader, looping, queued, curr, tries, errCh, faults>>

Stop(c) ==
    /\ pc[c] = "idle"
    /\ running[c]
    /\ watching' = [watching EXCEPT ![c] = FALSE]
    /\ notified' = [notified EXCEPT ![c] = FALSE]
    /\ running' = [running EXCEPT ![c] = FALSE]
    /\ IF isLeader[c]
       THEN /\ op' = [op EXCEPT ![c] = "stop"]
            /\ pc' = [pc EXCEPT ![c] = "relGet"]
       ELSE UNCHANGED <<op, pc>>
    /\ UNCHANGED <<claim, isLeader, looping, queued, curr, tries, errCh, faults>>

ReleaseGet(c) ==
    /\ pc[c] = "relGet"
    /\ \/ /\ claim.leader # c
          /\ isLeader' = [isLeader EXCEPT ![c] = FALSE]
          /\ Unlock(c) /\ UNCHANGED watching
       \/ /\ claim.leader = c
          /\ curr' = [curr EXCEPT ![c] = claim]
          /\ pc' = [pc EXCEPT ![c] = "relDelete"]
          /\ UNCHANGED <<isLeader, running, looping, watching, op, tries, errCh>>
    /\ UNCHANGED <<claim, notified, queued, faults>>

\* Delete(curr): delete the key if it still has the version that was read.
ReleaseDelete(c) ==
    /\ pc[c] = "relDelete"
    /\ IF SameVersion(c) THEN DeleteClaim ELSE UNCHANGED <<claim, notified>>
    /\ isLeader' = [isLeader EXCEPT ![c] = FALSE]
    /\ Unlock(c)
    /\ UNCHANGED <<watching, queued, faults>>

-----------------------------------------------------------------------------
(***************************************************************************)
(* The environment                                                         *)
(***************************************************************************)

\* A request returns an error without having been applied.
RequestFails(c) ==
    /\ pc[c] # "idle"
    /\ Fault
    /\ ReturnError(c)
    /\ UNCHANGED <<claim, isLeader, notified, queued>>

\* A write is applied, but its answer is lost and the request times out.
AnswerLost(c) ==
    /\ Fault
    /\ \/ /\ pc[c] = "create" /\ claim = NoClaim
          /\ claim' = [leader |-> c, ver |-> 1]
          /\ UNCHANGED notified
       \/ /\ pc[c] = "update" /\ SameVersion(c) /\ claim.ver < MaxVersion
          /\ claim' = [leader |-> c, ver |-> claim.ver + 1]
          /\ UNCHANGED notified
       \/ /\ pc[c] = "relDelete" /\ SameVersion(c)
          /\ DeleteClaim
    /\ ReturnError(c)
    /\ UNCHANGED <<isLeader, queued>>

\* The lease of the claim runs out.  A punctual holder renews every ttl/3, and
\* one renewal in three is enough, so its lease only runs out once it has
\* neither a ticker nor an operation.
LeaseExpires ==
    /\ claim # NoClaim
    /\ Punctual => /\ ~running[claim.leader]
                   /\ pc[claim.leader] = "idle"
    /\ DeleteClaim
    /\ UNCHANGED <<running, isLeader, looping, watching, queued, op, pc, curr,
                   tries, errCh, faults>>

\* The process of c dies; it restarts with the same candidate id.
Crash(c) ==
    /\ running' = [running EXCEPT ![c] = FALSE]
    /\ isLeader' = [isLeader EXCEPT ![c] = FALSE]
    /\ looping' = [looping EXCEPT ![c] = "off"]
    /\ watching' = [watching EXCEPT ![c] = FALSE]
    /\ notified' = [notified EXCEPT ![c] = FALSE]
    /\ queued' = [queued EXCEPT ![c] = {}]
    /\ op' = [op EXCEPT ![c] = "none"]
    /\ pc' = [pc EXCEPT ![c] = "idle"]
    /\ curr' = [curr EXCEPT ![c] = NoClaim]
    /\ tries' = [tries EXCEPT ![c] = 0]
    /\ errCh' = [errCh EXCEPT ![c] = 0]
    /\ UNCHANGED <<claim, faults>>

-----------------------------------------------------------------------------

\* The next request of the operation that holds c.mu.
Request(c) ==
    \/ CheckGet(c) \/ AttemptClaim(c) \/ RefreshClaim(c) \/ RefreshMismatch(c)
    \/ OpenWatch(c) \/ ReleaseGet(c) \/ ReleaseDelete(c)

Next ==
    \/ \E c \in Candidate :
         \/ Start(c) \/ Tick(c) \/ LoopExit(c) \/ WatchDelete(c)
         \/ LockAndCheckClaim(c) \/ ReadError(c)
         \/ Request(c) \/ Stop(c)
         \/ RequestFails(c) \/ AnswerLost(c) \/ Crash(c)
    \/ LeaseExpires

Spec == Init /\ [][Next]_vars

\* Goroutines that can move do move; requests are answered; the owner reads
\* Error() (scheduler.Service.Start); a lease that is not renewed any more (the
\* claim keeps its version forever) runs out.  Go's select picks among the
\* ready channels at random, so a loop that is asked to stop over and over
\* picks done eventually.
Fairness ==
    /\ \A c \in Candidate :
         /\ SF_vars(Request(c))
         /\ WF_vars(Tick(c))
         /\ WF_vars(LockAndCheckClaim(c))
         /\ WF_vars(ReadError(c))
         /\ SF_vars(LoopExit(c))
    /\ \A c \in Candidate, v \in 1 .. MaxVersion :
         WF_vars(claim = [leader |-> c, ver |-> v] /\ LeaseExpires)

FairSpec == Spec /\ Fairness

-----------------------------------------------------------------------------
(***************************************************************************)
(* Properties                                                              *)
(***************************************************************************)

\* At most one candidate that takes part in the election believes that it is
\* the leader: what the scheduler (one host fires the jobs) and the migration
\* runner (one host migrates) rely on when they call IsLeader.
AtMostOneLeader ==
    \A c, d \in Candidate :
        running[c] /\ isLeader[c] /\ running[d] /\ isLeader[d] => c = d

\* After a version mismatch the claim that is read again is not ours: "it will
\* either not exist or it will belong to someone else".  Hence one retry is
\* enough and the error after maxRetries is never returned.
RefetchFindsOther ==
    \A c \in Candidate : tries[c] > 1 => claim.leader # c

\* The claim never passes from one candidate to another in one step: a
\* refresh or a release that read the claim before it expired fails with a
\* version mismatch ("Can happen if we caught the claim right before it
\* expired").
NoTakeover ==
    [][claim.leader # NoOne /\ claim'.leader # NoOne
         => claim'.leader = claim.leader]_vars

\* A candidate that was stopped (and is not being started) creates no claim:
\* "Stop ceases participation in the election, releases leadership if held,
\* and stops the asynchronous renewal process."
StoppedNeverClaims ==
    [][\A c \in Candidate :
         claim'.leader = c /\ claim.leader # c => running[c] \/ op[c] = "start"]_vars

\* A candidate that takes part and has lost its claim learns about it, by its
\* ticker or by the delete event, or gets the claim back.
StaleLeaderStepsDown ==
    \A c \in Candidate :
        (running[c] /\ isLeader[c] /\ claim.leader # c)
          ~> (~isLeader[c] \/ claim.leader = c \/ ~running[c])

\* As long as some candidate takes part, the election always comes back to a
\* claim held by a candidate that takes part, whatever expires or crashes.
Succession ==
    \A c \in Candidate :
        <>[]running[c] => []<>(claim.leader # NoOne /\ running[claim.leader])

-----------------------------------------------------------------------------
\* The claim as a user of the election sees it.
Abstract == INSTANCE Leadership
              WITH holder <- claim.leader,
                   leads <- [c \in Candidate |-> running[c] /\ isLeader[c]]

\* With punctual renewals the election keeps the promise of Leadership: every
\* step of every goroutine, fault, crash and expiry is a step of it or none.
ImplementsLeadership == Abstract!LeadSpec

=============================================================================
