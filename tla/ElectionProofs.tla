--------------------------- MODULE ElectionProofs ---------------------------
(***************************************************************************)
(* Proofs about Election, for any set of candidates and any bounds.        *)
(***************************************************************************)
EXTENDS Election, TLAPS

USE DEF maxRetries

-----------------------------------------------------------------------------
(***************************************************************************)
(* Type correctness                                                        *)
(***************************************************************************)

LEMMA NoClaimType == NoClaim \in Claim
  BY DEF NoClaim, Claim

LEMMA TypeInit == Init => TypeOK
  BY NoClaimType, MaxFaultsIsNat DEF Init, TypeOK

LEMMA UnlockType ==
  ASSUME TypeOK, NEW c \in Candidate, Unlock(c)
  PROVE  /\ pc' \in [Candidate -> {"idle", "get", "create", "update", "watch",
                                   "relGet", "relDelete"}]
         /\ op' \in [Candidate -> {"none", "start", "stop", "tick", "watch"}]
         /\ tries' \in [Candidate -> 0 .. maxRetries]
         /\ curr' \in [Candidate -> Claim]
         /\ running' \in [Candidate -> BOOLEAN]
         /\ looping' \in [Candidate -> {"off", "live", "blocked"}]
         /\ errCh' \in [Candidate -> 0 .. 1]
  BY NoClaimType DEF TypeOK, Unlock

LEMMA CheckDoneType ==
  ASSUME TypeOK, NEW c \in Candidate, CheckDone(c)
  PROVE  /\ pc' \in [Candidate -> {"idle", "get", "create", "update", "watch",
                                   "relGet", "relDelete"}]
         /\ op' \in [Candidate -> {"none", "start", "stop", "tick", "watch"}]
         /\ tries' \in [Candidate -> 0 .. maxRetries]
         /\ curr' \in [Candidate -> Claim]
         /\ running' \in [Candidate -> BOOLEAN]
         /\ looping' \in [Candidate -> {"off", "live", "blocked"}]
         /\ watching' \in [Candidate -> BOOLEAN]
         /\ errCh' \in [Candidate -> 0 .. 1]
<1>1. CASE op[c] = "start"
  <2>1. running' \in [Candidate -> BOOLEAN] /\ watching' \in [Candidate -> BOOLEAN]
    BY <1>1, Zenon DEF TypeOK, CheckDone
  <2>2. tries' \in [Candidate -> 0 .. maxRetries]
    BY <1>1 DEF TypeOK, CheckDone
  <2> QED  BY <1>1, <2>1, <2>2, NoClaimType DEF TypeOK, CheckDone
<1>2. CASE op[c] # "start"
  BY <1>2, UnlockType DEF TypeOK, CheckDone
<1> QED  BY <1>1, <1>2

LEMMA ReturnErrorType ==
  ASSUME TypeOK, NEW c \in Candidate, ReturnError(c)
  PROVE  /\ pc' \in [Candidate -> {"idle", "get", "create", "update", "watch",
                                   "relGet", "relDelete"}]
         /\ op' \in [Candidate -> {"none", "start", "stop", "tick", "watch"}]
         /\ tries' \in [Candidate -> 0 .. maxRetries]
         /\ curr' \in [Candidate -> Claim]
         /\ running' \in [Candidate -> BOOLEAN]
         /\ looping' \in [Candidate -> {"off", "live", "blocked"}]
         /\ watching' \in [Candidate -> BOOLEAN]
         /\ errCh' \in [Candidate -> 0 .. 1]
  BY NoClaimType DEF TypeOK, ReturnError

LEMMA DeleteClaimType ==
  ASSUME TypeOK, DeleteClaim
  PROVE  claim' \in Claim /\ notified' \in [Candidate -> BOOLEAN]
  BY NoClaimType DEF TypeOK, DeleteClaim

LEMMA TypeStep == TypeOK /\ [Next]_vars => TypeOK'
<1> SUFFICES ASSUME TypeOK, [Next]_vars PROVE TypeOK'
  OBVIOUS
<1>1. CASE UNCHANGED vars
  BY <1>1 DEF TypeOK, vars
<1>2. ASSUME NEW c \in Candidate, Start(c) PROVE TypeOK'
  BY <1>2 DEF TypeOK, Start
<1>3. ASSUME NEW c \in Candidate, Tick(c) PROVE TypeOK'
  BY <1>3 DEF TypeOK, Tick
<1>4. ASSUME NEW c \in Candidate, LoopExit(c) PROVE TypeOK'
  BY <1>4 DEF TypeOK, LoopExit
<1>5. ASSUME NEW c \in Candidate, WatchDelete(c) PROVE TypeOK'
  BY <1>5 DEF TypeOK, WatchDelete
<1>6. ASSUME NEW c \in Candidate, LockAndCheckClaim(c) PROVE TypeOK'
  BY <1>6 DEF TypeOK, LockAndCheckClaim
<1>7. ASSUME NEW c \in Candidate, ReadError(c) PROVE TypeOK'
  BY <1>7 DEF TypeOK, ReadError
<1>8. ASSUME NEW c \in Candidate, CheckGet(c) PROVE TypeOK'
  <2>1. CASE claim = NoClaim /\ pc' = [pc EXCEPT ![c] = "create"]
             /\ UNCHANGED <<running, isLeader, looping, watching, op, curr, tries, errCh>>
    BY <1>8, <2>1 DEF TypeOK, CheckGet
  <2>2. CASE isLeader' = [isLeader EXCEPT ![c] = FALSE] /\ CheckDone(c)
    BY <1>8, <2>2, CheckDoneType DEF TypeOK, CheckGet
  <2>3. CASE /\ isLeader' = [isLeader EXCEPT ![c] = TRUE]
             /\ curr' = [curr EXCEPT ![c] = claim]
             /\ pc' = [pc EXCEPT ![c] = "update"]
             /\ UNCHANGED <<running, looping, watching, op, tries, errCh>>
    BY <1>8, <2>3 DEF TypeOK, CheckGet
  <2> QED  BY <1>8, <2>1, <2>2, <2>3 DEF CheckGet
<1>9. ASSUME NEW c \in Candidate, AttemptClaim(c) PROVE TypeOK'
  <2>1. claim' \in Claim
    BY <1>9 DEF TypeOK, AttemptClaim, Claim
  <2> QED  BY <1>9, <2>1, CheckDoneType DEF TypeOK, AttemptClaim
<1>10. ASSUME NEW c \in Candidate, RefreshClaim(c) PROVE TypeOK'
  <2>1. claim' \in Claim
    BY <1>10 DEF TypeOK, RefreshClaim, Claim
  <2> QED  BY <1>10, <2>1, CheckDoneType DEF TypeOK, RefreshClaim
<1>11. ASSUME NEW c \in Candidate, RefreshMismatch(c) PROVE TypeOK'
  <2>1. CASE tries[c] < maxRetries
    BY <1>11, <2>1, NoClaimType DEF TypeOK, RefreshMismatch
  <2>2. CASE ~(tries[c] < maxRetries)
    BY <1>11, <2>2, ReturnErrorType DEF TypeOK, RefreshMismatch
  <2> QED  BY <2>1, <2>2
<1>12. ASSUME NEW c \in Candidate, OpenWatch(c) PROVE TypeOK'
  BY <1>12, UnlockType DEF TypeOK, OpenWatch
<1>13. ASSUME NEW c \in Candidate, Stop(c) PROVE TypeOK'
  BY <1>13 DEF TypeOK, Stop
<1>14. ASSUME NEW c \in Candidate, ReleaseGet(c) PROVE TypeOK'
  <2>1. CASE claim.leader # c
    BY <1>14, <2>1, UnlockType DEF TypeOK, ReleaseGet
  <2>2. CASE claim.leader = c
    BY <1>14, <2>2 DEF TypeOK, ReleaseGet
  <2> QED  BY <2>1, <2>2
<1>15. ASSUME NEW c \in Candidate, ReleaseDelete(c) PROVE TypeOK'
  BY <1>15, UnlockType, DeleteClaimType DEF TypeOK, ReleaseDelete
<1>16. ASSUME NEW c \in Candidate, RequestFails(c) PROVE TypeOK'
  BY <1>16, ReturnErrorType, MaxFaultsIsNat DEF TypeOK, RequestFails, Fault
<1>17. ASSUME NEW c \in Candidate, AnswerLost(c) PROVE TypeOK'
  <2>1. claim' \in Claim /\ notified' \in [Candidate -> BOOLEAN]
    BY <1>17, DeleteClaimType DEF TypeOK, AnswerLost, Claim
  <2> QED  BY <1>17, <2>1, ReturnErrorType, MaxFaultsIsNat
           DEF TypeOK, AnswerLost, Fault
<1>18. CASE LeaseExpires
  BY <1>18, DeleteClaimType DEF TypeOK, LeaseExpires
<1>19. ASSUME NEW c \in Candidate, Crash(c) PROVE TypeOK'
  BY <1>19, NoClaimType DEF TypeOK, Crash
<1> QED
  BY <1>1, <1>2, <1>3, <1>4, <1>5, <1>6, <1>7, <1>8, <1>9, <1>10, <1>11, <1>12,
     <1>13, <1>14, <1>15, <1>16, <1>17, <1>18, <1>19 DEF Next, Request

\* The variables of the candidates keep their types whatever expires, fails
\* or crashes; in particular c.errCh never holds more than its capacity.
THEOREM TypeCorrect == Spec => []TypeOK
  BY TypeInit, TypeStep, PTL DEF Spec

-----------------------------------------------------------------------------
(***************************************************************************)
(* What a re-read after a version mismatch finds.  Only c writes claims    *)
(* whose leader is c, and it does so while it holds c.mu; hence a claim of *)
(* c that exists when c sends a refresh is still the one that c has read.  *)
(***************************************************************************)

RefetchInv ==
    \A c \in Candidate :
        /\ tries[c] > 1 => claim.leader # c
        /\ pc[c] = "update" /\ claim.leader = c => claim.ver = curr[c].ver

LEMMA RefetchInit == Init => RefetchInv
  BY DEF Init, RefetchInv

LEMMA RefetchStep == TypeOK /\ RefetchInv /\ [Next]_vars => RefetchInv'
<1> SUFFICES ASSUME TypeOK, RefetchInv, [Next]_vars PROVE RefetchInv'
  OBVIOUS
<1>1. CASE UNCHANGED vars
  BY <1>1 DEF RefetchInv, vars
<1>2. ASSUME NEW c \in Candidate, Start(c) PROVE RefetchInv'
  BY <1>2, NoOneAssumption DEF TypeOK, RefetchInv, Claim, Start
<1>3. ASSUME NEW c \in Candidate, Tick(c) PROVE RefetchInv'
  BY <1>3, NoOneAssumption DEF TypeOK, RefetchInv, Claim, Tick
<1>4. ASSUME NEW c \in Candidate, LoopExit(c) PROVE RefetchInv'
  BY <1>4, NoOneAssumption DEF TypeOK, RefetchInv, Claim, LoopExit
<1>5. ASSUME NEW c \in Candidate, WatchDelete(c) PROVE RefetchInv'
  BY <1>5, NoOneAssumption DEF TypeOK, RefetchInv, Claim, WatchDelete
<1>6. ASSUME NEW c \in Candidate, LockAndCheckClaim(c) PROVE RefetchInv'
  BY <1>6, NoOneAssumption DEF TypeOK, RefetchInv, Claim, LockAndCheckClaim
<1>7. ASSUME NEW c \in Candidate, ReadError(c) PROVE RefetchInv'
  BY <1>7, NoOneAssumption DEF TypeOK, RefetchInv, Claim, ReadError
<1>8. ASSUME NEW c \in Candidate, CheckGet(c) PROVE RefetchInv'
  BY <1>8, NoOneAssumption DEF TypeOK, RefetchInv, Claim, CheckGet, CheckDone, Unlock
<1>9. ASSUME NEW c \in Candidate, AttemptClaim(c) PROVE RefetchInv'
  BY <1>9, NoOneAssumption DEF TypeOK, RefetchInv, Claim, AttemptClaim, CheckDone, Unlock, NoClaim
<1>10. ASSUME NEW c \in Candidate, RefreshClaim(c) PROVE RefetchInv'
  BY <1>10, NoOneAssumption DEF TypeOK, RefetchInv, Claim, RefreshClaim, CheckDone, Unlock
<1>11. ASSUME NEW c \in Candidate, RefreshMismatch(c) PROVE RefetchInv'
  BY <1>11, NoOneAssumption DEF TypeOK, RefetchInv, Claim, RefreshMismatch, ReturnError, SameVersion
<1>12. ASSUME NEW c \in Candidate, OpenWatch(c) PROVE RefetchInv'
  BY <1>12, NoOneAssumption DEF TypeOK, RefetchInv, Claim, OpenWatch, Unlock
<1>13. ASSUME NEW c \in Candidate, Stop(c) PROVE RefetchInv'
  BY <1>13, NoOneAssumption DEF TypeOK, RefetchInv, Claim, Stop
<1>14. ASSUME NEW c \in Candidate, ReleaseGet(c) PROVE RefetchInv'
  BY <1>14, NoOneAssumption DEF TypeOK, RefetchInv, Claim, ReleaseGet, Unlock
<1>15. ASSUME NEW c \in Candidate, ReleaseDelete(c) PROVE RefetchInv'
  BY <1>15, NoOneAssumption DEF TypeOK, RefetchInv, Claim, ReleaseDelete, Unlock, DeleteClaim, NoClaim
<1>16. ASSUME NEW c \in Candidate, RequestFails(c) PROVE RefetchInv'
  BY <1>16, NoOneAssumption DEF TypeOK, RefetchInv, Claim, RequestFails, ReturnError, Fault
<1>17. ASSUME NEW c \in Candidate, AnswerLost(c) PROVE RefetchInv'
  BY <1>17, NoOneAssumption DEF TypeOK, RefetchInv, Claim, AnswerLost, ReturnError, Fault, DeleteClaim, NoClaim
<1>18. ASSUME NEW c \in Candidate, Crash(c) PROVE RefetchInv'
  BY <1>18, NoOneAssumption DEF TypeOK, RefetchInv, Claim, Crash
<1>19. CASE LeaseExpires
  BY <1>19, NoOneAssumption DEF TypeOK, RefetchInv, Claim, LeaseExpires, DeleteClaim, NoClaim
<1> QED
  BY <1>1, <1>2, <1>3, <1>4, <1>5, <1>6, <1>7, <1>8, <1>9, <1>10, <1>11, <1>12, <1>13, <1>14, <1>15, <1>16, <1>17, <1>18, <1>19 DEF Next, Request

\* After a version mismatch checkClaim never reads its own claim again, so
\* its retry loop runs at most twice, for every number of candidates.
THEOREM RefetchFindsOtherHolds == Spec => []RefetchFindsOther
<1>1. RefetchInv => RefetchFindsOther
  BY DEF RefetchInv, RefetchFindsOther
<1> QED  BY <1>1, RefetchInit, RefetchStep, TypeCorrect, PTL DEF Spec

-----------------------------------------------------------------------------
(***************************************************************************)
(* One leader at a time, when renewals are punctual.  The claim that an    *)
(* operation has read stays untouched until that operation is over, and a  *)
(* candidate that takes part and believes to lead holds the claim.         *)
(***************************************************************************)

LeaderInv ==
    \A c \in Candidate :
        /\ running[c] /\ isLeader[c] => claim.leader = c
        /\ pc[c] \in {"update", "relDelete"} => claim = curr[c] /\ claim.leader = c
        /\ pc[c] \in {"relGet", "relDelete"} => ~running[c]
        /\ op[c] = "start" => pc[c] \notin {"relGet", "relDelete"}

LEMMA LeaderInit == Init => LeaderInv
  BY DEF Init, LeaderInv

LEMMA LeaderStep ==
  ASSUME Punctual
  PROVE  TypeOK /\ LeaderInv /\ [Next]_vars => LeaderInv'
<1> SUFFICES ASSUME TypeOK, LeaderInv, [Next]_vars PROVE LeaderInv'
  OBVIOUS
<1> USE Punctual, NoOneAssumption
<1>1. CASE UNCHANGED vars
  BY <1>1 DEF LeaderInv, vars
<1>2. ASSUME NEW c \in Candidate, Start(c) PROVE LeaderInv'
  BY <1>2 DEF TypeOK, LeaderInv, Claim, Start
<1>3. ASSUME NEW c \in Candidate, Tick(c) PROVE LeaderInv'
  BY <1>3 DEF TypeOK, LeaderInv, Claim, Tick
<1>4. ASSUME NEW c \in Candidate, LoopExit(c) PROVE LeaderInv'
  BY <1>4 DEF TypeOK, LeaderInv, Claim, LoopExit
<1>5. ASSUME NEW c \in Candidate, WatchDelete(c) PROVE LeaderInv'
  BY <1>5 DEF TypeOK, LeaderInv, Claim, WatchDelete
<1>6. ASSUME NEW c \in Candidate, LockAndCheckClaim(c) PROVE LeaderInv'
  BY <1>6 DEF TypeOK, LeaderInv, Claim, LockAndCheckClaim
<1>7. ASSUME NEW c \in Candidate, ReadError(c) PROVE LeaderInv'
  BY <1>7 DEF TypeOK, LeaderInv, Claim, ReadError
<1>8. ASSUME NEW c \in Candidate, CheckGet(c) PROVE LeaderInv'
  BY <1>8 DEF TypeOK, LeaderInv, Claim, CheckGet, CheckDone, Unlock
<1>9. ASSUME NEW c \in Candidate, AttemptClaim(c) PROVE LeaderInv'
  BY <1>9 DEF TypeOK, LeaderInv, Claim, AttemptClaim, CheckDone, Unlock, NoClaim
<1>10. ASSUME NEW c \in Candidate, RefreshClaim(c) PROVE LeaderInv'
  BY <1>10 DEF TypeOK, LeaderInv, Claim, RefreshClaim, CheckDone, Unlock
<1>11. ASSUME NEW c \in Candidate, RefreshMismatch(c) PROVE LeaderInv'
  BY <1>11 DEF TypeOK, LeaderInv, Claim, RefreshMismatch, ReturnError, SameVersion
<1>12. ASSUME NEW c \in Candidate, OpenWatch(c) PROVE LeaderInv'
  BY <1>12 DEF TypeOK, LeaderInv, Claim, OpenWatch, Unlock
<1>13. ASSUME NEW c \in Candidate, Stop(c) PROVE LeaderInv'
  BY <1>13 DEF TypeOK, LeaderInv, Claim, Stop
<1>14. ASSUME NEW c \in Candidate, ReleaseGet(c) PROVE LeaderInv'
  BY <1>14 DEF TypeOK, LeaderInv, Claim, ReleaseGet, Unlock
<1>15. ASSUME NEW c \in Candidate, ReleaseDelete(c) PROVE LeaderInv'
  BY <1>15 DEF TypeOK, LeaderInv, Claim, ReleaseDelete, Unlock, DeleteClaim, NoClaim
<1>16. ASSUME NEW c \in Candidate, RequestFails(c) PROVE LeaderInv'
  BY <1>16 DEF TypeOK, LeaderInv, Claim, RequestFails, ReturnError, Fault
<1>17. ASSUME NEW c \in Candidate, AnswerLost(c) PROVE LeaderInv'
  BY <1>17 DEF TypeOK, LeaderInv, Claim, AnswerLost, ReturnError, Fault, DeleteClaim, NoClaim
<1>18. ASSUME NEW c \in Candidate, Crash(c) PROVE LeaderInv'
  BY <1>18 DEF TypeOK, LeaderInv, Claim, Crash
<1>19. CASE LeaseExpires
  BY <1>19 DEF TypeOK, LeaderInv, Claim, LeaseExpires, DeleteClaim, NoClaim
<1> QED
  BY <1>1, <1>2, <1>3, <1>4, <1>5, <1>6, <1>7, <1>8, <1>9, <1>10, <1>11, <1>12, <1>13, <1>14, <1>15, <1>16, <1>17, <1>18, <1>19 DEF Next, Request

\* With punctual renewals at most one candidate that takes part believes that
\* it leads, however the candidates start, stop and crash, and whatever
\* requests fail or lose their answers.
THEOREM OneLeader == ASSUME Punctual PROVE Spec => []AtMostOneLeader
<1>1. LeaderInv => AtMostOneLeader
  BY DEF LeaderInv, AtMostOneLeader
<1> QED  BY <1>1, LeaderInit, LeaderStep, TypeCorrect, PTL DEF Spec

\* With punctual renewals no step moves the claim from one candidate to
\* another: a create needs an absent key, and a refresh is of one's own claim.
THEOREM NoTakeoverHolds == ASSUME Punctual PROVE Spec => NoTakeover
<1> DEFINE Kept == claim.leader # NoOne /\ claim'.leader # NoOne
                     => claim'.leader = claim.leader
<1>1. ASSUME TypeOK, LeaderInv, Next PROVE Kept
  <2> USE Punctual
  <2>1. ASSUME NEW c \in Candidate, AttemptClaim(c) PROVE Kept
    BY <2>1 DEF AttemptClaim, NoClaim
  <2>2. ASSUME NEW c \in Candidate, RefreshClaim(c) PROVE Kept
    BY <1>1, <2>2 DEF RefreshClaim, LeaderInv
  <2>3. ASSUME NEW c \in Candidate, AnswerLost(c) PROVE Kept
    BY <1>1, <2>3 DEF AnswerLost, LeaderInv, DeleteClaim, NoClaim
  <2>4. ASSUME NEW c \in Candidate, ReleaseDelete(c) PROVE Kept
    BY <2>4 DEF ReleaseDelete, DeleteClaim, NoClaim
  <2>5. CASE LeaseExpires
    BY <2>5 DEF LeaseExpires, DeleteClaim, NoClaim
  <2>6. ASSUME NEW c \in Candidate,
               \/ Start(c) \/ Tick(c) \/ LoopExit(c) \/ WatchDelete(c)
               \/ LockAndCheckClaim(c) \/ ReadError(c) \/ CheckGet(c)
               \/ RefreshMismatch(c) \/ OpenWatch(c) \/ Stop(c) \/ ReleaseGet(c)
               \/ RequestFails(c) \/ Crash(c)
        PROVE  claim' = claim
    BY <2>6 DEF Start, Tick, LoopExit, WatchDelete, LockAndCheckClaim, ReadError,
       CheckGet, RefreshMismatch, OpenWatch, Stop, ReleaseGet, RequestFails, Crash
  <2> QED  BY <1>1, <2>1, <2>2, <2>3, <2>4, <2>5, <2>6 DEF Next, Request
<1>2. TypeOK /\ LeaderInv /\ [Next]_vars => [Kept]_vars
  BY <1>1
<1> QED  BY <1>2, LeaderInit, LeaderStep, TypeCorrect, PTL DEF Spec, NoTakeover

-----------------------------------------------------------------------------
(***************************************************************************)
(* The election implements Leadership.  Under the refinement mapping every *)
(* step changes what one candidate believes, or who holds the claim, the   *)
(* way an action of Leadership does; LeaderInv excludes the rest.          *)
(***************************************************************************)

Leads == [c \in Candidate |-> running[c] /\ isLeader[c]]

\* A step that leaves running and isLeader of the other candidates alone.
LEMMA LeadsExcept ==
  ASSUME TypeOK, TypeOK', NEW c \in Candidate, NEW b \in BOOLEAN,
         \A d \in Candidate \ {c} : running'[d] = running[d] /\ isLeader'[d] = isLeader[d],
         (running'[c] /\ isLeader'[c]) <=> b
  PROVE  Leads' = [Leads EXCEPT ![c] = b]
<1>1. ASSUME NEW d \in Candidate
      PROVE  (running'[d] /\ isLeader'[d])
               = (IF d = c THEN b ELSE running[d] /\ isLeader[d])
  <2>1. CASE d = c
    BY <2>1, Zenon
  <2>2. CASE d # c
    BY <2>2, Zenon
  <2> QED  BY <2>1, <2>2
<1> DEFINE F == [d \in Candidate |-> IF d = c THEN b ELSE running[d] /\ isLeader[d]]
<1>2. Leads' = F
  BY <1>1, Zenon DEF Leads
<1>3. [Leads EXCEPT ![c] = b] = F
  BY DEF Leads
<1> QED  BY <1>2, <1>3

LEMMA LeadsSame ==
  ASSUME TypeOK, TypeOK', NEW c \in Candidate,
         \A d \in Candidate \ {c} : running'[d] = running[d] /\ isLeader'[d] = isLeader[d],
         (running'[c] /\ isLeader'[c]) <=> (running[c] /\ isLeader[c])
  PROVE  Leads' = Leads
<1>1. ASSUME NEW d \in Candidate
      PROVE  (running'[d] /\ isLeader'[d]) = (running[d] /\ isLeader[d])
  <2>1. CASE d = c
    BY <2>1, Zenon
  <2>2. CASE d # c
    BY <2>2, Zenon
  <2> QED  BY <2>1, <2>2
<1> QED  BY <1>1, Zenon DEF Leads

\* A step that changes running and isLeader of no candidate but c: what c
\* believes and who holds the claim decide which action of Leadership it is.
LEMMA AbstractCases ==
  ASSUME TypeOK, TypeOK', NEW c \in Candidate,
         \A d \in Candidate \ {c} : running'[d] = running[d] /\ isLeader'[d] = isLeader[d],
         \/ claim'.leader = claim.leader /\ ~(running'[c] /\ isLeader'[c])
         \/ claim'.leader = claim.leader /\ claim.leader = c
         \/ claim'.leader = claim.leader
              /\ ((running'[c] /\ isLeader'[c]) <=> (running[c] /\ isLeader[c]))
         \/ claim.leader = NoOne /\ claim'.leader = c
              /\ (\/ running'[c] /\ isLeader'[c]
                  \/ ((running'[c] /\ isLeader'[c]) <=> (running[c] /\ isLeader[c])))
         \/ claim.leader = c /\ claim'.leader = NoOne
              /\ ~(running[c] /\ isLeader[c]) /\ ~(running'[c] /\ isLeader'[c])
  PROVE  [Abstract!LeadNext]_(Abstract!LeadVars)
<1> DEFINE on == running'[c] /\ isLeader'[c]
<1>1. CASE on <=> (running[c] /\ isLeader[c])
  <2>1. Leads' = Leads
    BY <1>1, LeadsSame
  <2>2. CASE claim'.leader = claim.leader
    BY <2>1, <2>2 DEF Leads, Abstract!LeadVars
  <2>3. CASE claim.leader = NoOne /\ claim'.leader = c
    BY <2>1, <2>3 DEF Leads, Abstract!LeadNext, Abstract!ClaimUnknown
  <2>4. CASE claim.leader = c /\ claim'.leader = NoOne /\ ~(running[c] /\ isLeader[c])
    BY <2>1, <2>4 DEF Leads, Abstract!LeadNext, Abstract!Lapse
  <2> QED  BY <1>1, <2>2, <2>3, <2>4
<1>2. CASE ~on /\ (running[c] /\ isLeader[c])
  <2>1. Leads' = [Leads EXCEPT ![c] = FALSE]
    BY <1>2, LeadsExcept
  <2>2. claim'.leader = claim.leader
    BY <1>2
  <2> QED  BY <2>1, <2>2 DEF Leads, Abstract!LeadNext, Abstract!StepDown
<1>3. CASE on /\ ~(running[c] /\ isLeader[c])
  <2>1. Leads' = [Leads EXCEPT ![c] = TRUE]
    BY <1>3, LeadsExcept
  <2>2. CASE claim'.leader = claim.leader /\ claim.leader = c
    BY <2>1, <2>2 DEF Leads, Abstract!LeadNext, Abstract!Confirm
  <2>3. CASE claim.leader = NoOne /\ claim'.leader = c
    BY <2>1, <2>3 DEF Leads, Abstract!LeadNext, Abstract!Claim
  <2> QED  BY <1>3, <2>2, <2>3
<1> QED  BY <1>1, <1>2, <1>3

LEMMA AbstractStep ==
  ASSUME Punctual, TypeOK, TypeOK', LeaderInv, [Next]_vars
  PROVE  [Abstract!LeadNext]_(Abstract!LeadVars)
<1> DEFINE Goal == [Abstract!LeadNext]_(Abstract!LeadVars)
<1> USE NoOneAssumption
<1>1. CASE UNCHANGED vars
  BY <1>1 DEF vars, Abstract!LeadVars
<1>2. ASSUME NEW c \in Candidate,
             \/ Start(c) \/ Tick(c) \/ LoopExit(c) \/ WatchDelete(c)
             \/ LockAndCheckClaim(c) \/ ReadError(c) \/ OpenWatch(c)
             \/ RefreshMismatch(c) \/ RequestFails(c)
      PROVE  Goal
  <2>1. claim' = claim /\ running' = running /\ isLeader' = isLeader
    BY <1>2 DEF Start, Tick, LoopExit, WatchDelete, LockAndCheckClaim, ReadError,
       OpenWatch, Unlock, RefreshMismatch, RequestFails, ReturnError
  <2> QED  BY <2>1 DEF Abstract!LeadVars
<1>3. ASSUME NEW c \in Candidate, CheckGet(c) PROVE Goal
  <2>1. claim' = claim
    BY <1>3 DEF CheckGet
  <2>2. \A d \in Candidate \ {c} : running'[d] = running[d] /\ isLeader'[d] = isLeader[d]
    BY <1>3 DEF TypeOK, CheckGet, CheckDone, Unlock
  <2>3. \/ running' = running /\ isLeader' = isLeader
        \/ ~isLeader'[c]
        \/ claim.leader = c
    BY <1>3 DEF TypeOK, CheckGet
  <2> QED  BY <2>1, <2>2, <2>3, AbstractCases
<1>4. ASSUME NEW c \in Candidate, AttemptClaim(c) PROVE Goal
  <2>1. \A d \in Candidate \ {c} : running'[d] = running[d] /\ isLeader'[d] = isLeader[d]
    BY <1>4 DEF TypeOK, AttemptClaim, CheckDone, Unlock
  <2>2. CASE claim = NoClaim
    <3>1. claim.leader = NoOne /\ claim'.leader = c /\ isLeader'[c]
      BY <1>4, <2>2 DEF TypeOK, AttemptClaim, NoClaim
    <3>2. running[c] => running'[c]
      BY <1>4 DEF TypeOK, AttemptClaim, CheckDone, Unlock
    <3> QED  BY <2>1, <3>1, <3>2, AbstractCases
  <2>3. CASE claim # NoClaim
    <3>1. claim' = claim /\ ~isLeader'[c]
      BY <1>4, <2>3 DEF TypeOK, AttemptClaim
    <3> QED  BY <2>1, <3>1, AbstractCases
  <2> QED  BY <2>2, <2>3
<1>5. ASSUME NEW c \in Candidate, RefreshClaim(c) PROVE Goal
  <2>1. \A d \in Candidate \ {c} : running'[d] = running[d] /\ isLeader'[d] = isLeader[d]
    BY <1>5 DEF TypeOK, RefreshClaim, CheckDone, Unlock
  <2>2. claim'.leader = claim.leader /\ claim.leader = c
    BY <1>5 DEF LeaderInv, RefreshClaim
  <2> QED  BY <2>1, <2>2, AbstractCases
<1>6. ASSUME NEW c \in Candidate, Stop(c) \/ Crash(c) PROVE Goal
  <2>1. claim' = claim
    BY <1>6 DEF Stop, Crash
  <2>2. \A d \in Candidate \ {c} : running'[d] = running[d] /\ isLeader'[d] = isLeader[d]
    BY <1>6 DEF TypeOK, Stop, Crash
  <2>3. ~running'[c]
    BY <1>6 DEF TypeOK, Stop, Crash
  <2> QED  BY <2>1, <2>2, <2>3, AbstractCases
<1>7. ASSUME NEW c \in Candidate, ReleaseGet(c) PROVE Goal
  <2>1. claim' = claim /\ running' = running
    BY <1>7 DEF ReleaseGet, Unlock
  <2>2. \A d \in Candidate \ {c} : isLeader'[d] = isLeader[d]
    BY <1>7 DEF TypeOK, ReleaseGet
  <2>3. ~running[c]
    BY <1>7 DEF LeaderInv, ReleaseGet
  <2> QED  BY <2>1, <2>2, <2>3, AbstractCases
<1>8. ASSUME NEW c \in Candidate, ReleaseDelete(c) PROVE Goal
  <2>1. claim.leader = c /\ ~running[c] /\ claim'.leader \in {c, NoOne}
    BY <1>8 DEF LeaderInv, ReleaseDelete, DeleteClaim, NoClaim
  <2>2. \A d \in Candidate \ {c} : isLeader'[d] = isLeader[d]
    BY <1>8 DEF TypeOK, ReleaseDelete
  <2>3. running' = running
    BY <1>8 DEF ReleaseDelete, Unlock
  <2> QED  BY <2>1, <2>2, <2>3, AbstractCases
<1>9. ASSUME NEW c \in Candidate, AnswerLost(c) PROVE Goal
  <2>1. running' = running /\ isLeader' = isLeader
    BY <1>9 DEF AnswerLost, ReturnError
  <2>2. CASE pc[c] = "create"
    BY <1>9, <2>1, <2>2, AbstractCases DEF AnswerLost, NoClaim
  <2>3. CASE pc[c] = "update"
    <3>1. claim'.leader = claim.leader
      BY <1>9, <2>3 DEF AnswerLost, LeaderInv
    <3> QED  BY <2>1, <3>1, AbstractCases
  <2>4. CASE pc[c] = "relDelete"
    <3>1. claim.leader = c /\ ~running[c] /\ claim'.leader = NoOne
      BY <1>9, <2>4 DEF AnswerLost, LeaderInv, DeleteClaim, NoClaim
    <3> QED  BY <2>1, <3>1, AbstractCases
  <2> QED  BY <1>9, <2>2, <2>3, <2>4 DEF AnswerLost
<1>10. CASE LeaseExpires
  <2>1. running' = running /\ isLeader' = isLeader /\ claim'.leader = NoOne
    BY <1>10 DEF LeaseExpires, DeleteClaim, NoClaim
  <2>2. CASE claim.leader = NoOne
    BY <2>1, <2>2 DEF Abstract!LeadVars
  <2>3. CASE claim.leader \in Candidate
    <3>1. ~running[claim.leader]
      BY <1>10 DEF LeaseExpires
    <3> QED  BY <2>1, <2>3, <3>1, AbstractCases
  <2> QED  BY <2>2, <2>3 DEF TypeOK, Claim
<1> QED
  BY <1>1, <1>2, <1>3, <1>4, <1>5, <1>6, <1>7, <1>8, <1>9, <1>10 DEF Next, Request

\* With punctual renewals the election keeps what Leadership promises its
\* users: at most one holder, who leads only while it holds the claim, and a
\* claim that lapses only when its holder does not lead.
THEOREM ElectionImplementsLeadership ==
  ASSUME Punctual PROVE Spec => ImplementsLeadership
<1>1. Init => Abstract!LeadInit
  <2> SUFFICES ASSUME Init PROVE Abstract!LeadInit
    OBVIOUS
  <2>1. claim.leader = NoOne
    BY DEF Init, NoClaim
  <2>2. [c \in Candidate |-> running[c] /\ isLeader[c]] = [c \in Candidate |-> FALSE]
    BY Zenon DEF Init
  <2> QED  BY <2>1, <2>2 DEF Abstract!LeadInit
<1>2. Punctual /\ TypeOK /\ TypeOK' /\ LeaderInv /\ [Next]_vars
        => [Abstract!LeadNext]_(Abstract!LeadVars)
  BY AbstractStep
<1> QED
  BY <1>1, <1>2, LeaderInit, LeaderStep, TypeCorrect, PTL
  DEF Spec, ImplementsLeadership, Abstract!LeadSpec

=============================================================================
