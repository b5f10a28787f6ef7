----------------------------- MODULE Leadership -----------------------------
(***************************************************************************)
(* What an election promises its users: one holder of the claim at a time, *)
(* a participant that believes to lead holds it, and a claim lapses only   *)
(* when its holder has stopped believing so.  Election implements this     *)
(* specification as long as claims are renewed in time; Migrate builds on  *)
(* it.                                                                     *)
(***************************************************************************)
CONSTANTS
    Candidate,  \* the participants
    NoOne       \* nobody holds the claim

VARIABLES
    holder,  \* who holds the claim
    leads    \* leads[c]: c takes part and IsLeader() returns true

LeadVars == <<holder, leads>>

LeadInit ==
    /\ holder = NoOne
    /\ leads = [c \in Candidate |-> FALSE]

\* attemptClaim creates the claim, and only here the claim handlers start.
Claim(c) ==
    /\ holder = NoOne
    /\ holder' = c
    /\ leads' = [leads EXCEPT ![c] = TRUE]

\* The claim is created but the answer is lost: c does not know.
ClaimUnknown(c) ==
    /\ holder = NoOne
    /\ holder' = c
    /\ UNCHANGED leads

\* checkClaim finds the candidate's own claim and renews it.
Confirm(c) ==
    /\ holder = c
    /\ leads' = [leads EXCEPT ![c] = TRUE]
    /\ UNCHANGED holder

\* c stops, dies, or sees that it does not hold the claim.
StepDown(c) ==
    /\ leads' = [leads EXCEPT ![c] = FALSE]
    /\ UNCHANGED holder

\* The claim of a holder that does not lead (any more) expires or is released.
Lapse ==
    /\ holder \in Candidate
    /\ ~leads[holder]
    /\ holder' = NoOne
    /\ UNCHANGED leads

LeadNext ==
    \/ \E c \in Candidate : Claim(c) \/ ClaimUnknown(c) \/ Confirm(c) \/ StepDown(c)
    \/ Lapse

LeadSpec == LeadInit /\ [][LeadNext]_LeadVars
=============================================================================
