------------------------------ MODULE MCNudges ------------------------------
(* Cards and the pages that ask for them: the nudge of one card, and Approvals *)
(* under fairness.  Both see a decision as a step of somebody else, so one   *)
(* run checks them side by side: part says which of them moves.              *)
EXTENDS Nudges

CONSTANTS Cards, Wakes, Workers, Calls, CardFailures

VARIABLES part, card, runShadow, posts, openId, turn, current, program, call, expiry, job, dead

cards == <<card, runShadow, posts, openId, turn, current, program, call, expiry, job, dead>>

A == INSTANCE Approvals WITH MaxFailures <- CardFailures, failures <- dead

\* Where the nudge does not move its card is settled, and nothing is left to be fair to.
CardsInit ==
  /\ part \in {"approvals", "nudge"}
  /\ A!Init /\ NudgeInit
  /\ IF part = "nudge" THEN row.pending ELSE ~row.pending /\ ~armed

CardsNext ==
  \/ part = "approvals" /\ A!Next /\ UNCHANGED <<part, nudgeVars>>
  \/ part = "nudge" /\ NudgeNext /\ UNCHANGED <<part, cards>>
  \* A nudge comes to an end.
  \/ part = "nudge" /\ UNCHANGED <<part, cards, nudgeVars>>

CardsSpec ==
  CardsInit /\ [][CardsNext]_<<part, cards, nudgeVars>> /\ A!Fairness /\ NudgeFairness

\* What the two parts promise in the end (Approvals, Nudges).
DecisionReachesRun == A!DecisionReachesRun
ParkingEnds == A!ParkingEnds
PageComes == part = "nudge" => PagedInTheEnd
=============================================================================
