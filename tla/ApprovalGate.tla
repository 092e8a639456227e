---------------------------- MODULE ApprovalGate ----------------------------
(***************************************************************************)
(* What the approval subsystem promises, without any of its machinery: one *)
(* human verdict on each proposed customer reply, and a message to the     *)
(* customer only after a verdict that allows it, at most once.  Approvals  *)
(* is shown to implement this specification.                               *)
(***************************************************************************)
EXTENDS Naturals

CONSTANT Cards

VARIABLES verdict,   \* what was said about each card
          muted,     \* the card was raised by a run that may never post
          posts      \* how often the card's text reached the customer

gateVars == <<verdict, muted, posts>>

Verdicts == {"absent", "pending", "approved", "edited", "rejected", "withdrawn"}
Allowing == {"approved", "edited"}

GateInit ==
  /\ verdict = [c \in Cards |-> "absent"]
  /\ muted = [c \in Cards |-> FALSE]
  /\ posts = [c \in Cards |-> 0]

\* One proposal waits for a human at a time.
Propose(c) ==
  /\ verdict[c] = "absent"
  /\ \A d \in Cards : verdict[d] # "pending"
  /\ verdict' = [verdict EXCEPT ![c] = "pending"]
  /\ \E m \in BOOLEAN : muted' = [muted EXCEPT ![c] = m]
  /\ UNCHANGED posts

\* The human decides, or the run retracts; whoever is first is final.
Conclude(c, v) ==
  /\ verdict[c] = "pending"
  /\ verdict' = [verdict EXCEPT ![c] = v]
  /\ UNCHANGED <<muted, posts>>

Post(c) ==
  /\ verdict[c] \in Allowing
  /\ ~muted[c]
  /\ posts[c] = 0
  /\ posts' = [posts EXCEPT ![c] = 1]
  /\ UNCHANGED <<verdict, muted>>

GateNext ==
  \E c \in Cards :
    \/ Propose(c)
    \/ \E v \in {"approved", "edited", "rejected", "withdrawn"} : Conclude(c, v)
    \/ Post(c)

GateSpec == GateInit /\ [][GateNext]_gateVars
=============================================================================
