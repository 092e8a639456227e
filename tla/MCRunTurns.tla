----------------------------- MODULE MCRunTurns -----------------------------
(* RunTurns on a small instance, and beside it the pages on which the cards  *)
(* of runs are decided.  A decision is all that passes from one to the other, *)
(* and each sees it as a step of somebody else; part says which of them moves. *)
EXTENDS RunTurns

CONSTANTS m1, s1, c1, MaxCards, ListLimit, MaxClicks, MaxLost

OneMessage == {m1}
OneSteer == {s1}
OneCard == {c1}
\* Any two of a message, a steer and a card.
Pairs == {{m1, c1}, {s1, c1}, {m1, s1}}

VARIABLES
  part,
  app, decision, winner, rows, poll, local, timer, request, clicks, lost,
  reconciled, asking, naming

queues == <<app, decision, winner, rows, poll, local, timer, request, clicks, lost,
            reconciled, asking, naming>>

Q == INSTANCE MCQueues WITH Nothing <- None

\* What does not move stays as it begins, with nothing enabled to be fair to.
TurnsInit ==
  /\ part \in {"turns", "queues"}
  /\ Init /\ (part # "turns" => inputs = {m1, c1})
  /\ IF part = "queues" THEN Q!QueuesInit ELSE Q!QueuesIdle

TurnsNext ==
  \/ part = "turns" /\ Next /\ UNCHANGED <<part, queues>>
  \/ part = "queues" /\ Q!QueuesNext /\ UNCHANGED <<part, vars>>

TurnsSpec ==
  TurnsInit /\ [][TurnsNext]_<<part, vars, queues>> /\ Fairness /\ Q!QueuesFairness

DecidedCardsLeave == Q!DecidedCardsLeave
=============================================================================
