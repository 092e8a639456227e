--------------------------- MODULE MCMemoryOutbox ---------------------------
(* What is remembered, and of whom: MemoryOutbox with two or three consumers, *)
(* Intake on two messages of one thread, and CustomerScope on one channel.   *)
(* They share no state, so one run checks them side by side: part says which *)
(* of them moves.                                                            *)
EXTENDS MemoryOutbox, Intake, CustomerScope, TLC

CONSTANTS k1, k2, k3

TwoConsumers == {k1, k2}
ThreeConsumers == {k1, k2, k3}

\* The channel's name suggests a slug.
SlugOfName == [ch \in Channels |-> "s1"]

VARIABLE part

QueuesInit ==
  /\ part \in {"outbox", "intake", "customers"}
  /\ Init /\ IntakeInit /\ ScopeInit
  /\ part = "outbox" \/ parses
  /\ part = "customers" \/ \A ch \in Channels : policy[ch] = Unset

QueuesNext ==
  \/ part = "outbox" /\ Next /\ UNCHANGED <<part, intakeVars, scopeVars>>
  \/ part = "intake" /\ IntakeNext /\ UNCHANGED <<part, vars, scopeVars>>
  \/ part = "customers" /\ ScopeNext /\ UNCHANGED <<part, vars, intakeVars>>

\* The part that does not move stays as it begins, with nothing to be fair to.
QueuesSpec ==
  QueuesInit /\ [][QueuesNext]_<<part, vars, intakeVars, scopeVars>> /\ Fairness /\ IntakeFairness
=============================================================================
