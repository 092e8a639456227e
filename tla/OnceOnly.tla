------------------------------ MODULE OnceOnly ------------------------------
(***************************************************************************)
(* What the ledger promises of each effect, without calls, retries, polls  *)
(* or crashes: it takes place while nobody was told how it ended, once at  *)
(* most, and what is told of it is so.  EffectLedger is shown to implement *)
(* this specification.                                                     *)
(***************************************************************************)
EXTENDS Naturals

CONSTANTS
  Effects,
  Repeatable, \* effects that nothing keeps from taking place again
  Trusting,   \* effects that are called off on less than a proof
  Exact       \* effects whose lookup answers for nothing else

VARIABLES
  told,       \* what the ledger says of each effect
  performed   \* how often it took place

onceVars == <<told, performed>>

OnceInit ==
  /\ told = [e \in Effects |-> "absent"]
  /\ performed = [e \in Effects |-> 0]

\* Nothing has been tried, or what was tried came to nothing.
Begin(e) ==
  /\ told[e] \in {"absent", "failed"}
  /\ told' = [told EXCEPT ![e] = "reserved"]
  /\ UNCHANGED performed

\* Nobody has been told of an outcome yet.
Perform(e) ==
  /\ told[e] = "reserved"
  /\ performed[e] = 0 \/ e \in Repeatable
  /\ performed' = [performed EXCEPT ![e] = @ + 1]
  /\ UNCHANGED told

Tell(e, outcome) ==
  /\ told' = [told EXCEPT ![e] = outcome]
  /\ UNCHANGED performed

\* The outcome, or that it is not known.
Conclude(e) ==
  /\ told[e] = "reserved"
  /\ \/ performed[e] > 0 /\ Tell(e, "completed")
     \/ (performed[e] = 0 \/ e \in Trusting) /\ Tell(e, "failed")
     \/ Tell(e, "in_doubt")

\* What was not known turns out to have taken place.
Confirmed(e) ==
  /\ told[e] = "in_doubt"
  /\ e \in Exact => performed[e] > 0
  /\ Tell(e, "completed")

OnceNext == \E e \in Effects : Begin(e) \/ Perform(e) \/ Conclude(e) \/ Confirmed(e)

OnceSpec == OnceInit /\ [][OnceNext]_onceVars
=============================================================================
