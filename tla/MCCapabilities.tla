--------------------------- MODULE MCCapabilities ---------------------------
(* What a program's calls meet: the effect ledger, the run's container and a *)
(* recording in it.  They share no state here, so one run checks them side   *)
(* by side: part says which of them moves.                                   *)
EXTENDS MCEffectLedger, Sandbox, Recording

VARIABLE part

\* Two programs and an end of the run, two programs and a fault, or one with both, or with
\* two ends; or nothing, when the container is not what moves.
NoScene == [programs |-> {}, ends |-> 0, faults |-> 0]
SmallScenes == {[programs |-> Programs, ends |-> 1, faults |-> 0],
                [programs |-> Programs, ends |-> 0, faults |-> 1],
                [programs |-> {"p1"}, ends |-> 1, faults |-> 1],
                [programs |-> {"p1"}, ends |-> 2, faults |-> 0],
                NoScene}

CapabilitiesInit ==
  /\ part \in {"ledger", "sandbox", "recording"}
  /\ Init /\ SandboxInit /\ RecordingInit
  /\ part = "sandbox" <=> scene # NoScene

CapabilitiesNext ==
  \/ part = "ledger" /\ Next /\ UNCHANGED <<part, sandboxVars, recordingVars>>
  \/ part = "sandbox" /\ SandboxNext /\ UNCHANGED <<part, vars, recordingVars>>
  \/ part = "recording" /\ RecordingNext /\ UNCHANGED <<part, vars, sandboxVars>>

\* What does not move stays as it begins, with nothing enabled to be fair to.
CapabilitiesSpec ==
  /\ CapabilitiesInit /\ [][CapabilitiesNext]_<<part, vars, sandboxVars, recordingVars>>
  /\ \A k \in Callers : WF_vars(CallerStep(k))
  /\ SandboxFairness /\ RecordingFairness

\* Who polls hears in the end.  The scenes treat p1 and p2 alike, but for those that p1 has
\* to itself.
PollingEnds == HearsInTheEnd("p1") /\ RecordingEnds
=============================================================================
