---------------------------- MODULE EffectLedger ----------------------------
(***************************************************************************)
(* The at-most-once ledger of external writes (codemode_effects).          *)
(*                                                                         *)
(* A capability call that changes the outside world reserves a row before  *)
(* the request and records the outcome after it.  A retry of the same turn *)
(* finds the row by its key, so an effect of this module is one key: run,  *)
(* turn, namespace, method and arguments.  Callers are concurrent: a       *)
(* program may repeat a call, and calls of a program that exceeded its     *)
(* wall time are still running when the model retries.  Each D1 statement  *)
(* and each upstream request is a step; a caller may die between any two.  *)
(***************************************************************************)
EXTENDS Naturals

CONSTANTS
  Effects,    \* effect keys
  Callers,    \* calls of runEffect that may be in flight at once
  Kind,       \* the capability an effect belongs to
  Answers,    \* the effects whose being performed satisfies e's reconcile lookup
  None,       \* no effect
  MaxPolls,   \* MAX_POLLS
  MaxCrashes  \* bound: callers that die in one behaviour

Kinds == {"reply", "file", "pull", "issue", "update"}

ASSUME KindAssumption == Kind \in [Effects -> Kinds]
ASSUME AnswersAssumption == Answers \in [Effects -> SUBSET Effects]
ASSUME NoneAssumption == None \notin Effects
ASSUME BoundsAssumption == MaxPolls \in Nat /\ MaxCrashes \in Nat

VARIABLES
  row,       \* D1: the state column of each key
  performed, \* upstream: how often each effect took place
  caller,    \* what each call is doing
  crashes    \* callers that died so far

vars == <<row, performed, caller, crashes>>

States == {"reserved", "completed", "failed", "in_doubt"}
Outcomes == {"completed", "failed", "in_doubt"}

-----------------------------------------------------------------------------
(* The capabilities behind the ledger.                                     *)

\* Linear's client maps a thrown fetch to capability_unavailable, which is in
\* PROVEN_PRE_UPSTREAM, although the request may have been processed.
TrustsThrownFetch(e) == Kind[e] \in {"issue", "update"}

\* Linear refuses a second issue with the id derived from the key.
Idempotent(e) == Kind[e] = "issue"

\* The capabilities that pass a reconcile lookup: by issue id, or by branch.
Reconcilable(e) == Kind[e] \in {"issue", "pull"}

\* The lookup answers for e alone.
ExactLookup(e) == Answers[e] \subseteq {e}

-----------------------------------------------------------------------------
IdleCaller == [pc |-> "idle", effect |-> None, polls |-> 0, out |-> "in_doubt"]
CallerPCs == {"idle", "read", "claim", "reclaim", "wait", "execute", "record",
              "reconcile", "confirm"}

At(k, pc, e) == caller[k].pc = pc /\ caller[k].effect = e
Goto(k, pc) == caller' = [caller EXCEPT ![k].pc = pc]
Return(k) == caller' = [caller EXCEPT ![k] = IdleCaller]

\* Fault: the loop has no budget.
PollForEver(k) == Goto(k, "read")

\* The loop's continue: the budget may be spent, which throws inDoubt().
PollAgain(k) ==
  IF caller[k].polls = MaxPolls
    THEN Return(k)
    ELSE caller' = [caller EXCEPT ![k].pc = "read", ![k].polls = @ + 1]

\* Holders of e's reservation: they won it and have not recorded an outcome.
Holds(k, e) == caller[k].effect = e /\ caller[k].pc \in {"execute", "record"}

Call(k, e) ==
  /\ caller[k].pc = "idle"
  /\ caller' = [caller EXCEPT ![k] = [IdleCaller EXCEPT !.pc = "read", !.effect = e]]
  /\ UNCHANGED <<row, performed, crashes>>

\* readEffect, and the switch on what it found.
ReadEffect(k, e) ==
  /\ At(k, "read", e)
  /\ CASE row[e] = "absent" -> Goto(k, "claim")
       [] row[e] = "failed" -> Goto(k, "reclaim")
       [] row[e] = "reserved" -> Goto(k, "wait")
       [] row[e] = "in_doubt" /\ Reconcilable(e) -> Goto(k, "reconcile")
       [] OTHER -> Return(k)
  /\ UNCHANGED <<row, performed, crashes>>

\* Fault: the INSERT replaces a row it conflicts with.
ClaimReplacing(k, e) ==
  /\ At(k, "claim", e)
  /\ row' = [row EXCEPT ![e] = "reserved"]
  /\ Goto(k, "execute")
  /\ UNCHANGED <<performed, crashes>>

\* INSERT ... ON CONFLICT DO NOTHING
Claim(k, e) ==
  /\ At(k, "claim", e)
  /\ IF row[e] = "absent"
       THEN /\ row' = [row EXCEPT ![e] = "reserved"]
            /\ Goto(k, "execute")
       ELSE /\ PollAgain(k)
            /\ UNCHANGED row
  /\ UNCHANGED <<performed, crashes>>

\* Fault: the UPDATE lacks its WHERE state = 'failed'.
ReclaimUnguarded(k, e) ==
  /\ At(k, "reclaim", e)
  /\ row' = [row EXCEPT ![e] = "reserved"]
  /\ Goto(k, "execute")
  /\ UNCHANGED <<performed, crashes>>

\* UPDATE ... WHERE state = 'failed'
Reclaim(k, e) ==
  /\ At(k, "reclaim", e)
  /\ IF row[e] = "failed"
       THEN /\ row' = [row EXCEPT ![e] = "reserved"]
            /\ Goto(k, "execute")
       ELSE /\ PollAgain(k)
            /\ UNCHANGED row
  /\ UNCHANGED <<performed, crashes>>

\* Someone else holds the row: sleep, unless the caller's signal aborts.
Wait(k, e) ==
  /\ At(k, "wait", e)
  /\ PollAgain(k) \/ Return(k)
  /\ UNCHANGED <<row, performed, crashes>>

\* What upstream did (n) and how performClaimed classifies what came back.
\* Only a proven refusal is 'failed'; a thrown fetch proves nothing, except to
\* Linear's client.  A result is 'completed'.
Execute(k, e) ==
  /\ At(k, "execute", e)
  /\ \E out \in Outcomes, n \in 0..1 :
       /\ Idempotent(e) /\ performed[e] > 0 => n = 0
       /\ out = "completed" => n = 1 \/ (Idempotent(e) /\ performed[e] > 0)
       /\ out = "failed" => n = 0 \/ TrustsThrownFetch(e)
       /\ performed' = [performed EXCEPT ![e] = @ + n]
       /\ caller' = [caller EXCEPT ![k].pc = "record", ![k].out = out]
  /\ UNCHANGED <<row, crashes>>

\* mark: the UPDATE has no condition on the state it replaces.
Record(k, e) ==
  /\ At(k, "record", e)
  /\ row' = [row EXCEPT ![e] = caller[k].out]
  /\ Return(k)
  /\ UNCHANGED <<performed, crashes>>

\* Fault: a lookup that confirms nothing counts as a confirmation.
ReconcileOptimist(k, e) ==
  /\ At(k, "reconcile", e)
  /\ Goto(k, "confirm")
  /\ UNCHANGED <<row, performed, crashes>>

\* The lookup may find what it looks for, find nothing, or throw.
Reconcile(k, e) ==
  /\ At(k, "reconcile", e)
  /\ \/ /\ \E d \in Answers[e] : performed[d] > 0
        /\ Goto(k, "confirm")
     \/ Return(k)
  /\ UNCHANGED <<row, performed, crashes>>

\* Fault: what the lookup did not answer for is released for a retry.
ConfirmReleasing(k, e) ==
  /\ At(k, "confirm", e)
  /\ row' = [row EXCEPT ![e] = "failed"]
  /\ Return(k)
  /\ UNCHANGED <<performed, crashes>>

Confirm(k, e) ==
  /\ At(k, "confirm", e)
  /\ row' = [row EXCEPT ![e] = "completed"]
  /\ Return(k)
  /\ UNCHANGED <<performed, crashes>>

\* The isolate is evicted, or a D1 statement throws: the row stays as it is.
Crash(k) ==
  /\ crashes < MaxCrashes
  /\ caller[k].pc # "idle"
  /\ crashes' = crashes + 1
  /\ Return(k)
  /\ UNCHANGED <<row, performed>>

-----------------------------------------------------------------------------
Init ==
  /\ row = [e \in Effects |-> "absent"]
  /\ performed = [e \in Effects |-> 0]
  /\ caller = [k \in Callers |-> IdleCaller]
  /\ crashes = 0

\* One step of a call that has begun.
CallerStep(k) ==
  \E e \in Effects :
    \/ ReadEffect(k, e) \/ Claim(k, e) \/ Reclaim(k, e) \/ Wait(k, e)
    \/ Execute(k, e) \/ Record(k, e) \/ Reconcile(k, e) \/ Confirm(k, e)

Next ==
  \E k \in Callers :
    \/ CallerStep(k)
    \/ \E e \in Effects : Call(k, e)
    \/ Crash(k)

Spec == Init /\ [][Next]_vars

\* A statement or request that began is answered, or its caller dies.
FairSpec == Spec /\ \A k \in Callers : WF_vars(CallerStep(k))

-----------------------------------------------------------------------------
(* Properties.                                                             *)

CallerRecords ==
  [pc : CallerPCs, effect : Effects \cup {None}, polls : 0..MaxPolls, out : Outcomes]

TypeOK ==
  /\ row \in [Effects -> States \cup {"absent"}]
  /\ performed \in [Effects -> Nat]
  /\ caller \in [Callers -> CallerRecords]
  /\ crashes \in Nat

\* Only one call at a time is between winning a reservation and recording its
\* outcome, and the row says so (runEffect: "wait for them rather than sending
\* twice").
OneHolder ==
  \A k \in Callers, e \in Effects :
    Holds(k, e) =>
      /\ row[e] = "reserved"
      /\ \A j \in Callers : Holds(j, e) => j = k

\* However calls are retried, raced and cut short, an effect takes place once
\* at most (runEffect).  Linear's updates are excepted: see UpdateAppliedOnce.
PerformedAtMostOnce ==
  \A e \in Effects : Kind[e] # "update" => performed[e] <= 1

\* A row that invites a retry did nothing (PROVEN_PRE_UPSTREAM).  Linear's
\* writes are excepted: linear/client.ts takes a thrown fetch for a refusal.
FailedIsUnperformed ==
  \A e \in Effects :
    row[e] = "failed" /\ ~TrustsThrownFetch(e) => performed[e] = 0

\* A retry that is answered from the ledger is told of something that took
\* place, if the reconcile lookup cannot be answered by another effect.
CompletedIsPerformed ==
  \A e \in Effects :
    row[e] = "completed" /\ ExactLookup(e) => performed[e] > 0

\* What a settled row says of the effect is so.
SettledIsTruthful == FailedIsUnperformed /\ CompletedIsPerformed

\* No late write of a slow or repeated call takes back a completed effect, or
\* makes an uncertain one retryable (mark has no condition of its own).
SettledIsFinal ==
  [][\A e \in Effects :
       /\ row[e] = "completed" => row'[e] = "completed"
       /\ row[e] = "in_doubt" => row'[e] \in {"in_doubt", "completed"}]_vars

\* Every call returns: a row whose holder died cannot keep later callers
\* waiting (MAX_POLLS).
EveryCallReturns ==
  \A k \in Callers : caller[k].pc # "idle" ~> caller[k].pc = "idle"

Once == INSTANCE OnceOnly WITH
  told <- row,
  Repeatable <- {e \in Effects : Kind[e] = "update"},
  Trusting <- {e \in Effects : TrustsThrownFetch(e)},
  Exact <- {e \in Effects : ExactLookup(e)}

\* The calls, with their retries, polls and deaths, keep the promise of OnceOnly: above all,
\* no late call performs an effect of which somebody was told an outcome.
ImplementsOnce == Once!OnceSpec

-----------------------------------------------------------------------------
(* What comments of the source say, and the code does not do.              *)

\* "A retry of this turn cannot apply the edit twice" (linear.updateIssue).
UpdateAppliedOnce ==
  \A e \in Effects : Kind[e] = "update" => performed[e] <= 1

\* A reconcile lookup returns "the recorded outcome, or null when upstream
\* cannot confirm either way" (RunEffectOptions.reconcile).
ReconciledIsPerformed ==
  \A e \in Effects : Kind[e] = "pull" /\ row[e] = "completed" => performed[e] > 0
=============================================================================
