---------------------------- MODULE EffectsProofs ----------------------------
(***************************************************************************)
(* The ledger's guarantees, for any number of effects and callers; the     *)
(* safety properties of Execution, for any number of calls in flight and   *)
(* any limit; and FixIsCarried, for any number of calls that open a pull   *)
(* request and for edits of any length.                                    *)
(*                                                                         *)
(* The ledger's inductive invariant adds to the properties what a holder   *)
(* knows between winning the reservation and recording: nobody else holds  *)
(* it, and it won a row behind which nothing had taken place yet.  PullInv *)
(* adds what the working tree, the stored patch, the base and the commit   *)
(* of each call are worth at each of its steps, and who owns the branch;   *)
(* PatchInv what the cursor, the matched lines, the result and its newline *)
(* are in front of each line of the edit.                                  *)
(***************************************************************************)
EXTENDS EffectLedger, Execution, MCFix, FiniteSetTheorems, SequenceTheorems, WellFoundedInduction, TLAPS

\* Rows from which a caller may win the reservation have done nothing.
RowInv ==
  \A e \in Effects : row[e] = "absent" => performed[e] = 0

\* What a call in flight may rely on.
CallerOK(k) ==
  LET e == caller[k].effect
      pc == caller[k].pc
  IN  /\ pc # "idle" => e \in Effects
      /\ pc = "execute" /\ ~TrustsThrownFetch(e) => performed[e] = 0
      /\ pc = "record" /\ caller[k].out = "failed" /\ ~TrustsThrownFetch(e)
           => performed[e] = 0
      /\ pc = "record" /\ caller[k].out = "completed" => performed[e] > 0
      /\ pc \in {"reconcile", "confirm"} => row[e] \in {"in_doubt", "completed"}
      /\ pc = "confirm" /\ ExactLookup(e) => performed[e] > 0

CallerInv == \A k \in Callers : CallerOK(k)

LedgerInv ==
  /\ TypeOK
  /\ OneHolder
  /\ PerformedAtMostOnce
  /\ FailedIsUnperformed
  /\ CompletedIsPerformed
  /\ RowInv
  /\ CallerInv

-----------------------------------------------------------------------------
(* The helpers change the caller's own record only.                        *)

LEMMA CallerMoves ==
  ASSUME NEW k \in Callers, caller \in [Callers -> CallerRecords],
         NEW r \in CallerRecords, caller' = [caller EXCEPT ![k] = r]
  PROVE  /\ caller' \in [Callers -> CallerRecords]
         /\ caller'[k] = r
         /\ \A j \in Callers : j # k => caller'[j] = caller[j]
OBVIOUS

LEMMA IdleCallerType == IdleCaller \in CallerRecords
BY BoundsAssumption DEF IdleCaller, CallerRecords, CallerPCs, Outcomes

\* A record whose pc is outside the reservation constrains nothing but its effect.
Outside(k) ==
  caller'[k].pc \in {"idle", "read", "claim", "reclaim", "wait"}

LEMMA GotoEffect ==
  ASSUME NEW k \in Callers, NEW pc \in CallerPCs,
         caller \in [Callers -> CallerRecords], Goto(k, pc)
  PROVE  /\ caller' \in [Callers -> CallerRecords]
         /\ caller'[k] = [caller[k] EXCEPT !.pc = pc]
         /\ caller'[k].pc = pc /\ caller'[k].effect = caller[k].effect
         /\ \A j \in Callers : j # k => caller'[j] = caller[j]
BY DEF Goto, CallerRecords

LEMMA ReturnEffect ==
  ASSUME NEW k \in Callers, caller \in [Callers -> CallerRecords], Return(k)
  PROVE  /\ caller' \in [Callers -> CallerRecords]
         /\ caller'[k].pc = "idle"
         /\ \A j \in Callers : j # k => caller'[j] = caller[j]
<1>1. caller' = [caller EXCEPT ![k] = IdleCaller]
  BY DEF Return
<1>2. IdleCaller.pc = "idle"
  BY DEF IdleCaller
<1> QED BY <1>1, <1>2, IdleCallerType

LEMMA PollAgainEffect ==
  ASSUME NEW k \in Callers, caller \in [Callers -> CallerRecords], PollAgain(k)
  PROVE  /\ caller' \in [Callers -> CallerRecords]
         /\ caller'[k].pc \in {"idle", "read"}
         /\ caller'[k].pc = "read" => caller'[k].effect = caller[k].effect
         /\ \A j \in Callers : j # k => caller'[j] = caller[j]
<1>1. CASE caller[k].polls = MaxPolls
  <2>1. Return(k)
    BY <1>1 DEF PollAgain
  <2> QED BY <2>1, ReturnEffect
<1>2. CASE caller[k].polls # MaxPolls
  <2>1. caller' = [caller EXCEPT ![k].pc = "read", ![k].polls = @ + 1]
    BY <1>2 DEF PollAgain
  <2>2. caller[k].polls \in 0..MaxPolls /\ caller[k].polls + 1 \in 0..MaxPolls
    BY <1>2, BoundsAssumption DEF CallerRecords
  <2> QED BY <2>1, <2>2 DEF CallerRecords, CallerPCs
<1> QED BY <1>1, <1>2

-----------------------------------------------------------------------------
(* Steps that touch neither the row nor upstream.                          *)

\* A call that stays outside a reservation disturbs nothing.
LEMMA OutsideKeepsInv ==
  ASSUME LedgerInv, NEW k \in Callers,
         caller' \in [Callers -> CallerRecords],
         \A j \in Callers : j # k => caller'[j] = caller[j],
         Outside(k),
         caller'[k].pc # "idle" => caller'[k].effect \in Effects,
         UNCHANGED <<row, performed>>, crashes' \in Nat
  PROVE  LedgerInv'
<1>1. TypeOK'
  BY DEF LedgerInv, TypeOK
<1>2. OneHolder'
  BY DEF LedgerInv, OneHolder, Holds, Outside
<1>3. PerformedAtMostOnce' /\ FailedIsUnperformed' /\ CompletedIsPerformed' /\ RowInv'
  BY DEF LedgerInv, PerformedAtMostOnce, FailedIsUnperformed, CompletedIsPerformed, RowInv,
         TrustsThrownFetch, ExactLookup
<1>4. CallerInv'
  BY DEF LedgerInv, CallerInv, CallerOK, Outside, TrustsThrownFetch, ExactLookup
<1> QED BY <1>1, <1>2, <1>3, <1>4 DEF LedgerInv

\* A call that begins, waits, gives up or dies.
LEMMA PassiveStepsKeepInv ==
  ASSUME LedgerInv, NEW k \in Callers,
         \/ \E e \in Effects : Call(k, e) \/ Wait(k, e)
         \/ Crash(k)
  PROVE  LedgerInv'
<1> caller \in [Callers -> CallerRecords] /\ crashes \in Nat
  BY DEF LedgerInv, TypeOK
<1>1. ASSUME NEW e \in Effects, Call(k, e) PROVE LedgerInv'
  <2> DEFINE r == [IdleCaller EXCEPT !.pc = "read", !.effect = e]
  <2>1. r \in CallerRecords /\ r.pc = "read" /\ r.effect = e
    BY IdleCallerType DEF IdleCaller, CallerRecords, CallerPCs
  <2>2. caller' = [caller EXCEPT ![k] = r]
    BY <1>1 DEF Call
  <2>3. UNCHANGED <<row, performed, crashes>>
    BY <1>1 DEF Call
  <2> HIDE DEF r
  <2>4. /\ caller' \in [Callers -> CallerRecords] /\ caller'[k] = r
        /\ \A j \in Callers : j # k => caller'[j] = caller[j]
    BY <2>1, <2>2, CallerMoves
  <2> QED BY <2>1, <2>3, <2>4, OutsideKeepsInv DEF Outside
<1>2. ASSUME NEW e \in Effects, Wait(k, e) PROVE LedgerInv'
  <2>1. /\ caller' \in [Callers -> CallerRecords]
        /\ caller'[k].pc \in {"idle", "read"}
        /\ caller'[k].pc = "read" => caller'[k].effect = caller[k].effect
        /\ \A j \in Callers : j # k => caller'[j] = caller[j]
    BY <1>2, PollAgainEffect, ReturnEffect DEF Wait
  <2>2. caller[k].effect = e /\ UNCHANGED <<row, performed, crashes>>
    BY <1>2 DEF Wait, At
  <2> QED BY <2>1, <2>2, OutsideKeepsInv DEF Outside
<1>3. CASE Crash(k)
  <2>1. /\ Return(k) /\ UNCHANGED <<row, performed>> /\ crashes' = crashes + 1
    BY <1>3 DEF Crash
  <2> QED BY <2>1, ReturnEffect, OutsideKeepsInv DEF Outside
<1> QED BY <1>1, <1>2, <1>3

\* Reading the row sends a call to claim, reclaim, wait or look upstream.
LEMMA ReadKeepsInv ==
  ASSUME LedgerInv, NEW k \in Callers, NEW e \in Effects, ReadEffect(k, e)
  PROVE  LedgerInv'
<1> caller \in [Callers -> CallerRecords] /\ crashes \in Nat /\ caller[k].effect = e
  BY DEF LedgerInv, TypeOK, ReadEffect, At
<1>1. UNCHANGED <<row, performed, crashes>>
  BY DEF ReadEffect
<1>2. CASE row[e] = "in_doubt" /\ Goto(k, "reconcile")
  <2>1. "reconcile" \in CallerPCs
    BY DEF CallerPCs
  <2>2. /\ caller' \in [Callers -> CallerRecords]
        /\ caller'[k].pc = "reconcile" /\ caller'[k].effect = e
        /\ \A j \in Callers : j # k => caller'[j] = caller[j]
    BY <1>2, <2>1, GotoEffect
  <2>3. OneHolder'
    BY <1>1, <2>2 DEF LedgerInv, OneHolder, Holds
  <2>4. CallerInv'
    BY <1>1, <1>2, <2>2 DEF LedgerInv, CallerInv, CallerOK, TrustsThrownFetch, ExactLookup
  <2> QED BY <1>1, <2>2, <2>3, <2>4
          DEF LedgerInv, TypeOK, PerformedAtMostOnce, FailedIsUnperformed,
              CompletedIsPerformed, RowInv, TrustsThrownFetch, ExactLookup
<1>3. ASSUME NEW pc \in {"claim", "reclaim", "wait"}, Goto(k, pc) PROVE LedgerInv'
  <2>1. pc \in CallerPCs
    BY DEF CallerPCs
  <2>2. /\ caller' \in [Callers -> CallerRecords]
        /\ caller'[k].pc = pc /\ caller'[k].effect = e
        /\ \A j \in Callers : j # k => caller'[j] = caller[j]
    BY <1>3, <2>1, GotoEffect
  <2> QED BY <1>1, <2>2, OutsideKeepsInv DEF Outside
<1>4. CASE Return(k)
  BY <1>1, <1>4, ReturnEffect, OutsideKeepsInv DEF Outside
<1>5. row[e] \in {"absent", "reserved", "completed", "failed", "in_doubt"}
  BY DEF LedgerInv, TypeOK, States
<1> QED BY <1>2, <1>3, <1>4, <1>5 DEF ReadEffect

-----------------------------------------------------------------------------
(* Winning a reservation.                                                  *)

\* The row a caller wins was held by nobody and had done nothing.
LEMMA WinKeepsInv ==
  ASSUME LedgerInv, NEW k \in Callers, NEW e \in Effects,
         caller[k].effect = e, caller[k].pc \in {"claim", "reclaim"},
         row[e] \in {"absent", "failed"},
         row' = [row EXCEPT ![e] = "reserved"], Goto(k, "execute"),
         UNCHANGED <<performed, crashes>>
  PROVE  LedgerInv'
<1>1. /\ caller' \in [Callers -> CallerRecords]
      /\ caller'[k].pc = "execute" /\ caller'[k].effect = e
      /\ \A j \in Callers : j # k => caller'[j] = caller[j]
  <2>1. caller \in [Callers -> CallerRecords] /\ "execute" \in CallerPCs
    BY DEF LedgerInv, TypeOK, CallerPCs
  <2> QED BY <2>1, GotoEffect
<1>2. /\ row'[e] = "reserved"
      /\ \A d \in Effects : d # e => row'[d] = row[d]
  BY DEF LedgerInv, TypeOK
<1>3. TypeOK'
  BY <1>1 DEF LedgerInv, TypeOK, States
<1>4. OneHolder'
  <2>1. \A j \in Callers : ~Holds(j, e)
    BY DEF LedgerInv, OneHolder
  <2> QED BY <1>1, <1>2, <2>1 DEF LedgerInv, OneHolder, Holds
<1>5. PerformedAtMostOnce' /\ FailedIsUnperformed' /\ CompletedIsPerformed' /\ RowInv'
  BY <1>2 DEF LedgerInv, PerformedAtMostOnce, FailedIsUnperformed, CompletedIsPerformed, RowInv,
              TrustsThrownFetch, ExactLookup
<1>6. CallerInv'
  <2>1. ~TrustsThrownFetch(e) => performed[e] = 0
    BY DEF LedgerInv, RowInv, FailedIsUnperformed
  <2>2. \A j \in Callers : caller[j].pc \in {"reconcile", "confirm"} => caller[j].effect # e
    BY DEF LedgerInv, CallerInv, CallerOK
  <2> QED BY <1>1, <1>2, <2>1, <2>2 DEF LedgerInv, CallerInv, CallerOK, TrustsThrownFetch, ExactLookup
<1> QED BY <1>3, <1>4, <1>5, <1>6 DEF LedgerInv

LEMMA ClaimKeepsInv ==
  ASSUME LedgerInv, NEW k \in Callers, NEW e \in Effects, Claim(k, e) \/ Reclaim(k, e)
  PROVE  LedgerInv'
<1> caller \in [Callers -> CallerRecords] /\ crashes \in Nat
  BY DEF LedgerInv, TypeOK
<1>1. caller[k].effect = e /\ caller[k].pc \in {"claim", "reclaim"}
      /\ UNCHANGED <<performed, crashes>>
  BY DEF Claim, Reclaim, At
<1>2. CASE PollAgain(k) /\ UNCHANGED row
  <2>1. /\ caller' \in [Callers -> CallerRecords]
        /\ caller'[k].pc \in {"idle", "read"}
        /\ caller'[k].pc = "read" => caller'[k].effect = e
        /\ \A j \in Callers : j # k => caller'[j] = caller[j]
    BY <1>1, <1>2, PollAgainEffect
  <2> QED BY <1>1, <1>2, <2>1, OutsideKeepsInv DEF Outside
<1>3. CASE /\ row[e] \in {"absent", "failed"}
           /\ row' = [row EXCEPT ![e] = "reserved"] /\ Goto(k, "execute")
  BY <1>1, <1>3, WinKeepsInv
<1> QED BY <1>2, <1>3 DEF Claim, Reclaim

-----------------------------------------------------------------------------
(* Upstream, and what is recorded of it.                                   *)

LEMMA ExecuteKeepsInv ==
  ASSUME LedgerInv, NEW k \in Callers, NEW e \in Effects, Execute(k, e)
  PROVE  LedgerInv'
<1>1. PICK out \in Outcomes, n \in 0..1 :
        /\ Idempotent(e) /\ performed[e] > 0 => n = 0
        /\ out = "completed" => n = 1 \/ (Idempotent(e) /\ performed[e] > 0)
        /\ out = "failed" => n = 0 \/ TrustsThrownFetch(e)
        /\ performed' = [performed EXCEPT ![e] = @ + n]
        /\ caller' = [caller EXCEPT ![k].pc = "record", ![k].out = out]
  BY DEF Execute
<1>2. UNCHANGED <<row, crashes>> /\ Holds(k, e) /\ caller[k].pc = "execute"
  BY DEF Execute, At, Holds
<1>3. /\ caller' \in [Callers -> CallerRecords]
      /\ caller'[k].pc = "record" /\ caller'[k].effect = e /\ caller'[k].out = out
      /\ \A j \in Callers : j # k => caller'[j] = caller[j]
  BY <1>1, <1>2 DEF LedgerInv, TypeOK, CallerRecords, CallerPCs, Holds
<1>4. /\ performed[e] \in Nat
      /\ performed'[e] = performed[e] + n
      /\ \A d \in Effects : d # e => performed'[d] = performed[d]
      /\ performed' \in [Effects -> Nat]
  BY <1>1 DEF LedgerInv, TypeOK
<1>5. row[e] = "reserved" /\ \A j \in Callers : j # k => ~Holds(j, e)
  BY <1>2 DEF LedgerInv, OneHolder
<1>6. ~TrustsThrownFetch(e) => performed[e] = 0
  BY <1>2 DEF LedgerInv, CallerInv, CallerOK, Holds
<1>7. TypeOK'
  BY <1>2, <1>3, <1>4 DEF LedgerInv, TypeOK
<1>8. OneHolder'
  BY <1>2, <1>3 DEF LedgerInv, OneHolder, Holds
<1>9. PerformedAtMostOnce'
  <2>1. Kind[e] # "update" => performed'[e] <= 1
    <3>1. CASE Kind[e] = "issue"
      BY <1>1, <1>4, <3>1 DEF Idempotent, LedgerInv, PerformedAtMostOnce
    <3>2. CASE Kind[e] \notin {"issue", "update"}
      BY <1>4, <1>6, <3>2 DEF TrustsThrownFetch
    <3> QED BY <3>1, <3>2
  <2> QED BY <1>4, <2>1 DEF LedgerInv, PerformedAtMostOnce
<1>10. FailedIsUnperformed' /\ CompletedIsPerformed' /\ RowInv'
  BY <1>2, <1>4, <1>5 DEF LedgerInv, FailedIsUnperformed, CompletedIsPerformed, RowInv,
                          TrustsThrownFetch, ExactLookup
<1>11. CallerInv'
  <2>1. ASSUME NEW j \in Callers, j # k
        PROVE  /\ caller'[j] = caller[j]
               /\ caller[j].pc \in {"execute", "record"} => caller[j].effect # e
    BY <1>3, <1>5, <2>1 DEF Holds
  <2>2. \A d \in Effects : performed[d] > 0 => performed'[d] > 0
    BY <1>4 DEF LedgerInv, TypeOK
  <2>3. ~TrustsThrownFetch(e) /\ out = "failed" => performed'[e] = 0
    BY <1>1, <1>4, <1>6
  <2>4. out = "completed" => performed'[e] > 0
    BY <1>1, <1>4
  <2>5. CallerOK(k)'
    BY <1>3, <2>3, <2>4 DEF CallerOK, TrustsThrownFetch, ExactLookup
  <2>6. ASSUME NEW j \in Callers, j # k PROVE CallerOK(j)'
    <3>1. CallerOK(j) /\ caller'[j] = caller[j] /\ UNCHANGED row
      BY <1>2, <2>1, <2>6 DEF LedgerInv, CallerInv
    <3>2. CASE caller[j].pc \in {"execute", "record"}
      <4>1. caller[j].effect \in Effects /\ caller[j].effect # e
        BY <2>1, <2>6, <3>1, <3>2 DEF CallerOK
      <4>2. performed'[caller[j].effect] = performed[caller[j].effect]
        BY <1>4, <4>1
      <4> QED BY <3>1, <3>2, <4>2 DEF CallerOK, TrustsThrownFetch, ExactLookup
    <3>3. CASE caller[j].pc \notin {"execute", "record"}
      <4>1. caller[j].pc # "idle" => caller[j].effect \in Effects
        BY <3>1 DEF CallerOK
      <4> QED BY <2>2, <3>1, <3>3, <4>1 DEF CallerOK, TrustsThrownFetch, ExactLookup
    <3> QED BY <3>2, <3>3
  <2> QED BY <2>5, <2>6 DEF CallerInv
<1> QED BY <1>7, <1>8, <1>9, <1>10, <1>11 DEF LedgerInv

\* The holder, and only the holder, replaces 'reserved'; a reconciler replaces
\* 'in_doubt' or 'completed' by 'completed'.
LEMMA MarkKeepsInv ==
  ASSUME LedgerInv, NEW k \in Callers, NEW e \in Effects, NEW s \in Outcomes,
         Return(k), row' = [row EXCEPT ![e] = s],
         UNCHANGED <<performed, crashes>>,
         \/ Holds(k, e)
         \/ row[e] \in {"in_doubt", "completed"} /\ s = "completed",
         s = "failed" /\ ~TrustsThrownFetch(e) => performed[e] = 0,
         s = "completed" /\ ExactLookup(e) => performed[e] > 0
  PROVE  LedgerInv'
<1>1. /\ caller' \in [Callers -> CallerRecords]
      /\ caller'[k].pc = "idle"
      /\ \A j \in Callers : j # k => caller'[j] = caller[j]
  BY ReturnEffect DEF LedgerInv, TypeOK
<1>2. /\ row'[e] = s /\ s # "absent"
      /\ \A d \in Effects : d # e => row'[d] = row[d]
  BY DEF LedgerInv, TypeOK, Outcomes
<1>3. TypeOK'
  BY <1>1 DEF LedgerInv, TypeOK, States, Outcomes
<1>4. OneHolder'
  <2>1. \A j \in Callers : j # k => ~Holds(j, e)
    BY DEF LedgerInv, OneHolder
  <2> QED BY <1>1, <1>2, <2>1 DEF LedgerInv, OneHolder, Holds
<1>5. PerformedAtMostOnce' /\ FailedIsUnperformed' /\ CompletedIsPerformed' /\ RowInv'
  BY <1>2 DEF LedgerInv, PerformedAtMostOnce, FailedIsUnperformed, CompletedIsPerformed, RowInv,
              TrustsThrownFetch, ExactLookup
<1>6. CallerInv'
  <2>1. ASSUME NEW j \in Callers, caller[j].pc \in {"reconcile", "confirm"},
               caller[j].effect = e
        PROVE  s = "completed"
    <3>1. row[e] \in {"in_doubt", "completed"}
      BY <2>1 DEF LedgerInv, CallerInv, CallerOK
    <3>2. ~Holds(k, e)
      BY <3>1 DEF LedgerInv, OneHolder
    <3> QED BY <3>2
  <2> QED BY <1>1, <1>2, <2>1 DEF LedgerInv, CallerInv, CallerOK, TrustsThrownFetch, ExactLookup
<1> QED BY <1>3, <1>4, <1>5, <1>6 DEF LedgerInv

LEMMA RecordKeepsInv ==
  ASSUME LedgerInv, NEW k \in Callers, NEW e \in Effects, Record(k, e) \/ Confirm(k, e)
  PROVE  LedgerInv'
<1>1. CASE Record(k, e)
  <2>1. /\ Return(k) /\ row' = [row EXCEPT ![e] = caller[k].out]
        /\ UNCHANGED <<performed, crashes>> /\ Holds(k, e) /\ caller[k].pc = "record"
    BY <1>1 DEF Record, At, Holds
  <2>2. caller[k].out \in Outcomes
    BY DEF LedgerInv, TypeOK, CallerRecords
  <2>3. /\ caller[k].out = "failed" /\ ~TrustsThrownFetch(e) => performed[e] = 0
        /\ caller[k].out = "completed" => performed[e] > 0
    BY <2>1 DEF LedgerInv, CallerInv, CallerOK, Holds
  <2> QED BY <2>1, <2>2, <2>3, MarkKeepsInv
<1>2. CASE Confirm(k, e)
  <2>1. /\ Return(k) /\ row' = [row EXCEPT ![e] = "completed"]
        /\ UNCHANGED <<performed, crashes>>
        /\ caller[k].pc = "confirm" /\ caller[k].effect = e
    BY <1>2 DEF Confirm, At
  <2>2. row[e] \in {"in_doubt", "completed"} /\ (ExactLookup(e) => performed[e] > 0)
    BY <2>1 DEF LedgerInv, CallerInv, CallerOK
  <2> QED BY <2>1, <2>2, MarkKeepsInv DEF Outcomes
<1> QED BY <1>1, <1>2

LEMMA ReconcileKeepsInv ==
  ASSUME LedgerInv, NEW k \in Callers, NEW e \in Effects, Reconcile(k, e)
  PROVE  LedgerInv'
<1> caller \in [Callers -> CallerRecords] /\ crashes \in Nat
  BY DEF LedgerInv, TypeOK
<1>1. /\ caller[k].pc = "reconcile" /\ caller[k].effect = e
      /\ UNCHANGED <<row, performed, crashes>>
  BY DEF Reconcile, At
<1>2. CASE Return(k)
  BY <1>1, <1>2, ReturnEffect, OutsideKeepsInv DEF Outside
<1>3. CASE (\E d \in Answers[e] : performed[d] > 0) /\ Goto(k, "confirm")
  <2>1. /\ caller' \in [Callers -> CallerRecords]
        /\ caller'[k].pc = "confirm" /\ caller'[k].effect = e
        /\ \A j \in Callers : j # k => caller'[j] = caller[j]
    <3>1. "confirm" \in CallerPCs
      BY DEF CallerPCs
    <3> QED BY <1>1, <1>3, <3>1, GotoEffect
  <2>2. ExactLookup(e) => performed[e] > 0
    BY <1>3, AnswersAssumption DEF ExactLookup
  <2>3. row[e] \in {"in_doubt", "completed"}
    BY <1>1 DEF LedgerInv, CallerInv, CallerOK
  <2>4. OneHolder'
    BY <1>1, <2>1 DEF LedgerInv, OneHolder, Holds
  <2>5. CallerInv'
    BY <1>1, <2>1, <2>2, <2>3 DEF LedgerInv, CallerInv, CallerOK, TrustsThrownFetch, ExactLookup
  <2> QED BY <1>1, <2>1, <2>4, <2>5
          DEF LedgerInv, TypeOK, PerformedAtMostOnce, FailedIsUnperformed,
              CompletedIsPerformed, RowInv, TrustsThrownFetch, ExactLookup
<1> QED BY <1>2, <1>3 DEF Reconcile

-----------------------------------------------------------------------------
LEMMA InitInv == Init => LedgerInv
<1> SUFFICES ASSUME Init PROVE LedgerInv
  OBVIOUS
<1>1. \A k \in Callers : caller[k] = IdleCaller
  BY DEF Init
<1>2. IdleCaller.pc = "idle"
  BY DEF IdleCaller
<1>3. TypeOK
  BY IdleCallerType DEF Init, TypeOK, States
<1>4. OneHolder /\ CallerInv
  BY <1>1, <1>2 DEF OneHolder, CallerInv, CallerOK, Holds
<1>5. PerformedAtMostOnce /\ FailedIsUnperformed /\ CompletedIsPerformed /\ RowInv
  BY DEF Init, PerformedAtMostOnce, FailedIsUnperformed, CompletedIsPerformed, RowInv
<1> QED BY <1>3, <1>4, <1>5 DEF LedgerInv

LEMMA NextKeepsInv == LedgerInv /\ [Next]_vars => LedgerInv'
<1> SUFFICES ASSUME LedgerInv, [Next]_vars PROVE LedgerInv'
  OBVIOUS
<1>1. ASSUME NEW k \in Callers, CallerStep(k) PROVE LedgerInv'
  BY <1>1, PassiveStepsKeepInv, ReadKeepsInv, ClaimKeepsInv, ExecuteKeepsInv,
     RecordKeepsInv, ReconcileKeepsInv DEF CallerStep
<1>2. ASSUME NEW k \in Callers, Crash(k) \/ \E e \in Effects : Call(k, e) PROVE LedgerInv'
  BY <1>2, PassiveStepsKeepInv
<1>3. CASE UNCHANGED vars
  BY <1>3 DEF vars, LedgerInv, TypeOK, OneHolder, Holds, PerformedAtMostOnce,
              FailedIsUnperformed, CompletedIsPerformed, RowInv, CallerInv, CallerOK,
              TrustsThrownFetch, ExactLookup
<1> QED BY <1>1, <1>2, <1>3 DEF Next

\* The inductive invariant holds in every reachable state.
THEOREM LedgerInvariance == Spec => []LedgerInv
BY InitInv, NextKeepsInv, PTL DEF Spec

\* A reservation has one holder, however many calls race for it (claim, reclaim).
THEOREM OneHolderAlways == Spec => []OneHolder
<1>1. LedgerInv => OneHolder
  BY DEF LedgerInv
<1> QED BY LedgerInvariance, <1>1, PTL

\* Replies, files, pull requests and issues take place at most once (runEffect).
THEOREM AtMostOncePerformed == Spec => []PerformedAtMostOnce
<1>1. LedgerInv => PerformedAtMostOnce
  BY DEF LedgerInv
<1> QED BY LedgerInvariance, <1>1, PTL

\* Rows tell the truth: 'failed' did nothing, 'completed' took place.
THEOREM TruthfulRows == Spec => [](TypeOK /\ SettledIsTruthful)
<1>1. LedgerInv => TypeOK /\ SettledIsTruthful
  BY DEF LedgerInv, SettledIsTruthful
<1> QED BY LedgerInvariance, <1>1, PTL

\* No later write undoes a completed effect or frees an uncertain one (mark).
THEOREM SettledRowsFinal == Spec => SettledIsFinal
<1>1. LedgerInv /\ [Next]_vars =>
        \A e \in Effects :
          /\ row[e] = "completed" => row'[e] = "completed"
          /\ row[e] = "in_doubt" => row'[e] \in {"in_doubt", "completed"}
  <2> SUFFICES ASSUME LedgerInv, [Next]_vars, NEW e \in Effects
               PROVE  /\ row[e] = "completed" => row'[e] = "completed"
                      /\ row[e] = "in_doubt" => row'[e] \in {"in_doubt", "completed"}
    OBVIOUS
  <2>1. CASE UNCHANGED row
    BY <2>1
  <2>2. ASSUME NEW k \in Callers, NEW d \in Effects, Claim(k, d) \/ Reclaim(k, d)
        PROVE  row'[e] = row[e] \/ row[e] \in {"absent", "failed"}
    BY <2>2 DEF Claim, Reclaim, LedgerInv, TypeOK
  <2>3. ASSUME NEW k \in Callers, NEW d \in Effects, Record(k, d)
        PROVE  row'[e] = row[e] \/ row[e] = "reserved"
    BY <2>3 DEF Record, At, LedgerInv, TypeOK, OneHolder, Holds
  <2>4. ASSUME NEW k \in Callers, NEW d \in Effects, Confirm(k, d)
        PROVE  row'[e] = row[e] \/ row'[e] = "completed"
    BY <2>4 DEF Confirm, LedgerInv, TypeOK
  <2> QED BY <2>1, <2>2, <2>3, <2>4
          DEF Next, CallerStep, Call, ReadEffect, Wait, Execute, Reconcile, Crash, vars
<1> QED BY LedgerInvariance, <1>1, PTL DEF Spec, SettledIsFinal

\* Each step of the calls is a step of the promise, or none.
LEMMA LedgerSteps ==
  ASSUME LedgerInv, LedgerInv', [Next]_vars
  PROVE  [Once!OnceNext]_(Once!onceVars)
<1>1. TypeOK /\ OneHolder /\ PerformedAtMostOnce /\ CallerInv /\ PerformedAtMostOnce'
  BY DEF LedgerInv
<1>2. CASE UNCHANGED <<row, performed>>
  BY <1>2 DEF Once!onceVars
<1>3. ASSUME NEW k \in Callers, NEW e \in Effects, Claim(k, e) \/ Reclaim(k, e), row' # row
      PROVE  Once!Begin(e)
  BY <1>3 DEF Claim, Reclaim, Once!Begin
<1>4. ASSUME NEW k \in Callers, NEW e \in Effects, Execute(k, e)
      PROVE  UNCHANGED <<row, performed>> \/ Once!Perform(e)
  <2>1. PICK n \in 0..1 : performed' = [performed EXCEPT ![e] = @ + n]
    BY <1>4 DEF Execute
  <2>2. row[e] = "reserved" /\ row' = row
    BY <1>1, <1>4 DEF Execute, At, OneHolder, Holds
  <2>3. CASE n = 0
    <3>1. performed' = performed
      BY <1>1, <2>1, <2>3 DEF TypeOK
    <3> QED
      BY <2>2, <3>1
  <2>4. CASE n = 1
    <3>1. performed[e] \in Nat /\ performed'[e] = performed[e] + 1
      BY <1>1, <2>1, <2>4 DEF TypeOK
    <3>2. performed[e] = 0 \/ Kind[e] = "update"
      BY <1>1, <3>1 DEF PerformedAtMostOnce
    <3> QED
      BY <2>1, <2>2, <2>4, <3>2 DEF Once!Perform
  <2> QED
    BY <2>3, <2>4
<1>5. ASSUME NEW k \in Callers, NEW e \in Effects, Record(k, e)
      PROVE  Once!Conclude(e)
  <2>1. row[e] = "reserved" /\ row' = [row EXCEPT ![e] = caller[k].out] /\ performed' = performed
    BY <1>1, <1>5 DEF Record, At, OneHolder, Holds
  <2>2. /\ caller[k].pc = "record" /\ caller[k].effect = e
        /\ caller[k].out \in {"completed", "failed", "in_doubt"}
    BY <1>1, <1>5 DEF Record, At, TypeOK, CallerRecords, Outcomes
  <2>3. /\ caller[k].out = "failed" /\ ~TrustsThrownFetch(e) => performed[e] = 0
        /\ caller[k].out = "completed" => performed[e] > 0
    BY <1>1, <2>2 DEF CallerInv, CallerOK
  <2> QED
    BY <2>1, <2>2, <2>3 DEF Once!Conclude, Once!Tell
<1>6. ASSUME NEW k \in Callers, NEW e \in Effects, Confirm(k, e)
      PROVE  UNCHANGED <<row, performed>> \/ Once!Confirmed(e)
  <2>1. row' = [row EXCEPT ![e] = "completed"] /\ performed' = performed
    BY <1>6 DEF Confirm
  <2>2. row[e] \in {"in_doubt", "completed"} /\ (ExactLookup(e) => performed[e] > 0)
    BY <1>1, <1>6 DEF Confirm, At, CallerInv, CallerOK
  <2>3. CASE row[e] = "completed"
    BY <1>1, <2>1, <2>3 DEF TypeOK
  <2>4. CASE row[e] = "in_doubt"
    BY <2>1, <2>2, <2>4 DEF Once!Confirmed, Once!Tell
  <2> QED
    BY <2>2, <2>3, <2>4
<1>7. ASSUME NEW k \in Callers, NEW e \in Effects, Claim(k, e) \/ Reclaim(k, e)
      PROVE  performed' = performed
  BY <1>7 DEF Claim, Reclaim
<1>8. CASE Next
  <2>1. PICK k \in Callers :
          \/ \E e \in Effects :
               \/ ReadEffect(k, e) \/ Claim(k, e) \/ Reclaim(k, e) \/ Wait(k, e)
               \/ Execute(k, e) \/ Record(k, e) \/ Reconcile(k, e) \/ Confirm(k, e)
          \/ \E e \in Effects : Call(k, e)
          \/ Crash(k)
    BY <1>8 DEF Next, CallerStep
  <2>2. CASE \/ Crash(k)
             \/ \E e \in Effects : Call(k, e) \/ ReadEffect(k, e) \/ Wait(k, e) \/ Reconcile(k, e)
    <3>1. UNCHANGED <<row, performed>>
      BY <2>2 DEF Crash, Call, ReadEffect, Wait, Reconcile
    <3> QED
      BY <1>2, <3>1
  <2>3. CASE \E e \in Effects : Claim(k, e) \/ Reclaim(k, e)
    BY <1>2, <1>3, <1>7, <2>3 DEF Once!OnceNext
  <2>4. CASE \E e \in Effects : Execute(k, e) \/ Record(k, e) \/ Confirm(k, e)
    BY <1>2, <1>4, <1>5, <1>6, <2>4 DEF Once!OnceNext
  <2> QED
    BY <2>1, <2>2, <2>3, <2>4
<1> QED
  BY <1>2, <1>8 DEF vars

\* runEffect: whatever callers race, retry, wait or die, an effect takes place only while
\* nobody was told how it ended, and what is told of it is so and stays so.
THEOREM OnceOnlyRefined == Spec => ImplementsOnce
<1>1. Init => Once!OnceInit
  BY DEF Init, Once!OnceInit
<1> QED
  BY LedgerInvariance, <1>1, LedgerSteps, PTL DEF Spec, ImplementsOnce, Once!OnceSpec

-----------------------------------------------------------------------------
(* The execution of a program. *)

AgentRecords == [turn : Nat, live : BOOLEAN, revision : Nat, input : Nat]

ContextRecords ==
  [state : {"building", "ready", "broken"}, scope : Nat, shadow : BOOLEAN, record : Nat, used : Nat]

CallRecords ==
  [pc : {"idle", "context", "guard", "permit", "write"}, context : Nat, late : BOOLEAN, shadowed : BOOLEAN]

\* A call has a context, and is past the guard only in one that is ready.
Typed ==
  /\ agent \in AgentRecords
  /\ program \in {"none", "running", "abandoned", "over"}
  /\ contexts \in Seq(ContextRecords)
  /\ memo # Nil => memo \in 1..Len(contexts)
  /\ call \in [Calls -> CallRecords]
  /\ \A k \in Calls :
       /\ call[k].pc # "idle" => call[k].context \in 1..Len(contexts)
       /\ call[k].pc \in {"guard", "permit", "write"} => contexts[call[k].context].state = "ready"
  /\ made \in Nat /\ shadow \in BOOLEAN
  /\ bodies \in [run : Nat, disposed : Nat]

-----------------------------------------------------------------------------
(* The budget: what a context let in pays for the bodies that ran and for  *)
(* the calls about to run one; and a context beyond the first stands for a *)
(* disposal.                                                               *)

LetInBy(cs) == {p \in (1..Len(cs)) \X (1..Limit) : p[2] <= cs[p[1]].used}

LetIn == LetInBy(contexts)

Asking == {k \in Calls : call[k].pc \in {"guard", "permit"}}

Paid == bodies.run + Cardinality(Asking) <= Cardinality(LetIn)

BudgetInv ==
  /\ Paid
  /\ Len(contexts) <= bodies.disposed + (IF memo = Nil THEN 0 ELSE 1)

-----------------------------------------------------------------------------
(* The guards: as long as the program runs its turn does, and what was     *)
(* stale when a call was made is stale until the guard is asked.           *)

TurnInv ==
  /\ program = "none" =>
       contexts = <<>> /\ \A k \in Calls : call[k].pc = "idle"
  /\ program = "running" =>
       /\ agent.live /\ agent.turn = Own
       /\ \A i \in 1..Len(contexts) :
            /\ contexts[i].scope = Own
            /\ contexts[i].state = "ready" => contexts[i].record = Own
       /\ \A k \in Calls : call[k].late =>
            call[k].pc \in {"idle", "context", "guard"} /\ (call[k].pc # "idle" => Stale)

ShadowInv ==
  \A k \in Calls : call[k].shadowed => shadow /\ call[k].pc # "write"

WroteInv == StopsWhenSuperseded /\ ShadowStopsWrites /\ OwnRecord

ExecInv == Typed /\ BudgetInv /\ TurnInv /\ ShadowInv /\ WroteInv

-----------------------------------------------------------------------------
(* What the steps of a call do to the call, and what those of a context do *)
(* to the contexts.                                                        *)

LEMMA IdleCallTyped ==
  /\ IdleCall \in CallRecords /\ IdleCall.pc = "idle"
  /\ ~IdleCall.late /\ ~IdleCall.shadowed
BY DEF IdleCall, CallRecords

\* A call that ends is idle, and the others go on.
LEMMA EndsEffect ==
  ASSUME Typed, NEW k \in Calls, Ends(k)
  PROVE  /\ call' \in [Calls -> CallRecords]
         /\ call'[k] = IdleCall
         /\ \A j \in Calls : j # k => call'[j] = call[j]
BY IdleCallTyped DEF Ends, Typed

\* A call that goes on keeps its context, and what was true when it was asked for.
LEMMA MovesEffect ==
  ASSUME Typed, NEW k \in Calls, NEW pc \in {"guard", "permit", "write"},
         call' = [call EXCEPT ![k].pc = pc]
  PROVE  /\ call' \in [Calls -> CallRecords]
         /\ call'[k].pc = pc /\ call'[k].context = call[k].context
         /\ call'[k].late = call[k].late /\ call'[k].shadowed = call[k].shadowed
         /\ \A j \in Calls : j # k => call'[j] = call[j]
<1>1. call \in [Calls -> CallRecords] /\ call[k] \in CallRecords
  BY DEF Typed
<1>2. [call[k] EXCEPT !.pc = pc] \in CallRecords
  BY <1>1 DEF CallRecords
<1>3. call' = [call EXCEPT ![k] = [call[k] EXCEPT !.pc = pc]]
  BY <1>1
<1> QED BY <1>1, <1>2, <1>3 DEF CallRecords

\* The contexts after a step that leaves their number alone.
LEMMA ContextEffect ==
  ASSUME Typed, NEW i \in 1..Len(contexts), NEW c \in ContextRecords,
         contexts' = [contexts EXCEPT ![i] = c]
  PROVE  /\ contexts' \in Seq(ContextRecords) /\ Len(contexts') = Len(contexts)
         /\ contexts'[i] = c
         /\ \A j \in 1..Len(contexts) : j # i => contexts'[j] = contexts[j]
<1>1. contexts \in Seq(ContextRecords)
  BY DEF Typed
<1> QED BY <1>1, ExceptSeq

LEMMA BuiltEffect ==
  ASSUME Typed, NEW i \in DOMAIN contexts, Built(i)
  PROVE  /\ i \in 1..Len(contexts) /\ contexts[i].state = "building"
         /\ contexts' \in Seq(ContextRecords) /\ Len(contexts') = Len(contexts)
         /\ contexts'[i].scope = contexts[i].scope /\ contexts'[i].used = contexts[i].used
         /\ contexts'[i].state = "ready" => contexts'[i].record = agent.turn
         /\ \A j \in 1..Len(contexts) : j # i => contexts'[j] = contexts[j]
<1>1. contexts \in Seq(ContextRecords) /\ agent \in AgentRecords /\ shadow \in BOOLEAN
  BY DEF Typed
<1>2. i \in 1..Len(contexts) /\ contexts[i] \in ContextRecords
  BY <1>1, LenProperties
<1>3. agent.turn \in Nat
  BY <1>1 DEF AgentRecords
<1>4. CASE contexts' = [contexts EXCEPT ![i].state = "ready", ![i].record = agent.turn,
                                        ![i].shadow = shadow]
  <2> DEFINE c == [contexts[i] EXCEPT !.state = "ready", !.record = agent.turn, !.shadow = shadow]
  <2>1. c \in ContextRecords /\ c.scope = contexts[i].scope /\ c.used = contexts[i].used
        /\ c.record = agent.turn
    BY <1>1, <1>2, <1>3 DEF ContextRecords
  <2>2. contexts' = [contexts EXCEPT ![i] = c]
    BY <1>2, <1>4
  <2> HIDE DEF c
  <2> QED BY <1>2, <2>1, <2>2, ContextEffect DEF Built
<1>5. CASE contexts' = [contexts EXCEPT ![i].state = "broken"]
  <2> DEFINE c == [contexts[i] EXCEPT !.state = "broken"]
  <2>1. c \in ContextRecords /\ c.scope = contexts[i].scope /\ c.used = contexts[i].used
        /\ c.state = "broken"
    BY <1>2 DEF ContextRecords
  <2>2. contexts' = [contexts EXCEPT ![i] = c]
    BY <1>2, <1>5
  <2> HIDE DEF c
  <2> QED BY <1>2, <2>1, <2>2, ContextEffect DEF Built
<1> QED BY <1>4, <1>5 DEF Built

LEMMA EnterEffect ==
  ASSUME Typed, NEW k \in Calls, Enter(k)
  PROVE  LET i == call[k].context IN
         /\ i \in 1..Len(contexts) /\ contexts[i].used \in Nat
         /\ contexts' \in Seq(ContextRecords) /\ Len(contexts') = Len(contexts)
         /\ contexts'[i].used = contexts[i].used + 1
         /\ contexts'[i].state = "ready" /\ contexts[i].state = "ready"
         /\ contexts'[i].scope = contexts[i].scope /\ contexts'[i].record = contexts[i].record
         /\ \A j \in 1..Len(contexts) : j # i => contexts'[j] = contexts[j]
<1> DEFINE i == call[k].context
           c == [contexts[i] EXCEPT !.used = @ + 1]
<1>1. i \in 1..Len(contexts) /\ contexts \in Seq(ContextRecords)
  BY DEF Typed, Enter
<1>2. contexts[i] \in ContextRecords
  BY <1>1, LenProperties
<1>3. contexts[i].used \in Nat /\ contexts[i].state = "ready"
  BY <1>2 DEF ContextRecords, Enter
<1>4. c \in ContextRecords /\ c.used = contexts[i].used + 1 /\ c.state = "ready"
      /\ c.scope = contexts[i].scope /\ c.record = contexts[i].record
  BY <1>2, <1>3 DEF ContextRecords
<1>5. contexts' = [contexts EXCEPT ![i] = c]
  BY <1>1 DEF Enter
<1> HIDE DEF i, c
<1>6. /\ contexts' \in Seq(ContextRecords) /\ Len(contexts') = Len(contexts)
      /\ contexts'[i] = c
      /\ \A j \in 1..Len(contexts) : j # i => contexts'[j] = contexts[j]
  BY <1>1, <1>4, <1>5, ContextEffect
<1>7. i \in 1..Len(contexts) /\ contexts[i].used \in Nat /\ contexts[i].state = "ready"
      /\ contexts'[i].used = contexts[i].used + 1 /\ contexts'[i].state = "ready"
      /\ contexts'[i].scope = contexts[i].scope /\ contexts'[i].record = contexts[i].record
  BY <1>1, <1>3, <1>4, <1>6
<1> QED BY <1>6, <1>7 DEF i

\* A first call builds the context, and the others wait for that one.
LEMMA InvokeEffect ==
  ASSUME Typed, NEW k \in Calls, Invoke(k)
  PROVE  /\ program \in {"running", "abandoned"} /\ call[k].pc = "idle"
         /\ contexts' \in Seq(ContextRecords)
         /\ \A j \in 1..Len(contexts) : contexts'[j] = contexts[j]
         /\ IF memo = Nil
            THEN /\ Len(contexts') = Len(contexts) + 1
                 /\ contexts'[Len(contexts) + 1] = Building
            ELSE Len(contexts') = Len(contexts)
         /\ memo' \in 1..Len(contexts') /\ memo' # Nil
         /\ call' \in [Calls -> CallRecords]
         /\ call'[k] = [pc |-> "context", context |-> memo',
                        late |-> Superseded, shadowed |-> shadow]
         /\ \A j \in Calls : j # k => call'[j] = call[j]
<1>1. contexts \in Seq(ContextRecords) /\ Len(contexts) \in Nat /\ agent \in AgentRecords
      /\ shadow \in BOOLEAN /\ call \in [Calls -> CallRecords]
  BY LenProperties DEF Typed
<1>2. Building \in ContextRecords
  BY <1>1 DEF Building, ContextRecords, AgentRecords
<1>3. program \in {"running", "abandoned"} /\ call[k].pc = "idle"
  BY IdleCallTyped DEF Invoke
<1>4. /\ contexts' = IF memo = Nil THEN Append(contexts, Building) ELSE contexts
      /\ memo' = IF memo = Nil THEN Len(contexts) + 1 ELSE memo
  BY DEF Invoke, Memo
<1>5. /\ contexts' \in Seq(ContextRecords)
      /\ \A j \in 1..Len(contexts) : contexts'[j] = contexts[j]
      /\ IF memo = Nil
         THEN /\ Len(contexts') = Len(contexts) + 1
              /\ contexts'[Len(contexts) + 1] = Building
         ELSE Len(contexts') = Len(contexts)
  BY <1>1, <1>2, <1>4, AppendProperties
<1>6. memo' \in 1..Len(contexts') /\ memo' \in Nat /\ memo' # Nil
  BY <1>1, <1>4, <1>5, NilAssumption DEF Typed
<1> DEFINE c == [pc |-> "context", context |-> memo',
                 late |-> Superseded, shadowed |-> shadow]
<1>7. Superseded \in BOOLEAN
  BY DEF Superseded
<1>8. c \in CallRecords
  BY <1>1, <1>6, <1>7 DEF CallRecords
<1>9. call' = [call EXCEPT ![k] = c]
  BY <1>4 DEF Invoke, Memo
<1> HIDE DEF c
<1>10. call' \in [Calls -> CallRecords] /\ call'[k] = c
       /\ \A j \in Calls : j # k => call'[j] = call[j]
  BY <1>1, <1>8, <1>9
<1> QED BY <1>3, <1>5, <1>6, <1>10 DEF c

-----------------------------------------------------------------------------
(* Types.                                                                  *)

\* The steps of the object, of the operator and of the executor leave contexts and calls alone.
Around ==
  \/ BeginTurn \/ Supersede \/ EndTurn \/ Shadow \/ RunCode \/ ProgramReturns \/ Abandon \/ Dispose

LEMMA AroundKeepsTyped ==
  ASSUME Typed, Around
  PROVE  Typed'
<1>1. contexts' = contexts /\ call' = call /\ made' = made
  BY DEF Around, BeginTurn, Supersede, EndTurn, Shadow, RunCode, ProgramReturns, Abandon, Dispose
<1>2. agent' \in AgentRecords
  <2>1. agent \in AgentRecords
    BY DEF Typed
  <2>2. CASE BeginTurn
    <3>1. PICK r \in 0..agent.input :
            agent' = [agent EXCEPT !.turn = @ + 1, !.live = TRUE, !.revision = r]
      BY <2>2 DEF BeginTurn
    <3>2. r \in Nat
      BY <2>1, <3>1 DEF AgentRecords
    <3>3. agent.turn + 1 \in Nat
      BY <2>1 DEF AgentRecords
    <3>4. [agent EXCEPT !.turn = agent.turn + 1, !.live = TRUE, !.revision = r] \in AgentRecords
      BY <2>1, <3>2, <3>3 DEF AgentRecords
    <3> QED BY <3>1, <3>4
  <2>3. CASE Supersede
    BY <2>1, <2>3 DEF Supersede, AgentRecords
  <2>4. CASE EndTurn
    BY <2>1, <2>4 DEF EndTurn, AgentRecords
  <2>5. CASE agent' = agent
    BY <2>1, <2>5
  <2> QED BY <2>2, <2>3, <2>4, <2>5
          DEF Around, Shadow, RunCode, ProgramReturns, Abandon, Dispose
<1>3. program' \in {"none", "running", "abandoned", "over"} /\ shadow' \in BOOLEAN
  BY DEF Around, BeginTurn, Supersede, EndTurn, Shadow, RunCode, ProgramReturns, Abandon, Dispose,
         Typed
<1>4. memo' \in {memo, Nil}
  BY DEF Around, BeginTurn, Supersede, EndTurn, Shadow, RunCode, ProgramReturns, Abandon, Dispose
<1>5. bodies' \in [run : Nat, disposed : Nat]
  <2>1. bodies \in [run : Nat, disposed : Nat]
    BY DEF Typed
  <2>2. bodies' = bodies \/ bodies' = [bodies EXCEPT !.disposed = @ + 1]
    BY DEF Around, BeginTurn, Supersede, EndTurn, Shadow, RunCode, ProgramReturns, Abandon, Dispose
  <2> QED BY <2>1, <2>2
<1> QED BY <1>1, <1>2, <1>3, <1>4, <1>5 DEF Typed

\* A step that ends call k and leaves the contexts alone.
LEMMA EndKeepsTyped ==
  ASSUME Typed, NEW k \in Calls, Ends(k), contexts' = contexts,
         UNCHANGED <<agent, program, memo, made, shadow>>,
         bodies' \in [run : Nat, disposed : Nat]
  PROVE  Typed'
BY EndsEffect, IdleCallTyped DEF Typed

LEMMA InvokeKeepsTyped ==
  ASSUME Typed, NEW k \in Calls, Invoke(k)
  PROVE  Typed'
<1>1. Len(contexts) \in Nat /\ Len(contexts') \in Nat /\ Len(contexts) <= Len(contexts')
  BY InvokeEffect, LenProperties DEF Typed
<1>2. ASSUME NEW j \in Calls
      PROVE  /\ call'[j].pc # "idle" => call'[j].context \in 1..Len(contexts')
             /\ call'[j].pc \in {"guard", "permit", "write"} =>
                  contexts'[call'[j].context].state = "ready"
  <2>1. CASE j = k
    BY <2>1, InvokeEffect
  <2>2. CASE j # k
    <3>1. call'[j] = call[j] /\ \A i \in 1..Len(contexts) : contexts'[i] = contexts[i]
      BY <2>2, InvokeEffect
    <3>2. call[j].pc # "idle" => call[j].context \in 1..Len(contexts)
      BY DEF Typed
    <3>3. call[j].pc \in {"guard", "permit", "write"} => contexts[call[j].context].state = "ready"
      BY DEF Typed
    <3>4. call[j].pc \in {"guard", "permit", "write"} => call[j].pc # "idle"
      OBVIOUS
    <3> QED BY <1>1, <3>1, <3>2, <3>3, <3>4
  <2> QED BY <2>1, <2>2
<1>3. made' \in Nat /\ UNCHANGED <<agent, program, shadow, bodies>>
  BY DEF Invoke, Typed
<1> QED BY <1>2, <1>3, InvokeEffect DEF Typed

LEMMA BuiltKeepsTyped ==
  ASSUME Typed, NEW i \in DOMAIN contexts, Built(i)
  PROVE  Typed'
<1>1. UNCHANGED <<agent, program, memo, call, made, shadow, bodies>>
  BY DEF Built
<1>2. \A k \in Calls : call[k].pc \in {"guard", "permit", "write"} =>
        contexts'[call[k].context].state = "ready"
  BY BuiltEffect DEF Typed
<1> QED BY <1>1, <1>2, BuiltEffect DEF Typed

LEMMA EnterKeepsTyped ==
  ASSUME Typed, NEW k \in Calls, Enter(k)
  PROVE  Typed'
<1>1. UNCHANGED <<agent, program, memo, made, shadow, bodies>>
  BY DEF Enter
<1>2. \A i \in 1..Len(contexts) : contexts[i].state = "ready" => contexts'[i].state = "ready"
  BY EnterEffect
<1>3. call[k].context \in 1..Len(contexts) /\ contexts[call[k].context].state = "ready"
  BY EnterEffect
<1>4. CASE call' = [call EXCEPT ![k].pc = "guard"]
  <2>1. /\ call' \in [Calls -> CallRecords]
        /\ call'[k].context = call[k].context
        /\ \A j \in Calls : j # k => call'[j] = call[j]
    BY <1>4, MovesEffect
  <2>2. contexts' \in Seq(ContextRecords) /\ Len(contexts') = Len(contexts)
    BY EnterEffect
  <2>3. contexts'[call[k].context].state = "ready"
    BY <1>2, <1>3
  <2> QED BY <1>1, <1>2, <1>3, <2>1, <2>2, <2>3 DEF Typed
<1>5. CASE Ends(k)
  BY <1>1, <1>2, <1>3, <1>5, EndsEffect, IdleCallTyped, EnterEffect DEF Typed
<1> QED BY <1>4, <1>5 DEF Enter

LEMMA AssertFreshKeepsTyped ==
  ASSUME Typed, NEW k \in Calls, AssertFresh(k)
  PROVE  Typed'
<1>1. UNCHANGED <<agent, program, memo, contexts, made, shadow, bodies>>
  BY DEF AssertFresh
<1>2. CASE call' = [call EXCEPT ![k].pc = "permit"]
  <2>1. /\ call' \in [Calls -> CallRecords]
        /\ call'[k].context = call[k].context
        /\ \A j \in Calls : j # k => call'[j] = call[j]
    BY <1>2, MovesEffect
  <2>2. call[k].pc = "guard"
    BY DEF AssertFresh
  <2>3. /\ call[k].context \in 1..Len(contexts)
        /\ contexts[call[k].context].state = "ready"
    BY <2>2 DEF Typed
  <2> QED BY <1>1, <2>1, <2>3 DEF Typed
<1>3. CASE Ends(k)
  BY <1>1, <1>3, EndKeepsTyped DEF Typed
<1> QED BY <1>2, <1>3 DEF AssertFresh

LEMMA PermitKeepsTyped ==
  ASSUME Typed, NEW k \in Calls, Permit(k)
  PROVE  Typed'
<1>1. UNCHANGED <<agent, program, memo, contexts, made, shadow>>
  BY DEF Permit
<1>2. bodies' \in [run : Nat, disposed : Nat]
  BY DEF Permit, Typed
<1>3. CASE call' = [call EXCEPT ![k].pc = "write"]
  <2>1. /\ call' \in [Calls -> CallRecords]
        /\ call'[k].context = call[k].context
        /\ \A j \in Calls : j # k => call'[j] = call[j]
    BY <1>3, MovesEffect
  <2>2. call[k].pc = "permit"
    BY DEF Permit
  <2>3. /\ call[k].context \in 1..Len(contexts)
        /\ contexts[call[k].context].state = "ready"
    BY <2>2 DEF Typed
  <2> QED BY <1>1, <1>2, <2>1, <2>3 DEF Typed
<1>4. CASE Ends(k)
  BY <1>1, <1>2, <1>4, EndKeepsTyped
<1> QED BY <1>3, <1>4 DEF Permit

LEMMA NextKeepsTyped ==
  ASSUME Typed, ExecNext
  PROVE  Typed'
<1>1. CASE Around
  BY <1>1, AroundKeepsTyped
<1>2. ASSUME NEW k \in Calls, Invoke(k)
      PROVE  Typed'
  BY <1>2, InvokeKeepsTyped
<1>3. ASSUME NEW k \in Calls, Broken(k) \/ Perform(k)
      PROVE  Typed'
  <2>1. Ends(k) /\ contexts' = contexts /\ UNCHANGED <<agent, program, memo, made, shadow, bodies>>
    BY <1>3 DEF Broken, Perform
  <2> QED BY <2>1, EndKeepsTyped DEF Typed
<1>4. ASSUME NEW k \in Calls, Enter(k)
      PROVE  Typed'
  BY <1>4, EnterKeepsTyped
<1>5. ASSUME NEW k \in Calls, Permit(k)
      PROVE  Typed'
  BY <1>5, PermitKeepsTyped
<1>6. ASSUME NEW i \in DOMAIN contexts, Built(i)
      PROVE  Typed'
  BY <1>6, BuiltKeepsTyped
<1>7. ASSUME NEW k \in Calls, AssertFresh(k)
      PROVE  Typed'
  BY <1>7, AssertFreshKeepsTyped
<1> QED BY <1>1, <1>2, <1>3, <1>4, <1>5, <1>6, <1>7 DEF ExecNext, Around

-----------------------------------------------------------------------------
(* The budget.                                                             *)

LEMMA UsedTyped ==
  ASSUME NEW cs \in Seq(ContextRecords), NEW i \in 1..Len(cs)
  PROVE  cs[i].used \in Nat
<1>1. cs[i] \in ContextRecords
  BY LenProperties
<1> QED BY <1>1 DEF ContextRecords

LEMMA UpTo ==
  ASSUME NEW n \in Nat
  PROVE  IsFiniteSet(1..n) /\ Cardinality(1..n) = n
<1>1. Cardinality(1..n) = IF 1 > n THEN 0 ELSE n - 1 + 1
  BY FS_Interval
<1> QED BY <1>1, FS_Interval

LEMMA LetInBounded ==
  ASSUME NEW cs \in Seq(ContextRecords)
  PROVE  /\ IsFiniteSet(LetInBy(cs)) /\ Cardinality(LetInBy(cs)) \in Nat
         /\ Cardinality(LetInBy(cs)) <= Len(cs) * Limit
<1> DEFINE S == 1..Len(cs)
           T == 1..Limit
<1>1. Len(cs) \in Nat /\ Limit \in Nat
  BY LenProperties, LimitAssumption
<1>2. IsFiniteSet(S) /\ Cardinality(S) = Len(cs) /\ IsFiniteSet(T) /\ Cardinality(T) = Limit
  BY <1>1, UpTo
<1>3. IsFiniteSet(S \X T) /\ Cardinality(S \X T) = Len(cs) * Limit
  <2> HIDE DEF S, T
  <2> QED BY <1>2, FS_Product
<1>4. LetInBy(cs) \in SUBSET (S \X T)
  BY DEF LetInBy
<1> HIDE DEF S, T
<1>5. IsFiniteSet(LetInBy(cs)) /\ Cardinality(LetInBy(cs)) <= Cardinality(S \X T)
  BY <1>3, <1>4, FS_Subset
<1> QED BY <1>3, <1>5, FS_CardinalityType

LEMMA AskingFinite ==
  ASSUME NEW S \in SUBSET Calls
  PROVE  IsFiniteSet(S) /\ Cardinality(S) \in Nat
<1>1. IsFiniteSet(Calls)
  BY InFlightAssumption, FS_Interval DEF Calls
<1> QED BY <1>1, FS_Subset, FS_CardinalityType

\* Whoever lets no body run, and nobody near to one, owes no more than before.
LEMMA PaidStays ==
  ASSUME Typed, Typed', Paid, bodies'.run = bodies.run, Asking' \subseteq Asking,
         LetIn \subseteq LetIn'
  PROVE  Paid'
<1>1. /\ IsFiniteSet(LetIn') /\ Cardinality(LetIn') \in Nat
      /\ IsFiniteSet(LetIn) /\ Cardinality(LetIn) \in Nat
  BY LetInBounded DEF LetIn, Typed
<1>2. Cardinality(LetIn) <= Cardinality(LetIn')
  BY <1>1, FS_Subset
<1>3. Asking \in SUBSET Calls
  BY DEF Asking
<1>4. /\ IsFiniteSet(Asking) /\ Cardinality(Asking) \in Nat
      /\ IsFiniteSet(Asking') /\ Cardinality(Asking') \in Nat
      /\ Cardinality(Asking') <= Cardinality(Asking)
  <2>1. Asking' \in SUBSET Calls
    BY <1>3
  <2> QED BY <1>3, <2>1, AskingFinite, FS_Subset
<1>5. bodies.run \in Nat
  BY DEF Typed
<1> QED BY <1>1, <1>2, <1>4, <1>5 DEF Paid

\* The contexts of before let in what they let in, and a new one nothing yet.
LEMMA LetInGrows ==
  ASSUME Typed, Typed', Len(contexts) <= Len(contexts'),
         \A i \in 1..Len(contexts) : contexts'[i].used >= contexts[i].used
  PROVE  LetIn \subseteq LetIn'
<1>1. Len(contexts) \in Nat /\ Len(contexts') \in Nat
  BY LenProperties DEF Typed
<1>2. \A i \in 1..Len(contexts) : contexts[i].used \in Nat
  BY UsedTyped DEF Typed
<1>3. \A i \in 1..Len(contexts) : contexts'[i].used \in Nat
  <2>1. \A i \in 1..Len(contexts') : contexts'[i].used \in Nat
    BY UsedTyped DEF Typed
  <2> QED BY <1>1, <2>1
<1>4. ASSUME NEW i \in 1..Len(contexts), NEW n \in 1..Limit, n <= contexts[i].used
      PROVE  i \in 1..Len(contexts') /\ n <= contexts'[i].used
  <2>1. contexts[i].used \in Nat /\ contexts'[i].used \in Nat /\ n \in Int
    BY <1>2, <1>3, LimitAssumption
  <2>2. contexts'[i].used >= contexts[i].used
    OBVIOUS
  <2> QED BY <1>1, <1>4, <2>1, <2>2
<1> QED BY <1>4 DEF LetIn, LetInBy

LEMMA EnterKeepsPaid ==
  ASSUME Typed, Typed', Paid, NEW k \in Calls, Enter(k)
  PROVE  Paid'
<1> DEFINE i == call[k].context
           n == contexts[i].used + 1
<1>1. /\ i \in 1..Len(contexts) /\ contexts[i].used \in Nat /\ Len(contexts') = Len(contexts)
      /\ contexts'[i].used = n
      /\ \A j \in 1..Len(contexts) : j # i => contexts'[j] = contexts[j]
  BY EnterEffect
<1>2. \A j \in 1..Len(contexts) : contexts[j].used \in Nat
  BY UsedTyped DEF Typed
<1>3. LetIn \subseteq LetIn'
  <2>1. \A j \in 1..Len(contexts) : contexts'[j].used >= contexts[j].used
    BY <1>1, <1>2
  <2>2. Len(contexts) <= Len(contexts')
    BY <1>1, LenProperties DEF Typed
  <2> QED BY <2>1, <2>2, LetInGrows
<1>4. call[k].pc = "context" /\ UNCHANGED bodies
  BY DEF Enter
<1>5. CASE Ends(k)
  <2>1. Asking' \subseteq Asking
    BY <1>5, EndsEffect, IdleCallTyped DEF Asking
  <2> QED BY <1>3, <1>4, <2>1, PaidStays
<1>6. CASE n <= Limit /\ call' = [call EXCEPT ![k].pc = "guard"]
  <2>1. Asking' = Asking \cup {k}
    <3>1. call'[k].pc = "guard" /\ \A j \in Calls : j # k => call'[j] = call[j]
      BY <1>6, MovesEffect
    <3> QED BY <3>1 DEF Asking
  <2>2. k \notin Asking /\ Asking \in SUBSET Calls
    BY <1>4 DEF Asking
  <2>3. Cardinality(Asking') = Cardinality(Asking) + 1 /\ Cardinality(Asking) \in Nat
    BY <2>1, <2>2, AskingFinite, FS_AddElement
  <2>4. n \in 1..Limit
    BY <1>1, <1>6, LimitAssumption
  <2>5. <<i, n>> \in LetIn'
    <3>1. i \in 1..Len(contexts')
      BY <1>1
    <3>2. n <= contexts'[i].used
      BY <1>1
    <3> HIDE DEF i, n
    <3> QED BY <2>4, <3>1, <3>2 DEF LetIn, LetInBy
  <2>6. <<i, n>> \notin LetIn
    BY <1>1 DEF LetIn, LetInBy
  <2>7. /\ IsFiniteSet(LetIn') /\ Cardinality(LetIn') \in Nat
        /\ IsFiniteSet(LetIn) /\ Cardinality(LetIn) \in Nat
    BY LetInBounded DEF LetIn, Typed
  <2> HIDE DEF i, n
  <2>8. Cardinality(LetIn \cup {<<i, n>>}) = Cardinality(LetIn) + 1
    BY <2>6, <2>7, FS_AddElement
  <2>9. LetIn \cup {<<i, n>>} \in SUBSET LetIn'
    BY <1>3, <2>5
  <2>10. Cardinality(LetIn) + 1 <= Cardinality(LetIn')
    BY <2>7, <2>8, <2>9, FS_Subset
  <2>11. bodies.run \in Nat /\ bodies' = bodies
    BY <1>4 DEF Typed
  <2> QED BY <2>3, <2>7, <2>10, <2>11 DEF Paid
<1> QED BY <1>5, <1>6 DEF Enter

\* A body that runs is one that was about to.
LEMMA PermitKeepsPaid ==
  ASSUME Typed, Typed', Paid, NEW k \in Calls, Permit(k)
  PROVE  Paid'
<1>1. contexts' = contexts /\ LetIn' = LetIn /\ call[k].pc = "permit"
  BY DEF Permit, LetIn
<1>2. \A j \in Calls : j # k => call'[j] = call[j]
  BY MovesEffect, EndsEffect DEF Permit
<1>3. call'[k].pc \notin {"guard", "permit"}
  BY MovesEffect, EndsEffect, IdleCallTyped DEF Permit
<1>4. Asking' = Asking \ {k} /\ k \in Asking /\ Asking \in SUBSET Calls
  BY <1>1, <1>2, <1>3 DEF Asking
<1>5. Cardinality(Asking') = Cardinality(Asking) - 1 /\ Cardinality(Asking) \in Nat
  BY <1>4, AskingFinite, FS_RemoveElement
<1>6. Cardinality(LetIn) \in Nat
  BY LetInBounded DEF LetIn, Typed
<1>7. bodies.run \in Nat /\ bodies'.run \in {bodies.run, bodies.run + 1}
  BY DEF Permit, Typed
<1> QED BY <1>1, <1>5, <1>6, <1>7 DEF Paid

LEMMA NextKeepsBudget ==
  ASSUME Typed, Typed', BudgetInv, ExecNext
  PROVE  BudgetInv'
<1>1. CASE Around
  <2>1. contexts' = contexts /\ call' = call
    BY <1>1 DEF Around, BeginTurn, Supersede, EndTurn, Shadow, RunCode, ProgramReturns, Abandon,
                Dispose
  <2>2. Asking' = Asking /\ LetIn' = LetIn
    BY <2>1 DEF Asking, LetIn
  <2>3. bodies'.run = bodies.run /\ bodies.disposed \in Nat
    BY <1>1 DEF Around, BeginTurn, Supersede, EndTurn, Shadow, RunCode, ProgramReturns, Abandon,
                Dispose, Typed
  <2>4. Paid'
    BY <2>2, <2>3, PaidStays DEF BudgetInv
  <2>5. \/ memo' = memo /\ bodies' = bodies
        \/ memo # Nil /\ memo' = Nil /\ bodies'.disposed = bodies.disposed + 1
    BY <1>1 DEF Around, BeginTurn, Supersede, EndTurn, Shadow, RunCode, ProgramReturns, Abandon,
                Dispose, Typed
  <2> QED BY <2>1, <2>3, <2>4, <2>5 DEF BudgetInv
<1>2. ASSUME NEW k \in Calls, Invoke(k)
      PROVE  BudgetInv'
  <2>1. Len(contexts) \in Nat /\ Len(contexts) <= Len(contexts')
    BY <1>2, InvokeEffect, LenProperties DEF Typed
  <2>2. \A i \in 1..Len(contexts) : contexts[i].used \in Nat
    BY UsedTyped DEF Typed
  <2>3. LetIn \subseteq LetIn'
    BY <1>2, <2>1, <2>2, InvokeEffect, LetInGrows
  <2>4. Asking' \subseteq Asking
    BY <1>2, InvokeEffect DEF Asking
  <2>5. bodies' = bodies /\ bodies.disposed \in Nat
    BY <1>2 DEF Invoke, Typed
  <2>6. Paid'
    BY <2>3, <2>4, <2>5, PaidStays DEF BudgetInv
  <2> QED BY <1>2, <2>1, <2>5, <2>6, InvokeEffect DEF BudgetInv
<1>3. ASSUME NEW k \in Calls, Broken(k) \/ Perform(k)
      PROVE  BudgetInv'
  <2>1. Ends(k) /\ contexts' = contexts /\ UNCHANGED <<memo, bodies>>
    BY <1>3 DEF Broken, Perform
  <2>2. Asking' \subseteq Asking /\ LetIn' = LetIn
    BY <2>1, EndsEffect, IdleCallTyped DEF Asking, LetIn
  <2> QED BY <2>1, <2>2, PaidStays DEF BudgetInv
<1>4. ASSUME NEW k \in Calls, Enter(k)
      PROVE  BudgetInv'
  <2>1. UNCHANGED <<memo, bodies>> /\ Len(contexts') = Len(contexts)
    BY <1>4, EnterEffect DEF Enter
  <2> QED BY <1>4, <2>1, EnterKeepsPaid DEF BudgetInv
<1>5. ASSUME NEW k \in Calls, Permit(k)
      PROVE  BudgetInv'
  <2>1. UNCHANGED <<memo, contexts>> /\ bodies'.disposed = bodies.disposed
    BY <1>5 DEF Permit, Typed
  <2> QED BY <1>5, <2>1, PermitKeepsPaid DEF BudgetInv
<1>6. ASSUME NEW i \in DOMAIN contexts, Built(i)
      PROVE  BudgetInv'
  <2>1. UNCHANGED <<memo, call, bodies>>
    BY <1>6 DEF Built
  <2>2. \A j \in 1..Len(contexts) : contexts[j].used \in Nat /\ contexts'[j].used = contexts[j].used
    BY <1>6, BuiltEffect, UsedTyped DEF Typed
  <2>3. Len(contexts) \in Nat /\ Len(contexts') = Len(contexts)
    BY <1>6, BuiltEffect, LenProperties DEF Typed
  <2>4. LetIn \subseteq LetIn'
    BY <2>2, <2>3, LetInGrows
  <2>5. Asking' = Asking
    BY <2>1 DEF Asking
  <2> QED BY <2>1, <2>3, <2>4, <2>5, PaidStays DEF BudgetInv
<1>7. ASSUME NEW k \in Calls, AssertFresh(k)
      PROVE  BudgetInv'
  <2>1. UNCHANGED <<memo, contexts, bodies>> /\ call[k].pc = "guard"
    BY <1>7 DEF AssertFresh
  <2>2. \A j \in Calls : j # k => call'[j] = call[j]
    BY <1>7, EndsEffect, MovesEffect DEF AssertFresh
  <2>3. Asking' \subseteq Asking /\ LetIn' = LetIn
    BY <2>1, <2>2 DEF Asking, LetIn
  <2> QED BY <2>1, <2>3, PaidStays DEF BudgetInv
<1> QED BY <1>1, <1>2, <1>3, <1>4, <1>5, <1>6, <1>7 DEF ExecNext, Around

LEMMA BudgetImplied ==
  ASSUME Typed, BudgetInv
  PROVE  OneBudget
<1>1. Cardinality(LetIn) \in Nat /\ Cardinality(LetIn) <= Len(contexts) * Limit
  BY LetInBounded DEF LetIn, Typed
<1>2. Cardinality(Asking) \in Nat
  BY AskingFinite DEF Asking
<1>3. bodies.run \in Nat /\ bodies.disposed \in Nat /\ Len(contexts) \in Nat /\ Limit \in Nat
  BY LenProperties, LimitAssumption DEF Typed
<1>4. bodies.run <= Len(contexts) * Limit
  <2>1. Len(contexts) * Limit \in Nat
    BY <1>3
  <2> QED BY <1>1, <1>2, <1>3, <2>1 DEF BudgetInv, Paid
<1>5. Len(contexts) <= 1 + bodies.disposed
  BY <1>3 DEF BudgetInv
<1>6. \A a, b, c \in Nat : a <= b => a * c <= c * b
  OBVIOUS
<1>7. Len(contexts) * Limit <= Limit * (1 + bodies.disposed)
  BY <1>3, <1>5, <1>6
<1> QED BY <1>3, <1>4, <1>7 DEF OneBudget

-----------------------------------------------------------------------------
(* The turn, and what was stale.                                           *)

\* Nobody ends the turn of a running program, or takes back what superseded it.
LEMMA AroundKeepsTurn ==
  ASSUME Typed, TurnInv, Around
  PROVE  TurnInv'
<1>1. contexts' = contexts /\ call' = call
  BY DEF Around, BeginTurn, Supersede, EndTurn, Shadow, RunCode, ProgramReturns, Abandon, Dispose
<1>2. agent.revision \in Nat /\ agent.input \in Nat /\ agent.turn \in Nat /\ agent \in AgentRecords
  BY DEF Typed, AgentRecords
<1>3. CASE BeginTurn
  <2>1. program' = program /\ program # "running"
    BY <1>3 DEF BeginTurn, TurnInv
  <2> QED BY <1>1, <2>1 DEF TurnInv
<1>4. CASE Supersede
  <2>1. /\ program' = program /\ agent'.live = agent.live /\ agent'.turn = agent.turn
        /\ agent'.revision = agent.revision /\ agent'.input = agent.input + 1
    BY <1>2, <1>4 DEF Supersede, AgentRecords
  <2>2. Stale => Stale'
    BY <1>2, <2>1 DEF Stale
  <2> QED BY <1>1, <2>1, <2>2 DEF TurnInv
<1>5. CASE EndTurn
  BY <1>1, <1>5 DEF EndTurn, TurnInv
<1>6. CASE RunCode
  <2>1. /\ program = "none" /\ program' = "running" /\ agent' = agent
        /\ agent.live /\ agent.turn = Own
    BY <1>6 DEF RunCode
  <2>2. contexts = <<>> /\ \A k \in Calls : call[k].pc = "idle"
    BY <2>1 DEF TurnInv
  <2>3. 1..Len(contexts) = {}
    BY <2>2
  <2> QED BY <1>1, <2>1, <2>2, <2>3 DEF TurnInv
<1>7. CASE Shadow
  BY <1>1, <1>7 DEF Shadow, TurnInv, Stale
<1>8. CASE ProgramReturns \/ Abandon \/ Dispose
  <2>1. program' \notin {"none", "running"}
    BY <1>8 DEF ProgramReturns, Abandon, Dispose
  <2> QED BY <2>1 DEF TurnInv
<1> QED BY <1>3, <1>4, <1>5, <1>6, <1>7, <1>8 DEF Around

LEMMA InvokeKeepsTurn ==
  ASSUME Typed, TurnInv, NEW k \in Calls, Invoke(k)
  PROVE  TurnInv'
<1>1. program' = program /\ agent' = agent /\ (Stale' <=> Stale)
  BY DEF Invoke, Stale
<1>2. program # "none"
  BY InvokeEffect
<1>3. ASSUME program = "running", NEW i \in 1..Len(contexts')
      PROVE  contexts'[i].scope = Own /\ (contexts'[i].state = "ready" => contexts'[i].record = Own)
  <2>1. CASE i \in 1..Len(contexts)
    BY <1>3, <2>1, InvokeEffect DEF TurnInv
  <2>2. CASE i \notin 1..Len(contexts)
    <3>1. Len(contexts) \in Nat /\ agent.turn = Own
      BY <1>3, LenProperties DEF Typed, TurnInv
    <3>2. contexts'[i] = Building
      BY <2>2, <3>1, <1>3, InvokeEffect
    <3> QED BY <3>1, <3>2 DEF Building
  <2> QED BY <2>1, <2>2
<1>4. ASSUME program = "running", NEW j \in Calls, call'[j].late
      PROVE  call'[j].pc \in {"idle", "context", "guard"} /\ (call'[j].pc # "idle" => Stale)
  <2>1. CASE j = k
    <3>1. call'[k].pc = "context" /\ call'[k].late = Superseded
      BY InvokeEffect
    <3>2. Superseded /\ agent.live
      BY <1>4, <2>1, <3>1, Zenon DEF TurnInv
    <3>3. Stale
      BY <3>2 DEF Stale, Superseded
    <3> QED BY <2>1, <3>1, <3>3
  <2>2. CASE j # k
    BY <1>4, <2>2, InvokeEffect DEF TurnInv
  <2> QED BY <2>1, <2>2
<1> QED BY <1>1, <1>2, <1>3, <1>4 DEF TurnInv

LEMMA BuiltKeepsTurn ==
  ASSUME Typed, TurnInv, NEW i \in DOMAIN contexts, Built(i)
  PROVE  TurnInv'
<1>1. UNCHANGED <<program, agent, call>> /\ (Stale' <=> Stale)
  BY DEF Built, Stale
<1>2. program # "none"
  <2>1. i \in 1..Len(contexts)
    BY BuiltEffect
  <2>2. contexts # <<>>
    BY <2>1
  <2> QED BY <2>2 DEF TurnInv
<1>3. ASSUME program = "running", NEW j \in 1..Len(contexts')
      PROVE  contexts'[j].scope = Own /\ (contexts'[j].state = "ready" => contexts'[j].record = Own)
  <2>1. j \in 1..Len(contexts)
    BY BuiltEffect
  <2>2. CASE j = i
    BY <1>3, <2>1, <2>2, BuiltEffect DEF TurnInv
  <2>3. CASE j # i
    BY <1>3, <2>1, <2>3, BuiltEffect DEF TurnInv
  <2> QED BY <2>2, <2>3
<1> QED BY <1>1, <1>2, <1>3 DEF TurnInv

LEMMA EnterKeepsTurn ==
  ASSUME Typed, TurnInv, NEW k \in Calls, Enter(k)
  PROVE  TurnInv'
<1>1. UNCHANGED <<program, agent>> /\ (Stale' <=> Stale) /\ call[k].pc = "context"
  BY DEF Enter, Stale
<1>2. program # "none"
  BY <1>1 DEF TurnInv
<1>3. ASSUME program = "running", NEW j \in 1..Len(contexts')
      PROVE  contexts'[j].scope = Own /\ (contexts'[j].state = "ready" => contexts'[j].record = Own)
  BY <1>3, EnterEffect DEF TurnInv
<1>4. ASSUME program = "running", NEW j \in Calls, call'[j].late
      PROVE  call'[j].pc \in {"idle", "context", "guard"} /\ (call'[j].pc # "idle" => Stale)
  <2>1. CASE j # k
    <3>1. call'[j] = call[j]
      BY <2>1, EndsEffect, MovesEffect DEF Enter
    <3> QED BY <1>4, <3>1 DEF TurnInv
  <2>2. CASE j = k /\ Ends(k)
    BY <1>4, <2>2, EndsEffect, IdleCallTyped
  <2>3. CASE j = k /\ call' = [call EXCEPT ![k].pc = "guard"]
    <3>1. call[k].late /\ call'[k].pc = "guard"
      BY <1>4, <2>3, MovesEffect
    <3> QED BY <1>1, <1>4, <2>3, <3>1 DEF TurnInv
  <2> QED BY <2>1, <2>2, <2>3 DEF Enter
<1> QED BY <1>1, <1>2, <1>3, <1>4 DEF TurnInv

\* A call that goes on past the guard was asked for when nothing was stale.
LEMMA AssertFreshKeepsTurn ==
  ASSUME Typed, TurnInv, NEW k \in Calls, AssertFresh(k)
  PROVE  TurnInv'
<1>1. UNCHANGED <<program, agent, contexts>> /\ (Stale' <=> Stale) /\ call[k].pc = "guard"
  BY DEF AssertFresh, Stale
<1>2. \A j \in Calls : j # k => call'[j] = call[j]
  BY EndsEffect, MovesEffect DEF AssertFresh
<1>3. ASSUME program = "running"
      PROVE  ~call'[k].late
  <2>1. CASE Ends(k)
    BY <2>1, EndsEffect, IdleCallTyped
  <2>2. CASE ~Stale /\ call' = [call EXCEPT ![k].pc = "permit"]
    <3>1. call'[k].late = call[k].late
      BY <2>2, MovesEffect
    <3> QED BY <1>1, <1>3, <2>2, <3>1 DEF TurnInv
  <2> QED BY <2>1, <2>2 DEF AssertFresh, Fresh
<1> QED BY <1>1, <1>2, <1>3 DEF TurnInv

\* The steps past the guard: a call ends, or goes on to its write.
LEMMA LaterKeepsTurn ==
  ASSUME Typed, TurnInv, NEW k \in Calls, Broken(k) \/ Permit(k) \/ Perform(k)
  PROVE  TurnInv'
<1>1. UNCHANGED <<program, agent, contexts>> /\ (Stale' <=> Stale) /\ call[k].pc # "idle"
  BY DEF Broken, Permit, Perform, Stale
<1>2. \/ Ends(k)
      \/ call[k].pc = "permit" /\ call' = [call EXCEPT ![k].pc = "write"]
  BY DEF Broken, Permit, Perform
<1>3. \A j \in Calls : j # k => call'[j] = call[j]
  BY <1>2, EndsEffect, MovesEffect
<1>4. ASSUME program = "running"
      PROVE  ~call'[k].late
  <2>1. CASE Ends(k)
    BY <2>1, EndsEffect, IdleCallTyped
  <2>2. CASE call[k].pc = "permit" /\ call' = [call EXCEPT ![k].pc = "write"]
    BY <1>4, <2>2, MovesEffect DEF TurnInv
  <2> QED BY <1>2, <2>1, <2>2
<1> QED BY <1>1, <1>3, <1>4 DEF TurnInv

LEMMA NextKeepsTurn ==
  ASSUME Typed, TurnInv, ExecNext
  PROVE  TurnInv'
BY AroundKeepsTurn, InvokeKeepsTurn, BuiltKeepsTurn, EnterKeepsTurn, AssertFreshKeepsTurn, LaterKeepsTurn
   DEF ExecNext, Around

-----------------------------------------------------------------------------
(* Shadow, and what was written.                                           *)

LEMMA NextKeepsShadow ==
  ASSUME Typed, ShadowInv, ExecNext
  PROVE  ShadowInv'
<1>1. shadow => shadow'
  BY DEF ExecNext, BeginTurn, Supersede, EndTurn, Shadow, RunCode, ProgramReturns, Abandon, Dispose,
         Invoke, Broken, Enter, AssertFresh, Permit, Perform, Built
<1>2. CASE Around \/ \E i \in DOMAIN contexts : Built(i)
  <2>1. call' = call
    BY <1>2 DEF Around, BeginTurn, Supersede, EndTurn, Shadow, RunCode, ProgramReturns, Abandon,
                Dispose, Built
  <2> QED BY <1>1, <2>1 DEF ShadowInv
<1>3. ASSUME NEW k \in Calls, Invoke(k)
      PROVE  ShadowInv'
  <2>1. call'[k].shadowed = shadow /\ call'[k].pc # "write"
        /\ \A j \in Calls : j # k => call'[j] = call[j]
    BY <1>3, InvokeEffect
  <2> QED BY <1>1, <2>1 DEF ShadowInv
<1>4. ASSUME NEW k \in Calls, Ends(k)
      PROVE  ShadowInv'
  BY <1>1, <1>4, EndsEffect, IdleCallTyped DEF ShadowInv
<1>5. ASSUME NEW k \in Calls, NEW pc \in {"guard", "permit"}, call' = [call EXCEPT ![k].pc = pc]
      PROVE  ShadowInv'
  <2>1. call'[k].pc # "write" /\ call'[k].shadowed = call[k].shadowed
        /\ \A j \in Calls : j # k => call'[j] = call[j]
    BY <1>5, MovesEffect
  <2> QED BY <1>1, <2>1 DEF ShadowInv
<1>6. ASSUME NEW k \in Calls, ~shadow, call' = [call EXCEPT ![k].pc = "write"]
      PROVE  ShadowInv'
  <2>1. call'[k].shadowed = call[k].shadowed
        /\ \A j \in Calls : j # k => call'[j] = call[j]
    BY <1>6, MovesEffect
  <2> QED BY <1>1, <1>6, <2>1 DEF ShadowInv
<1>7. ASSUME NEW k \in Calls, Broken(k) \/ Enter(k) \/ AssertFresh(k) \/ Permit(k) \/ Perform(k)
      PROVE  ShadowInv'
  BY <1>4, <1>5, <1>6, <1>7 DEF Broken, Enter, AssertFresh, Permit, Perform, ShadowNow
<1> QED BY <1>2, <1>3, <1>7 DEF ExecNext, Around

LEMMA NextKeepsWrote ==
  ASSUME Typed, TurnInv, ShadowInv, WroteInv, ExecNext
  PROVE  WroteInv'
<1>1. CASE wrote' = wrote
  BY <1>1 DEF WroteInv, StopsWhenSuperseded, ShadowStopsWrites, OwnRecord
<1>2. ASSUME NEW k \in Calls, Perform(k)
      PROVE  WroteInv'
  <2> DEFINE context == contexts[call[k].context]
  <2>1. /\ wrote'.shadowed = call[k].shadowed
        /\ wrote'.late = call[k].late /\ wrote'.running = (program = "running")
        /\ wrote'.own = (program = "running" => context.scope = Own /\ context.record = Own)
    BY <1>2 DEF Perform
  <2>2. call[k].pc = "write"
    BY <1>2 DEF Perform
  <2>3. ~call[k].shadowed
    BY <2>2 DEF ShadowInv
  <2>4. program = "running" => ~call[k].late
    BY <2>2 DEF TurnInv
  <2>5. call[k].context \in 1..Len(contexts) /\ context.state = "ready"
    BY <2>2 DEF Typed
  <2>6. program = "running" => context.scope = Own /\ context.record = Own
    BY <2>5 DEF TurnInv
  <2> HIDE DEF context
  <2> QED BY <2>1, <2>3, <2>4, <2>6 DEF WroteInv, StopsWhenSuperseded, ShadowStopsWrites, OwnRecord
<1>3. (\E k \in Calls : Perform(k)) \/ wrote' = wrote
  BY DEF ExecNext, BeginTurn, Supersede, EndTurn, Shadow, RunCode, ProgramReturns, Abandon, Dispose,
         Invoke, Broken, Enter, AssertFresh, Permit, Built
<1> QED BY <1>1, <1>2, <1>3

-----------------------------------------------------------------------------
LEMMA InitEstablishesInv ==
  ASSUME ExecInit
  PROVE  ExecInv
<1>1. Typed
  <2>1. agent \in AgentRecords /\ bodies \in [run : Nat, disposed : Nat]
    BY DEF ExecInit, AgentRecords
  <2>2. contexts \in Seq(ContextRecords)
    BY EmptySeq DEF ExecInit
  <2>3. call \in [Calls -> CallRecords] /\ \A k \in Calls : call[k].pc = "idle"
    BY IdleCallTyped DEF ExecInit
  <2> QED BY <2>1, <2>2, <2>3 DEF ExecInit, Typed
<1>2. BudgetInv
  <2>1. Len(contexts) = 0 /\ 1..Len(contexts) = {}
    BY DEF ExecInit
  <2>2. LetIn = {} /\ Asking = {}
    BY <2>1, IdleCallTyped DEF ExecInit, LetIn, LetInBy, Asking
  <2>3. Cardinality(LetIn) = 0 /\ Cardinality(Asking) = 0
    BY <2>2, FS_EmptySet
  <2> QED BY <2>1, <2>3 DEF ExecInit, BudgetInv, Paid
<1>3. TurnInv /\ ShadowInv /\ WroteInv
  BY IdleCallTyped
     DEF ExecInit, TurnInv, ShadowInv, WroteInv, StopsWhenSuperseded, ShadowStopsWrites, OwnRecord
<1> QED BY <1>1, <1>2, <1>3 DEF ExecInv

LEMMA StepKeepsInv ==
  ASSUME ExecInv, [ExecNext]_execVars
  PROVE  ExecInv'
<1>1. CASE ExecNext
  BY <1>1, NextKeepsTyped, NextKeepsBudget, NextKeepsTurn, NextKeepsShadow, NextKeepsWrote DEF ExecInv
<1>2. CASE UNCHANGED execVars
  <2>1. Typed' /\ BudgetInv'
    BY <1>2 DEF ExecInv, execVars, Typed, BudgetInv, Paid, LetIn, Asking
  <2>2. TurnInv' /\ ShadowInv' /\ WroteInv'
    BY <1>2 DEF ExecInv, execVars, TurnInv, Stale, ShadowInv, WroteInv, StopsWhenSuperseded,
                ShadowStopsWrites, OwnRecord
  <2> QED BY <2>1, <2>2 DEF ExecInv
<1> QED BY <1>1, <1>2

\* The inductive invariant holds in every state.
THEOREM ExecInvariance == ExecSpec => []ExecInv
BY InitEstablishesInv, StepKeepsInv, PTL DEF ExecSpec

\* A program has one budget however its calls interleave, and while it runs it writes nothing
\* after its turn was superseded, nothing once its run is shadowed, and all of it under its turn
\* (connector.ts contextFor, execution.ts withCapabilityAudit, write-guard.ts).
THEOREM SafeExecution == ExecSpec => []ExecutionSafe
<1>1. ExecInv => ExecutionSafe
  BY BudgetImplied DEF ExecInv, WroteInv, ExecutionSafe
<1> QED BY <1>1, ExecInvariance, PTL


-----------------------------------------------------------------------------
(* The pull request: what each call may rely on.                           *)

OpenerPCs == {"head", "cut", "read", "compare", "fetch", "build", "ref", "force",
              "find", "edit", "open", "end"}
Contents == {"f0", "f2", "g0", "g1", "fixed"}
Commits == [parent : Published, tree : [Files -> Contents]]

PullTyped ==
  /\ checkout \in [Openers -> [head : Published, tree : [Files -> Contents],
                               edits : SUBSET Files, moved : BOOLEAN]]
  /\ object \in [Patches -> Published \cup {NotYet}]
  /\ opener \in [Openers -> [pc : OpenerPCs, base : Published \cup {NotYet}, patch : Patches,
                             commit : Commits \cup {NotYet}, written : BOOLEAN, number : Nat]]
  /\ outcome \in [Openers -> {"completed", "failed", "in_doubt", "nothing", NotYet}]
  /\ staging \in {"s0", "s1"}
  /\ ref \in [by : Openers, commit : Commits] \cup {NotYet}
  /\ pulls \in Seq([open : BOOLEAN, title : Openers])
  /\ calm \subseteq Openers

\* The working tree is a commit with some of the run's edits in it, and with none of them
\* while HEAD has not moved.
TreeOK(c) ==
  \E files \in SUBSET checkout[c].edits :
    /\ checkout[c].tree = Edited(TreeOf(checkout[c].head), files)
    /\ ~checkout[c].moved => files = {}

\* The patch changes edited files only, all of them unless HEAD moved.
PatchOK(c) ==
  opener[c].pc \notin {"head", "cut", "end"} =>
    /\ \A hunk \in opener[c].patch : hunk.file \in checkout[c].edits /\ hunk.now = "fixed"
    /\ ~checkout[c].moved => checkout[c].edits \subseteq Touched(opener[c].patch)

\* The base is a commit, from the comparison on one the base branch has; and so is the base
\* of the stored patch.
BaseOK(c) ==
  /\ opener[c].pc = "read" => object[opener[c].patch] # NotYet
  /\ opener[c].pc \in {"cut", "compare", "fetch", "build"} => opener[c].base \in Published
  /\ opener[c].pc \in {"fetch", "build"} => Contains(staging, opener[c].base)

\* A commit adds the fix to a commit the base branch has.
AddsFix(c, commit) ==
  /\ commit \in Commits
  /\ Contains(staging, commit.parent)
  /\ \A x \in Files : commit.tree[x] # TreeOf(commit.parent)[x] => x \in checkout[c].edits
  /\ ~checkout[c].moved => \A x \in checkout[c].edits : commit.tree[x] = "fixed"

CommitOK(c) == opener[c].pc \in {"ref", "force"} => AddsFix(c, opener[c].commit)

\* What a call left behind on GitHub.
Left(c) == (ref # NotYet /\ ref.by = c) \/ \E n \in DOMAIN pulls : pulls[n].title = c

\* Only a call that wrote left something, and such a call does not end as failed.
LeftOK(c) ==
  /\ outcome[c] # NotYet => opener[c].pc = "end"
  /\ Finding(c) => opener[c].written
  /\ Left(c) => Finding(c) \/ (opener[c].pc = "end" /\ outcome[c] # "failed")

\* While a call is calm the branch is its own and nobody else is looking for the pull request.
CalmOK(c) ==
  c \in calm =>
    /\ ref.by = c
    /\ \A d \in Openers \ {c} : ~Finding(d)
    /\ opener[c].pc = "edit" => opener[c].number \in OpenPulls
    /\ outcome[c] = "completed" => \E n \in OpenPulls : pulls[n].title = c

OpenerOK(c) == TreeOK(c) /\ PatchOK(c) /\ BaseOK(c) /\ CommitOK(c) /\ LeftOK(c) /\ CalmOK(c)

PullInv ==
  /\ PullTyped
  /\ \A c \in Openers : OpenerOK(c)
  /\ ref # NotYet => AddsFix(ref.by, ref.commit)

-----------------------------------------------------------------------------
(* The patch: what is known of the lines before the current one.           *)

PatchTyped ==
  /\ edit \in Edits /\ ended \in [old : BOOLEAN, new : BOOLEAN]
  /\ fetched \in [lines : Seq(Nat), newline : BOOLEAN, absent : BOOLEAN]
  /\ at \in [pc : {"lookup", "hunk", "line"}, line : 1..(Len(edit) + 1), cursor : Nat]
  /\ result \in [lines : Seq(Nat), newline : BOOLEAN]
  /\ progress \in {"applying", "applied", "stale"}

\* The cursor is behind the old lines so far, and a hunk begins and ends where git cut it.
LineInv ==
  /\ at.cursor = OldBefore(edit, at.line - 1)
  /\ at.pc = "lookup" => at.line = 1
  /\ at.pc = "line" => at.line \in ShownLines
  /\ at.pc = "hunk" => at.line = 1 \/ (at.line - 1 \in ShownLines /\ at.line \notin ShownLines)

\* The fetched file has the old line i of the edit where the base has it.
HasLine(i) ==
  OldBefore(edit, i) <= Len(fetched.lines) /\ fetched.lines[OldBefore(edit, i)] = i

\* The shown lines so far were found in the fetched file.
MatchInv == \A i \in ShownLines : i < at.line /\ edit[i] # "added" => HasLine(i)

\* Of the base, the result so far is the new side so far.
ResultInv ==
  fetched = Base =>
    /\ progress # "stale"
    /\ progress = "applying" =>
         result.lines = SubSeq(NewSide(edit), 1, NewBefore(edit, at.line - 1))

\* The last new line so far decided whether there is a last newline, if a hunk showed it.
LastShownNew(j) ==
  /\ j < at.line /\ edit[j] # "removed"
  /\ \A x \in (j + 1)..(at.line - 1) : edit[x] = "removed"

NewlineInv ==
  progress = "applying" =>
    \A j \in ShownLines : LastShownNew(j) => result.newline = ~NoNewlineAfter(j)

PatchInv ==
  /\ PatchTyped /\ Written(edit, ended) /\ LineInv /\ MatchInv /\ ResultInv /\ NewlineInv
  /\ PatchSafe

-----------------------------------------------------------------------------
(* Trees, patches and commits.                                             *)

LEMMA TreeOfPublished ==
  ASSUME NEW sha \in Published
  PROVE  TreeOf(sha) \in [Files -> Contents] /\ \A x \in Files : TreeOf(sha)[x] # "fixed"
BY DEF TreeOf, Files, Contents

LEMMA EditedTree ==
  ASSUME NEW tree \in [Files -> Contents], NEW files \in SUBSET Files
  PROVE  /\ Edited(tree, files) \in [Files -> Contents]
         /\ \A x \in Files : Edited(tree, files)[x] = IF x \in files THEN "fixed" ELSE tree[x]
BY DEF Edited, Contents

\* The files of a difference that makes the edits, and what it makes of them.
LEMMA DiffOfEdits ==
  ASSUME NEW tree \in [Files -> Contents], NEW edits \in SUBSET Files
  PROVE  LET patch == Diff(tree, Edited(tree, edits)) IN
         /\ \A hunk \in patch : hunk.file \in edits /\ hunk.now = "fixed"
         /\ \A x \in edits : tree[x] # "fixed" => x \in Touched(patch)
<1> DEFINE new == Edited(tree, edits)
           patch == Diff(tree, new)
<1>1. \A x \in Files : new[x] = IF x \in edits THEN "fixed" ELSE tree[x]
  BY EditedTree
<1>2. ASSUME NEW hunk \in patch
      PROVE  hunk.file \in edits /\ hunk.now = "fixed"
  <2>1. PICK x \in {y \in Files : tree[y] # new[y]} :
             hunk = [file |-> x, was |-> tree[x], now |-> new[x]]
    BY <1>2 DEF Diff
  <2> QED
    BY <2>1, <1>1
<1>3. ASSUME NEW x \in edits, tree[x] # "fixed"
      PROVE  x \in Touched(patch)
  <2>1. x \in {y \in Files : tree[y] # new[y]}
    BY <1>1, <1>3
  <2>2. [file |-> x, was |-> tree[x], now |-> new[x]] \in patch
    BY <2>1 DEF Diff
  <2> QED
    BY <2>2 DEF Touched
<1> QED
  BY <1>2, <1>3

\* What a checkout shows as changed is a patch, whether HEAD has moved or not.
LEMMA CapturedIsPatch ==
  ASSUME NEW sha \in Published, NEW edits \in SUBSET Files, NEW files \in SUBSET edits
  PROVE  LET tree == Edited(TreeOf(sha), files) IN Diff(tree, Edited(tree, edits)) \in Patches
<1> DEFINE old == TreeOf(sha)
           tree == Edited(old, files)
           new == Edited(tree, edits)
           rest == edits \ files
<1>1. old \in [Files -> Contents] /\ \A x \in Files : old[x] # "fixed"
  BY TreeOfPublished
<1>2. tree \in [Files -> Contents] /\ \A x \in Files : tree[x] = IF x \in files THEN "fixed" ELSE old[x]
  BY <1>1, EditedTree
<1>3. \A x \in Files : new[x] = IF x \in edits THEN "fixed" ELSE tree[x]
  BY <1>2, EditedTree
<1>4. \A x \in Files : Edited(old, rest)[x] = IF x \in rest THEN "fixed" ELSE old[x]
  BY <1>1, EditedTree
<1> HIDE DEF old, tree, new
<1>5. {y \in Files : tree[y] # new[y]} = rest
  BY <1>1, <1>2, <1>3
<1>6. {y \in Files : old[y] # Edited(old, rest)[y]} = rest
  BY <1>1, <1>4
<1>7. \A x \in rest : tree[x] = old[x] /\ new[x] = Edited(old, rest)[x]
  BY <1>2, <1>3, <1>4
<1>8. Diff(tree, new) = {[file |-> x, was |-> tree[x], now |-> new[x]] : x \in rest}
  BY <1>5, Zenon DEF Diff
<1>9. Diff(old, Edited(old, rest)) =
        {[file |-> x, was |-> old[x], now |-> Edited(old, rest)[x]] : x \in rest}
  BY <1>6, Zenon DEF Diff
<1>10. Diff(tree, new) = Diff(old, Edited(old, rest))
  BY <1>7, <1>8, <1>9
<1>11. Diff(old, Edited(old, rest)) \in Patches
  BY DEF Patches, old
<1> QED
  BY <1>10, <1>11 DEF old, tree, new

\* A patch whose hunks make the edits, applied.
LEMMA AppliedEdits ==
  ASSUME NEW tree \in [Files -> Contents], NEW patch, NEW edits \in SUBSET Files,
         \A hunk \in patch : hunk.file \in edits /\ hunk.now = "fixed"
  PROVE  /\ Applied(patch, tree) \in [Files -> Contents]
         /\ \A x \in Files : Applied(patch, tree)[x] # tree[x] => x \in edits
         /\ \A x \in Touched(patch) : Applied(patch, tree)[x] = "fixed"
<1>1. \A x \in Touched(patch) : x \in edits /\ (CHOOSE hunk \in patch : hunk.file = x).now = "fixed"
  BY DEF Touched
<1>2. \A x \in Files : Applied(patch, tree)[x] =
        IF x \in Touched(patch) THEN (CHOOSE hunk \in patch : hunk.file = x).now ELSE tree[x]
  BY DEF Applied
<1>3. Applied(patch, tree) \in [Files -> Contents]
  <2>1. \A x \in Files :
          (IF x \in Touched(patch) THEN (CHOOSE hunk \in patch : hunk.file = x).now ELSE tree[x]) \in Contents
    BY <1>1 DEF Contents
  <2> QED
    BY <2>1 DEF Applied
<1> QED
  BY <1>1, <1>2, <1>3

LEMMA PatchesTouchFiles ==
  ASSUME NEW patch \in Patches
  PROVE  \A hunk \in patch : hunk.file \in Files
BY DEF Patches, Diff

-----------------------------------------------------------------------------
(* Steps of one call: the others are where they were.                      *)

Alone(c) ==
  \A d \in Openers \ {c} :
    opener'[d] = opener[d] /\ outcome'[d] = outcome[d] /\ checkout'[d] = checkout[d]

\* A stored patch keeps a base, and what the base branch has it keeps.
Grows ==
  /\ \A patch \in Patches : object[patch] # NotYet => object'[patch] # NotYet
  /\ \A sha \in Published : Contains(staging, sha) => Contains(staging', sha)

LEMMA OtherStands ==
  ASSUME PullInv, NEW d \in Openers, Grows,
         opener'[d] = opener[d], outcome'[d] = outcome[d], checkout'[d] = checkout[d],
         Left(d)' => Left(d)
  PROVE  TreeOK(d)' /\ PatchOK(d)' /\ BaseOK(d)' /\ CommitOK(d)' /\ LeftOK(d)'
<1> USE DEF PullInv
<1>1. OpenerOK(d) /\ PullTyped
  OBVIOUS
<1>2. TreeOK(d)'
  BY <1>1 DEF OpenerOK, TreeOK
<1>3. PatchOK(d)'
  BY <1>1 DEF OpenerOK, PatchOK
<1>4. BaseOK(d)'
  <2>1. opener[d].patch \in Patches
    BY <1>1 DEF PullTyped
  <2> QED
    BY <1>1, <2>1 DEF OpenerOK, BaseOK, Grows
<1>5. CommitOK(d)'
  BY <1>1 DEF OpenerOK, CommitOK, AddsFix, Grows, Commits
<1>6. LeftOK(d)'
  BY <1>1 DEF OpenerOK, LeftOK, Finding
<1> QED
  BY <1>2, <1>3, <1>4, <1>5, <1>6

\* What a step of c that touches neither the branch nor a pull request has to show.
LEMMA QuietStep ==
  ASSUME PullInv, NEW c \in Openers, PullTyped', Alone(c), Grows,
         UNCHANGED <<ref, pulls, calm>>,
         checkout'[c].edits = checkout[c].edits, checkout[c].moved => checkout'[c].moved,
         Finding(c)' => Finding(c),
         opener'[c].pc = "edit" => opener'[c].number \in OpenPulls,
         outcome'[c] # "completed",
         TreeOK(c)', PatchOK(c)', BaseOK(c)', CommitOK(c)', LeftOK(c)'
  PROVE  PullInv'
<1> USE DEF PullInv
<1>1. \A d \in Openers : OpenerOK(d)
  OBVIOUS
<1>2. ASSUME NEW d \in Openers, d # c
      PROVE  TreeOK(d)' /\ PatchOK(d)' /\ BaseOK(d)' /\ CommitOK(d)' /\ LeftOK(d)'
  <2>1. Left(d)' => Left(d)
    BY DEF Left
  <2>2. opener'[d] = opener[d] /\ outcome'[d] = outcome[d] /\ checkout'[d] = checkout[d]
    BY <1>2 DEF Alone
  <2> QED
    BY <2>1, <2>2, OtherStands
<1>3. ASSUME NEW d \in Openers, d \in calm'
      PROVE  CalmOK(d)'
  <2>1. CalmOK(d) /\ d \in calm
    BY <1>1, <1>3 DEF OpenerOK
  <2>2. ref'.by = d
    BY <2>1 DEF CalmOK
  <2>3. \A e \in Openers \ {d} : ~Finding(e)'
    <3>1. \A e \in Openers : Finding(e)' => Finding(e)
      BY DEF Alone, Finding
    <3> QED
      BY <2>1, <3>1 DEF CalmOK
  <2>4. OpenPulls' = OpenPulls
    BY DEF OpenPulls
  <2>5. CASE d = c
    BY <2>2, <2>3, <2>4, <2>5 DEF CalmOK
  <2>6. CASE d # c
    <3>1. opener'[d] = opener[d] /\ outcome'[d] = outcome[d]
      BY <2>6 DEF Alone
    <3> QED
      BY <2>1, <2>2, <2>3, <2>4, <3>1 DEF CalmOK
  <2> QED
    BY <2>5, <2>6
<1>4. (ref # NotYet => AddsFix(ref.by, ref.commit))'
  <2>1. SUFFICES ASSUME ref # NotYet
                 PROVE  AddsFix(ref.by, ref.commit)'
    OBVIOUS
  <2>2. PICK d \in Openers : d = ref.by
    BY <2>1 DEF PullTyped
  <2>3. checkout'[d].edits = checkout[d].edits /\ (checkout[d].moved => checkout'[d].moved)
    BY DEF Alone
  <2>4. checkout[d].moved \in BOOLEAN /\ checkout'[d].moved \in BOOLEAN
    BY DEF PullTyped
  <2>5. AddsFix(d, ref.commit)
    BY <2>1, <2>2
  <2> QED
    BY <2>2, <2>3, <2>4, <2>5 DEF AddsFix, Grows, Commits
<1>5. \A d \in Openers : OpenerOK(d)'
  <2>1. ASSUME NEW d \in Openers
        PROVE  CalmOK(d)'
    <3>1. CASE d \in calm'
      BY <3>1, <1>3
    <3>2. CASE d \notin calm'
      BY <3>2 DEF CalmOK
    <3> QED
      BY <3>1, <3>2
  <2> QED
    BY <1>2, <2>1 DEF OpenerOK
<1> QED
  BY <1>4, <1>5

\* A call that ends without having written, or in doubt.
LEMMA SettleStep ==
  ASSUME PullInv, NEW c \in Openers, opener[c].pc # "end",
         NEW answer \in {"failed", "in_doubt", "nothing"}, Settles(c, answer),
         answer = "failed" => ~Finding(c), UNCHANGED <<checkout, AfterReads>>
  PROVE  PullInv'
<1> USE DEF AfterReads
<1>1. PullTyped /\ OpenerOK(c)
  BY DEF PullInv
<1>2. /\ opener'[c] = [opener[c] EXCEPT !.pc = "end"] /\ opener'[c].pc = "end"
      /\ outcome'[c] = answer /\ Alone(c)
  BY <1>1 DEF PullTyped, Settles, Alone
<1>3. PullTyped'
  <2>1. opener' \in [Openers -> [pc : OpenerPCs, base : Published \cup {NotYet}, patch : Patches,
                             commit : Commits \cup {NotYet}, written : BOOLEAN, number : Nat]]
    <3> DEFINE r == [opener[c] EXCEPT !.pc = "end"]
    <3>1. r \in [pc : OpenerPCs, base : Published \cup {NotYet}, patch : Patches,
                 commit : Commits \cup {NotYet}, written : BOOLEAN, number : Nat]
      BY <1>1 DEF PullTyped, OpenerPCs
    <3>2. opener' = [opener EXCEPT ![c] = r]
      BY DEF Settles
    <3> HIDE DEF r
    <3> QED
      BY <1>1, <3>1, <3>2 DEF PullTyped
  <2>2. outcome' \in [Openers -> {"completed", "failed", "in_doubt", "nothing", NotYet}]
    BY <1>1 DEF PullTyped, Settles
  <2> QED
    BY <1>1, <2>1, <2>2 DEF PullTyped
<1>4. TreeOK(c)'
  BY <1>1 DEF OpenerOK, TreeOK
<1>5. PatchOK(c)' /\ BaseOK(c)' /\ CommitOK(c)'
  BY <1>2 DEF PatchOK, BaseOK, CommitOK
<1>6. LeftOK(c)'
  <2>1. Left(c)' => Left(c)
    BY DEF Left
  <2> QED
    BY <1>1, <1>2, <2>1 DEF OpenerOK, LeftOK, Finding
<1>7. ~Finding(c)'
  BY <1>2 DEF Finding
<1> QED
  BY <1>2, <1>3, <1>4, <1>5, <1>6, <1>7, QuietStep DEF Grows

LEMMA FailsStep ==
  ASSUME PullInv, NEW c \in Openers, opener[c].pc # "end", Fails(c),
         UNCHANGED <<checkout, AfterReads>>
  PROVE  PullInv'
<1>1. CASE Settles(c, "in_doubt")
  BY <1>1, SettleStep
<1>2. CASE Settles(c, Refusal(c))
  <2>1. CASE opener[c].written
    BY <1>2, <2>1, SettleStep DEF Refusal
  <2>2. CASE ~opener[c].written
    <3>1. ~Finding(c)
      BY <2>2 DEF PullInv, OpenerOK, LeftOK
    <3> QED
      BY <1>2, <2>2, <3>1, SettleStep DEF Refusal
  <2> QED
    BY <2>1, <2>2
<1> QED
  BY <1>1, <1>2 DEF Fails

\* A call that goes on, before it has written or while it looks for the pull request.
LEMMA GoOnStep ==
  ASSUME PullInv, NEW c \in Openers, opener[c].pc # "end",
         NEW r \in [pc : OpenerPCs \ {"end"}, base : Published \cup {NotYet}, patch : Patches,
                    commit : Commits \cup {NotYet}, written : BOOLEAN, number : Nat],
         opener' = [opener EXCEPT ![c] = r], r.written = opener[c].written,
         object' \in [Patches -> Published \cup {NotYet}], Grows,
         r.pc \in {"find", "edit", "open"} => Finding(c), Finding(c) => r.pc \in {"edit", "open"},
         r.pc = "edit" => r.number \in OpenPulls,
         UNCHANGED <<checkout, outcome, staging, ref, pulls, calm>>,
         PatchOK(c)', BaseOK(c)', CommitOK(c)'
  PROVE  PullInv'
<1>1. PullTyped /\ OpenerOK(c)
  BY DEF PullInv
<1>2. opener'[c] = r /\ Alone(c)
  BY <1>1 DEF PullTyped, Alone
<1>3. PullTyped'
  BY <1>1 DEF PullTyped
<1>4. TreeOK(c)'
  BY <1>1 DEF OpenerOK, TreeOK
<1>5. outcome[c] = NotYet
  BY <1>1 DEF OpenerOK, LeftOK
<1>6. LeftOK(c)'
  <2>1. Left(c)' => Left(c)
    BY DEF Left
  <2> QED
    BY <1>1, <1>2, <1>5, <2>1 DEF OpenerOK, LeftOK, Finding
<1>7. Finding(c)' => Finding(c)
  BY <1>2 DEF Finding
<1> QED
  BY <1>2, <1>3, <1>4, <1>5, <1>6, <1>7, QuietStep, NotYetAssumption

-----------------------------------------------------------------------------
(* The capture.                                                            *)

LEMMA CaptureHeadStep ==
  ASSUME PullInv, NEW c \in Openers, CaptureHead(c)
  PROVE  PullInv'
<1> USE DEF CaptureHead, OpenerAt
<1>1. PullTyped /\ OpenerOK(c)
  BY DEF PullInv
<1> DEFINE r == [opener[c] EXCEPT !.pc = "cut", !.base = checkout[c].head]
<1>2. r \in [pc : OpenerPCs \ {"end"}, base : Published \cup {NotYet}, patch : Patches,
             commit : Commits \cup {NotYet}, written : BOOLEAN, number : Nat]
  BY <1>1 DEF PullTyped, OpenerPCs
<1>3. opener' = [opener EXCEPT ![c] = r] /\ opener'[c] = r /\ r.pc = "cut"
  BY <1>1 DEF PullTyped
<1>4. r.base \in Published /\ r.written = opener[c].written
  BY <1>1 DEF PullTyped
<1>5. PatchOK(c)' /\ BaseOK(c)' /\ CommitOK(c)'
  BY <1>3, <1>4 DEF PatchOK, BaseOK, CommitOK
<1>6. ~Finding(c) /\ object' \in [Patches -> Published \cup {NotYet}] /\ Grows
  BY <1>1 DEF Finding, PullTyped, Grows
<1> HIDE DEF r
<1> QED
  BY <1>2, <1>3, <1>4, <1>5, <1>6, GoOnStep

LEMMA MoveHeadStep ==
  ASSUME PullInv, NEW c \in Openers, MoveHead(c)
  PROVE  PullInv'
<1> USE DEF MoveHead, OpenerAt
<1>1. PullTyped /\ OpenerOK(c) /\ opener[c].pc = "cut" /\ ~checkout[c].moved
  BY DEF PullInv
<1>2. /\ checkout[c] \in [head : Published, tree : [Files -> Contents], edits : SUBSET Files, moved : BOOLEAN]
      /\ checkout[c].edits \in SUBSET Files /\ checkout[c].head \in Published
  BY <1>1 DEF PullTyped
<1>3. checkout[c].tree = Edited(TreeOf(checkout[c].head), {})
  BY <1>1 DEF OpenerOK, TreeOK
<1>4. /\ checkout' \in [Openers -> [head : Published, tree : [Files -> Contents],
                                    edits : SUBSET Files, moved : BOOLEAN]]
      /\ checkout'[c].edits = checkout[c].edits /\ checkout'[c].moved
      /\ \A d \in Openers \ {c} : checkout'[d] = checkout[d]
      /\ \E files \in SUBSET checkout[c].edits :
           checkout'[c].tree = Edited(TreeOf(checkout'[c].head), files)
  <2>1. CASE \E sha \in Published \ {checkout[c].head} :
               checkout' = [checkout EXCEPT ![c] =
                 [@ EXCEPT !.head = sha, !.tree = TreeOf(sha), !.moved = TRUE]]
    <3>1. PICK sha \in Published :
                 checkout' = [checkout EXCEPT ![c] =
                   [@ EXCEPT !.head = sha, !.tree = TreeOf(sha), !.moved = TRUE]]
      BY <2>1
    <3>2. TreeOf(sha) \in [Files -> Contents]
      BY TreeOfPublished
    <3>3. Edited(TreeOf(sha), {}) = TreeOf(sha)
      BY <3>2 DEF Edited
    <3> DEFINE r == [checkout[c] EXCEPT !.head = sha, !.tree = TreeOf(sha), !.moved = TRUE]
    <3>4. /\ r \in [head : Published, tree : [Files -> Contents], edits : SUBSET Files, moved : BOOLEAN]
          /\ r.tree = TreeOf(sha) /\ r.head = sha /\ r.edits = checkout[c].edits /\ r.moved
      BY <1>2, <3>2
    <3>6. checkout' = [checkout EXCEPT ![c] = r]
      BY <3>1
    <3> HIDE DEF r
    <3>7. /\ checkout'[c] = r /\ \A d \in Openers \ {c} : checkout'[d] = checkout[d]
          /\ checkout' \in [Openers -> [head : Published, tree : [Files -> Contents],
                                        edits : SUBSET Files, moved : BOOLEAN]]
      BY <1>1, <3>4, <3>6 DEF PullTyped
    <3>5. \E files \in SUBSET checkout[c].edits :
            checkout'[c].tree = Edited(TreeOf(checkout'[c].head), files)
      BY <3>3, <3>4, <3>7
    <3> QED
      BY <3>4, <3>5, <3>7
  <2>2. CASE \E x \in checkout[c].edits :
               checkout' = [checkout EXCEPT ![c].tree[x] = "fixed", ![c].moved = TRUE]
    <3>1. PICK x \in checkout[c].edits :
                 checkout' = [checkout EXCEPT ![c].tree[x] = "fixed", ![c].moved = TRUE]
      BY <2>2
    <3> DEFINE old == TreeOf(checkout[c].head)
               tree == [checkout[c].tree EXCEPT ![x] = "fixed"]
    <3>2. old \in [Files -> Contents]
      BY <1>2, TreeOfPublished
    <3>3. checkout[c].tree \in [Files -> Contents]
      BY <1>1 DEF PullTyped
    <3>4. tree \in [Files -> Contents]
      BY <3>3 DEF Contents
    <3>5. checkout' = [checkout EXCEPT ![c] = [@ EXCEPT !.tree = tree, !.moved = TRUE]]
      BY <3>1, <1>1 DEF PullTyped
    <3>6. tree = Edited(old, {x})
      BY <1>2, <1>3, <3>2, <3>3 DEF Edited
    <3> HIDE DEF tree
    <3> DEFINE r == [checkout[c] EXCEPT !.tree = tree, !.moved = TRUE]
    <3>7. /\ r \in [head : Published, tree : [Files -> Contents], edits : SUBSET Files, moved : BOOLEAN]
          /\ r.tree = tree /\ r.head = checkout[c].head /\ r.edits = checkout[c].edits /\ r.moved
      BY <1>2, <3>4
    <3>9. checkout' = [checkout EXCEPT ![c] = r]
      BY <3>5
    <3> HIDE DEF r
    <3>10. /\ checkout'[c] = r /\ \A d \in Openers \ {c} : checkout'[d] = checkout[d]
           /\ checkout' \in [Openers -> [head : Published, tree : [Files -> Contents],
                                         edits : SUBSET Files, moved : BOOLEAN]]
      BY <1>1, <3>7, <3>9 DEF PullTyped
    <3>8. \E files \in SUBSET checkout[c].edits :
            checkout'[c].tree = Edited(TreeOf(checkout'[c].head), files)
      BY <3>6, <3>7, <3>10, <1>2
    <3> QED
      BY <3>7, <3>8, <3>10
  <2> QED
    BY <2>1, <2>2
<1>5. PullTyped' /\ Alone(c) /\ Grows
  BY <1>1, <1>4 DEF PullTyped, Alone, Grows
<1>6. TreeOK(c)'
  BY <1>4 DEF TreeOK
<1>7. PatchOK(c)' /\ BaseOK(c)' /\ CommitOK(c)'
  BY <1>1 DEF PatchOK, BaseOK, CommitOK, OpenerOK
<1>8. outcome'[c] = NotYet /\ ~Finding(c)'
  BY <1>1 DEF OpenerOK, LeftOK, Finding
<1>9. LeftOK(c)'
  BY <1>1 DEF OpenerOK, LeftOK, Left, Finding
<1> QED
  BY <1>1, <1>4, <1>5, <1>6, <1>7, <1>8, <1>9, QuietStep, NotYetAssumption

LEMMA CaptureDiffStep ==
  ASSUME PullInv, NEW c \in Openers, CaptureDiff(c)
  PROVE  PullInv'
<1> USE DEF CaptureDiff, OpenerAt
<1>1. PullTyped /\ OpenerOK(c) /\ opener[c].pc = "cut" /\ ~Finding(c)
  BY DEF PullInv, Finding
<1> DEFINE tree == checkout[c].tree
           edits == checkout[c].edits
           new == Diff(tree, Edited(tree, edits))
<1>2. PICK patch : patch = new
  OBVIOUS
<1>3. CASE patch = {}
  <2>1. Settles(c, "nothing") /\ UNCHANGED object
    BY <1>2, <1>3
  <2> QED
    BY <2>1, <1>1, SettleStep DEF AfterReads
<1>4. CASE patch # {}
  <2>1. /\ object' = [object EXCEPT ![patch] = opener[c].base]
        /\ opener' = [opener EXCEPT ![c].pc = "read", ![c].patch = patch]
        /\ UNCHANGED outcome
    BY <1>2, <1>4
  <2>2. tree \in [Files -> Contents] /\ edits \in SUBSET Files /\ checkout[c].head \in Published
    BY <1>1 DEF PullTyped
  <2>3. patch \in Patches
    <3>1. PICK files \in SUBSET edits : tree = Edited(TreeOf(checkout[c].head), files)
      BY <1>1 DEF OpenerOK, TreeOK
    <3> QED
      BY <3>1, <2>2, <1>2, CapturedIsPatch
  <2>4. /\ \A hunk \in patch : hunk.file \in edits /\ hunk.now = "fixed"
        /\ \A x \in edits : tree[x] # "fixed" => x \in Touched(patch)
    BY <2>2, <1>2, DiffOfEdits
  <2>5. ~checkout[c].moved => edits \subseteq Touched(patch)
    <3>1. SUFFICES ASSUME ~checkout[c].moved
                   PROVE  \A x \in edits : tree[x] # "fixed"
      BY <2>4
    <3>2. tree = Edited(TreeOf(checkout[c].head), {})
      BY <1>1, <3>1 DEF OpenerOK, TreeOK
    <3>3. /\ TreeOf(checkout[c].head) \in [Files -> Contents]
          /\ \A x \in Files : TreeOf(checkout[c].head)[x] # "fixed"
      BY <2>2, TreeOfPublished
    <3> QED
      BY <2>2, <3>2, <3>3, EditedTree
  <2>6. opener[c].base \in Published
    BY <1>1 DEF OpenerOK, BaseOK
  <2> DEFINE r == [opener[c] EXCEPT !.pc = "read", !.patch = patch]
  <2>7. /\ r \in [pc : OpenerPCs \ {"end"}, base : Published \cup {NotYet}, patch : Patches,
                  commit : Commits \cup {NotYet}, written : BOOLEAN, number : Nat]
        /\ r.pc = "read" /\ r.patch = patch /\ r.written = opener[c].written
    BY <1>1, <2>3 DEF PullTyped, OpenerPCs
  <2>8. opener' = [opener EXCEPT ![c] = r]
    BY <1>1, <2>1 DEF PullTyped
  <2> HIDE DEF r, new
  <2>9. opener'[c] = r
    BY <1>1, <2>8 DEF PullTyped
  <2>10. object' \in [Patches -> Published \cup {NotYet}] /\ object'[patch] = opener[c].base
    BY <1>1, <2>1, <2>3, <2>6 DEF PullTyped
  <2>11. object'[patch] # NotYet
    BY <2>6, <2>10, NotYetAssumption DEF Published
  <2>14. Grows
    <3>1. \A other \in Patches : other # patch => object'[other] = object[other]
      BY <1>1, <2>1, <2>3 DEF PullTyped
    <3> QED
      BY <2>11, <3>1 DEF Grows
  <2>12. PatchOK(c)'
    BY <2>4, <2>5, <2>7, <2>9 DEF PatchOK
  <2>13. BaseOK(c)' /\ CommitOK(c)'
    BY <2>7, <2>9, <2>11 DEF BaseOK, CommitOK
  <2> QED
    BY <1>1, <2>1, <2>7, <2>8, <2>10, <2>12, <2>13, <2>14, GoOnStep
<1> QED
  BY <1>3, <1>4

-----------------------------------------------------------------------------
(* openPR, up to the commit.                                               *)

\* A call that takes the next step and changes nothing but its own record.
LEMMA AdvanceStep ==
  ASSUME PullInv, NEW c \in Openers, opener[c].pc # "end",
         NEW r \in [pc : OpenerPCs \ {"end"}, base : Published \cup {NotYet}, patch : Patches,
                    commit : Commits \cup {NotYet}, written : BOOLEAN, number : Nat],
         opener' = [opener EXCEPT ![c] = r], r.written = opener[c].written,
         r.patch = opener[c].patch, opener[c].pc \notin {"head", "cut"},
         r.pc \in {"find", "edit", "open"} => Finding(c), Finding(c) => r.pc \in {"edit", "open"},
         r.pc = "edit" => r.number \in OpenPulls,
         UNCHANGED <<checkout, outcome, AfterReads>>,
         BaseOK(c)', CommitOK(c)'
  PROVE  PullInv'
<1>1. PullTyped /\ OpenerOK(c)
  BY DEF PullInv
<1>2. opener'[c] = r
  BY <1>1 DEF PullTyped
<1>3. PatchOK(c)'
  BY <1>1, <1>2 DEF OpenerOK, PatchOK, AfterReads
<1>4. object' \in [Patches -> Published \cup {NotYet}] /\ Grows
  BY <1>1 DEF PullTyped, Grows, AfterReads
<1> QED
  BY <1>3, <1>4, GoOnStep DEF AfterReads

LEMMA ReadDiffStep ==
  ASSUME PullInv, NEW c \in Openers, ReadDiff(c)
  PROVE  PullInv'
<1> USE DEF ReadDiff, OpenerAt
<1>1. PullTyped /\ OpenerOK(c) /\ opener[c].pc = "read" /\ ~Finding(c)
  BY DEF PullInv, Finding
<1>2. CASE Settles(c, "failed")
  BY <1>1, <1>2, SettleStep
<1>3. CASE opener' = [opener EXCEPT ![c].pc = "compare", ![c].base = object[opener[c].patch]] /\ UNCHANGED outcome
  <2>1. PICK sha \in Published : sha = object[opener[c].patch]
    BY <1>1 DEF PullTyped, OpenerOK, BaseOK
  <2> DEFINE r == [opener[c] EXCEPT !.pc = "compare", !.base = sha]
  <2>2. /\ r \in [pc : OpenerPCs \ {"end"}, base : Published \cup {NotYet}, patch : Patches,
                  commit : Commits \cup {NotYet}, written : BOOLEAN, number : Nat]
        /\ r.pc = "compare" /\ r.base = sha
        /\ r.written = opener[c].written /\ r.patch = opener[c].patch
    BY <1>1 DEF PullTyped, OpenerPCs
  <2>3. opener' = [opener EXCEPT ![c] = r]
    BY <1>1, <1>3, <2>1 DEF PullTyped
  <2> HIDE DEF r
  <2>4. opener'[c] = r
    BY <1>1, <2>3 DEF PullTyped
  <2>5. BaseOK(c)' /\ CommitOK(c)'
    BY <2>2, <2>4 DEF BaseOK, CommitOK
  <2> QED
    BY <1>1, <1>3, <2>2, <2>3, <2>5, AdvanceStep
<1> QED
  BY <1>2, <1>3

\* A call that only moves on.
LEMMA ProceedStep ==
  ASSUME PullInv, NEW c \in Openers, NEW pc \in OpenerPCs \ {"end", "edit"}, Proceeds(c, pc),
         opener[c].pc \notin {"head", "cut", "end"},
         pc \in {"find", "open"} => Finding(c), Finding(c) => pc = "open",
         UNCHANGED <<checkout, outcome, AfterReads>>,
         BaseOK(c)', CommitOK(c)'
  PROVE  PullInv'
<1>1. PullTyped
  BY DEF PullInv
<1> DEFINE r == [opener[c] EXCEPT !.pc = pc]
<1>2. /\ r \in [pc : OpenerPCs \ {"end"}, base : Published \cup {NotYet}, patch : Patches,
                commit : Commits \cup {NotYet}, written : BOOLEAN, number : Nat]
      /\ r.pc = pc /\ r.written = opener[c].written /\ r.patch = opener[c].patch
  BY <1>1 DEF PullTyped
<1>3. opener' = [opener EXCEPT ![c] = r]
  BY <1>1 DEF PullTyped, Proceeds
<1> HIDE DEF r
<1> QED
  BY <1>2, <1>3, AdvanceStep

LEMMA ProceedFields ==
  ASSUME PullTyped, NEW c \in Openers, NEW pc, Proceeds(c, pc)
  PROVE  /\ opener'[c].pc = pc /\ opener'[c].base = opener[c].base
         /\ opener'[c].patch = opener[c].patch /\ opener'[c].commit = opener[c].commit
         /\ opener'[c].written = opener[c].written
BY DEF PullTyped, Proceeds

LEMMA AssertBaseContainsStep ==
  ASSUME PullInv, NEW c \in Openers, AssertBaseContains(c)
  PROVE  PullInv'
<1> USE DEF AssertBaseContains, OpenerAt
<1>1. PullTyped /\ OpenerOK(c) /\ opener[c].pc = "compare" /\ ~Finding(c)
  BY DEF PullInv, Finding
<1>2. CASE BaseContains(opener[c].base) /\ Proceeds(c, "fetch") /\ UNCHANGED outcome
  <2>1. opener'[c].pc = "fetch" /\ opener'[c].base = opener[c].base
    BY <1>1, <1>2, ProceedFields
  <2>2. BaseOK(c)' /\ CommitOK(c)'
    BY <1>1, <1>2, <2>1 DEF BaseOK, CommitOK, OpenerOK, BaseContains, AfterReads
  <2> QED
    BY <1>1, <1>2, <2>2, ProceedStep DEF OpenerPCs
<1>3. CASE Settles(c, "failed")
  BY <1>1, <1>3, SettleStep
<1>4. CASE Fails(c)
  BY <1>1, <1>4, FailsStep
<1> QED
  BY <1>2, <1>3, <1>4

LEMMA FetchAndApplyStep ==
  ASSUME PullInv, NEW c \in Openers, FetchAndApply(c)
  PROVE  PullInv'
<1> USE DEF FetchAndApply, OpenerAt
<1>1. PullTyped /\ OpenerOK(c) /\ opener[c].pc = "fetch" /\ ~Finding(c)
  BY DEF PullInv, Finding
<1>2. CASE Proceeds(c, "build") /\ UNCHANGED outcome
  <2>1. opener'[c].pc = "build" /\ opener'[c].base = opener[c].base
    BY <1>1, <1>2, ProceedFields
  <2>2. BaseOK(c)' /\ CommitOK(c)'
    BY <1>1, <1>2, <2>1 DEF BaseOK, CommitOK, OpenerOK, AfterReads
  <2> QED
    BY <1>1, <1>2, <2>2, ProceedStep DEF OpenerPCs
<1>3. CASE Settles(c, "failed")
  BY <1>1, <1>3, SettleStep
<1>4. CASE Fails(c)
  BY <1>1, <1>4, FailsStep
<1> QED
  BY <1>2, <1>3, <1>4

LEMMA BuildStep ==
  ASSUME PullInv, NEW c \in Openers, Build(c)
  PROVE  PullInv'
<1> USE DEF Build, OpenerAt, Parent
<1>1. PullTyped /\ OpenerOK(c) /\ opener[c].pc = "build" /\ ~Finding(c)
  BY DEF PullInv, Finding
<1>2. CASE Fails(c)
  BY <1>1, <1>2, FailsStep
<1>3. CASE /\ opener' = [opener EXCEPT ![c].pc = "ref",
                           ![c].commit = [parent |-> opener[c].base,
                                          tree |-> Applied(opener[c].patch, TreeOf(opener[c].base))]]
           /\ UNCHANGED outcome
  <2>1. PICK base \in Published : base = opener[c].base /\ Contains(staging, base)
    BY <1>1 DEF OpenerOK, BaseOK
  <2>13. PICK tree : tree = Applied(opener[c].patch, TreeOf(base))
    OBVIOUS
  <2>14. PICK commit : commit = [parent |-> base, tree |-> tree]
    OBVIOUS
  <2>2. checkout[c].edits \in SUBSET Files
    BY <1>1 DEF PullTyped
  <2>3. /\ \A hunk \in opener[c].patch : hunk.file \in checkout[c].edits /\ hunk.now = "fixed"
        /\ ~checkout[c].moved => checkout[c].edits \subseteq Touched(opener[c].patch)
    BY <1>1 DEF OpenerOK, PatchOK
  <2>4. /\ tree \in [Files -> Contents]
        /\ \A x \in Files : tree[x] # TreeOf(base)[x] => x \in checkout[c].edits
        /\ \A x \in Touched(opener[c].patch) : tree[x] = "fixed"
    <3>1. TreeOf(base) \in [Files -> Contents]
      BY TreeOfPublished
    <3>2. PICK patch : patch = opener[c].patch
      OBVIOUS
    <3>3. PICK edits \in SUBSET Files : edits = checkout[c].edits
      BY <2>2
    <3>4. PICK old \in [Files -> Contents] : old = TreeOf(base)
      BY <3>1
    <3>5. \A hunk \in patch : hunk.file \in edits /\ hunk.now = "fixed"
      BY <2>3, <3>2, <3>3
    <3>6. /\ Applied(patch, old) \in [Files -> Contents]
          /\ \A x \in Files : Applied(patch, old)[x] # old[x] => x \in edits
          /\ \A x \in Touched(patch) : Applied(patch, old)[x] = "fixed"
      BY <3>5, AppliedEdits
    <3>7. tree = Applied(patch, old)
      BY <2>13, <3>2, <3>4
    <3> QED
      BY <3>2, <3>3, <3>4, <3>6, <3>7
  <2>5. commit \in Commits /\ commit.parent = base /\ commit.tree = tree
    BY <2>4, <2>14 DEF Commits
  <2>6. AddsFix(c, commit)
    BY <2>1, <2>3, <2>4, <2>5 DEF AddsFix
  <2> DEFINE r == [opener[c] EXCEPT !.pc = "ref", !.commit = commit]
  <2>7. /\ r \in [pc : OpenerPCs \ {"end"}, base : Published \cup {NotYet}, patch : Patches,
                  commit : Commits \cup {NotYet}, written : BOOLEAN, number : Nat]
        /\ r.pc = "ref" /\ r.commit = commit
        /\ r.written = opener[c].written /\ r.patch = opener[c].patch
    BY <1>1, <2>5 DEF PullTyped, OpenerPCs
  <2>8. opener' = [opener EXCEPT ![c] = r]
    BY <1>1, <1>3, <2>1, <2>13, <2>14 DEF PullTyped
  <2> HIDE DEF r
  <2>9. opener'[c] = r
    BY <1>1, <2>8 DEF PullTyped
  <2>10. BaseOK(c)'
    BY <2>7, <2>9 DEF BaseOK
  <2>11. AddsFix(c, commit)'
    BY <2>6 DEF AddsFix, AfterReads
  <2>12. CommitOK(c)'
    BY <2>7, <2>9, <2>11 DEF CommitOK, AddsFix, AfterReads
  <2> QED
    BY <1>1, <1>3, <2>7, <2>8, <2>10, <2>12, AdvanceStep
<1> QED
  BY <1>2, <1>3

-----------------------------------------------------------------------------
(* openPR, from the ref to the pull request.                               *)

\* What a step of c that others can see has to show.
LEMMA VisibleStep ==
  ASSUME PullInv, NEW c \in Openers, opener[c].pc \notin {"head", "cut", "end"},
         PullTyped', Alone(c), UNCHANGED <<checkout, object, staging>>,
         opener'[c].pc \in {"find", "end"}, opener'[c].patch = opener[c].patch,
         LeftOK(c)', \A d \in Openers \ {c} : Left(d)' => Left(d),
         \A d \in Openers : CalmOK(d)',
         (ref # NotYet => AddsFix(ref.by, ref.commit))'
  PROVE  PullInv'
<1>1. \A d \in Openers : OpenerOK(d)
  BY DEF PullInv
<1>2. Grows
  BY DEF Grows
<1>3. ASSUME NEW d \in Openers, d # c
      PROVE  OpenerOK(d)'
  <2>1. opener'[d] = opener[d] /\ outcome'[d] = outcome[d] /\ checkout'[d] = checkout[d]
    BY <1>3 DEF Alone
  <2>2. TreeOK(d)' /\ PatchOK(d)' /\ BaseOK(d)' /\ CommitOK(d)' /\ LeftOK(d)'
    BY <1>2, <1>3, <2>1, OtherStands
  <2> QED
    BY <2>2 DEF OpenerOK
<1>4. TreeOK(c)' /\ PatchOK(c)'
  BY <1>1 DEF OpenerOK, TreeOK, PatchOK
<1>5. BaseOK(c)' /\ CommitOK(c)'
  BY DEF BaseOK, CommitOK
<1>6. OpenerOK(c)'
  BY <1>4, <1>5 DEF OpenerOK
<1> QED
  BY <1>3, <1>6 DEF PullInv

\* The two ways a write that may have gone through leaves the call.
LEMMA WroteOrSettled ==
  ASSUME PullTyped, NEW c \in Openers, NEW pc \in {"find"}, NEW answer \in {"completed", "in_doubt"},
         Wrote(c, pc) \/ Settles(c, answer)
  PROVE  /\ opener' \in [Openers -> [pc : OpenerPCs, base : Published \cup {NotYet}, patch : Patches,
                                     commit : Commits \cup {NotYet}, written : BOOLEAN, number : Nat]]
         /\ outcome' \in [Openers -> {"completed", "failed", "in_doubt", "nothing", NotYet}]
         /\ \A d \in Openers \ {c} : opener'[d] = opener[d] /\ outcome'[d] = outcome[d]
         /\ opener'[c].patch = opener[c].patch
         /\ \/ opener'[c].pc = pc /\ opener'[c].written /\ outcome'[c] = outcome[c]
            \/ opener'[c].pc = "end" /\ outcome'[c] = answer
<1> DEFINE R == [pc : OpenerPCs, base : Published \cup {NotYet}, patch : Patches,
                 commit : Commits \cup {NotYet}, written : BOOLEAN, number : Nat]
<1>0. opener \in [Openers -> R] /\ opener[c] \in R
  BY DEF PullTyped
<1>1. CASE Wrote(c, pc)
  <2> DEFINE r == [opener[c] EXCEPT !.pc = pc, !.written = TRUE]
  <2>1. r \in R /\ r.pc = pc /\ r.written /\ r.patch = opener[c].patch
    BY <1>0 DEF OpenerPCs
  <2>2. opener' = [opener EXCEPT ![c] = r] /\ outcome' = outcome
    BY <1>0, <1>1 DEF Wrote
  <2> HIDE DEF r, R
  <2>3. opener' \in [Openers -> R] /\ opener'[c] = r /\ \A d \in Openers \ {c} : opener'[d] = opener[d]
    BY <1>0, <2>1, <2>2
  <2> QED
    BY <2>1, <2>2, <2>3 DEF PullTyped, R
<1>2. CASE Settles(c, answer)
  <2> DEFINE r == [opener[c] EXCEPT !.pc = "end"]
  <2>1. r \in R /\ r.pc = "end" /\ r.patch = opener[c].patch
    BY <1>0 DEF OpenerPCs
  <2>2. opener' = [opener EXCEPT ![c] = r] /\ outcome' = [outcome EXCEPT ![c] = answer]
    BY <1>0, <1>2 DEF Settles
  <2> HIDE DEF r, R
  <2>3. opener' \in [Openers -> R] /\ opener'[c] = r /\ \A d \in Openers \ {c} : opener'[d] = opener[d]
    BY <1>0, <2>1, <2>2
  <2>4. /\ outcome' \in [Openers -> {"completed", "failed", "in_doubt", "nothing", NotYet}]
        /\ outcome'[c] = answer /\ \A d \in Openers \ {c} : outcome'[d] = outcome[d]
    BY <2>2 DEF PullTyped
  <2> QED
    BY <2>1, <2>3, <2>4 DEF R
<1> QED
  BY <1>1, <1>2

LEMMA PushStep ==
  ASSUME PullInv, NEW c \in Openers, opener[c].pc \in {"ref", "force"},
         Pushes(c), Wrote(c, "find") \/ Settles(c, "in_doubt"),
         UNCHANGED <<checkout, object, staging, pulls>>
  PROVE  PullInv'
<1>1. PullTyped /\ OpenerOK(c) /\ outcome[c] = NotYet
  BY DEF PullInv, OpenerOK, LeftOK
<1>2. PICK commit \in Commits : commit = opener[c].commit /\ AddsFix(c, commit)
  BY <1>1 DEF OpenerOK, CommitOK, AddsFix
<1>3. ref' = [by |-> c, commit |-> commit] /\ ref'.by = c /\ ref'.commit = commit
  BY <1>2 DEF Pushes
<1>4. calm' \subseteq {c} /\ (c \in calm' => \A d \in Openers \ {c} : ~Finding(d))
  BY DEF Pushes
<1>5. /\ PullTyped' /\ Alone(c) /\ opener'[c].patch = opener[c].patch
      /\ \/ opener'[c].pc = "find" /\ opener'[c].written /\ outcome'[c] = NotYet
         \/ opener'[c].pc = "end" /\ outcome'[c] = "in_doubt"
  BY <1>1, <1>3, <1>4, WroteOrSettled DEF PullTyped, Alone
<1>6. LeftOK(c)'
  BY <1>5 DEF LeftOK, Finding
<1>7. ASSUME NEW d \in Openers \ {c}, Left(d)'
      PROVE  Left(d)
  BY <1>3, <1>7 DEF Left
<1>8. ASSUME NEW d \in Openers
      PROVE  CalmOK(d)'
  <2>1. SUFFICES ASSUME d \in calm'
                 PROVE  CalmOK(c)' /\ d = c
    BY DEF CalmOK
  <2>2. d = c /\ \A e \in Openers \ {c} : ~Finding(e)'
    BY <1>4, <1>5, <2>1 DEF Finding, Alone
  <2> QED
    BY <1>3, <1>5, <2>2, NotYetAssumption DEF CalmOK
<1>9. (ref # NotYet => AddsFix(ref.by, ref.commit))'
  <2>1. AddsFix(c, commit)'
    BY <1>2 DEF AddsFix
  <2> QED
    BY <1>3, <2>1 DEF AddsFix
<1>10. opener[c].pc \notin {"head", "cut", "end"} /\ opener'[c].pc \in {"find", "end"}
  BY <1>5
<1> QED
  BY <1>5, <1>6, <1>7, <1>8, <1>9, <1>10, VisibleStep

LEMMA CreateRefStep ==
  ASSUME PullInv, NEW c \in Openers, CreateRef(c)
  PROVE  PullInv'
<1> USE DEF CreateRef, OpenerAt
<1>1. PullTyped /\ OpenerOK(c) /\ opener[c].pc = "ref" /\ ~Finding(c)
  BY DEF PullInv, Finding
<1>2. CASE Pushes(c) /\ (Wrote(c, "find") \/ Settles(c, "in_doubt"))
  BY <1>1, <1>2, PushStep
<1>3. CASE Proceeds(c, "force") /\ UNCHANGED <<ref, calm, outcome>>
  <2>1. opener'[c].pc = "force" /\ opener'[c].commit = opener[c].commit
    BY <1>1, <1>3, ProceedFields
  <2>2. BaseOK(c)'
    BY <2>1 DEF BaseOK
  <2>3. CommitOK(c)'
    BY <1>1, <1>3, <2>1 DEF CommitOK, OpenerOK, AddsFix
  <2> QED
    BY <1>1, <1>3, <2>2, <2>3, ProceedStep DEF OpenerPCs, AfterReads
<1>4. CASE Fails(c) /\ UNCHANGED <<ref, calm>>
  BY <1>1, <1>4, FailsStep DEF AfterReads
<1> QED
  BY <1>2, <1>3, <1>4

LEMMA ForceRefStep ==
  ASSUME PullInv, NEW c \in Openers, ForceRef(c)
  PROVE  PullInv'
<1> USE DEF ForceRef, OpenerAt
<1>1. CASE Pushes(c) /\ (Wrote(c, "find") \/ Settles(c, "in_doubt"))
  BY <1>1, PushStep
<1>2. CASE Fails(c) /\ UNCHANGED <<ref, calm>>
  BY <1>2, FailsStep DEF AfterReads
<1> QED
  BY <1>1, <1>2

LEMMA FindPullStep ==
  ASSUME PullInv, NEW c \in Openers, FindPull(c)
  PROVE  PullInv'
<1> USE DEF FindPull, OpenerAt
<1>1. PullTyped /\ OpenerOK(c) /\ opener[c].pc = "find" /\ Finding(c)
  BY DEF PullInv, Finding
<1>2. CASE \E n \in FoundPulls :
             opener' = [opener EXCEPT ![c].pc = "edit", ![c].number = n] /\ UNCHANGED outcome
  <2>1. PICK n \in OpenPulls : opener' = [opener EXCEPT ![c].pc = "edit", ![c].number = n] /\ UNCHANGED outcome
    BY <1>2 DEF FoundPulls
  <2>2. n \in Nat
    BY <1>1 DEF PullTyped, OpenPulls
  <2> DEFINE r == [opener[c] EXCEPT !.pc = "edit", !.number = n]
  <2>3. /\ r \in [pc : OpenerPCs \ {"end"}, base : Published \cup {NotYet}, patch : Patches,
                  commit : Commits \cup {NotYet}, written : BOOLEAN, number : Nat]
        /\ r.pc = "edit" /\ r.number = n
        /\ r.written = opener[c].written /\ r.patch = opener[c].patch
    BY <1>1, <2>2 DEF PullTyped, OpenerPCs
  <2>4. opener' = [opener EXCEPT ![c] = r]
    BY <1>1, <2>1 DEF PullTyped
  <2> HIDE DEF r
  <2>5. opener'[c] = r
    BY <1>1, <2>4 DEF PullTyped
  <2>6. BaseOK(c)' /\ CommitOK(c)'
    BY <2>3, <2>5 DEF BaseOK, CommitOK
  <2> QED
    BY <1>1, <2>1, <2>3, <2>4, <2>6, AdvanceStep
<1>3. CASE Proceeds(c, "open") /\ UNCHANGED outcome
  <2>1. opener'[c].pc = "open"
    BY <1>1, <1>3, ProceedFields
  <2>2. BaseOK(c)' /\ CommitOK(c)'
    BY <2>1 DEF BaseOK, CommitOK
  <2> QED
    BY <1>1, <1>3, <2>2, ProceedStep DEF OpenerPCs
<1>4. CASE Fails(c)
  BY <1>1, <1>4, FailsStep
<1> QED
  BY <1>2, <1>3, <1>4

LEMMA SeqElement ==
  ASSUME NEW S, NEW s \in Seq(S), NEW i \in DOMAIN s
  PROVE  s[i] \in S
BY ElementOfSeq, LenProperties

LEMMA SeqReplace ==
  ASSUME NEW S, NEW s \in Seq(S), NEW i \in DOMAIN s, NEW e \in S
  PROVE  /\ [s EXCEPT ![i] = e] \in Seq(S) /\ DOMAIN [s EXCEPT ![i] = e] = DOMAIN s
         /\ [s EXCEPT ![i] = e][i] = e
         /\ \A j \in DOMAIN s : j # i => [s EXCEPT ![i] = e][j] = s[j]
BY ExceptSeq, LenProperties

LEMMA SeqExtend ==
  ASSUME NEW S, NEW s \in Seq(S), NEW e \in S
  PROVE  /\ Append(s, e) \in Seq(S) /\ DOMAIN Append(s, e) = DOMAIN s \cup {Len(s) + 1}
         /\ Append(s, e)[Len(s) + 1] = e
         /\ \A j \in DOMAIN s : Append(s, e)[j] = s[j]
<1>1. PICK t : t = Append(s, e)
  OBVIOUS
<1>2. /\ t \in Seq(S) /\ Len(t) = Len(s) + 1 /\ t[Len(s) + 1] = e
      /\ \A j \in 1..Len(s) : t[j] = s[j]
  BY <1>1, AppendProperties
<1>3. Len(s) \in Nat /\ DOMAIN s = 1..Len(s) /\ DOMAIN t = 1..Len(t)
  BY <1>2, LenProperties
<1>4. DOMAIN t = DOMAIN s \cup {Len(s) + 1}
  BY <1>2, <1>3
<1> QED
  BY <1>1, <1>2, <1>3, <1>4

\* A pull request that is touched only in its title, or a new one, is the caller's.
LEMMA TitledStep ==
  ASSUME PullInv, NEW c \in Openers, opener[c].pc \in {"edit", "open"},
         NEW answer \in {"completed", "in_doubt"}, Settles(c, answer),
         pulls' \in Seq([open : BOOLEAN, title : Openers]),
         \A n \in DOMAIN pulls' : pulls'[n].title = c \/ (n \in DOMAIN pulls /\ pulls'[n] = pulls[n]),
         c \in calm => \E n \in OpenPulls' : pulls'[n].title = c,
         UNCHANGED <<checkout, object, staging, ref, calm>>
  PROVE  PullInv'
<1>1. PullTyped /\ OpenerOK(c) /\ Finding(c)
  BY DEF PullInv, Finding
<1>2. /\ PullTyped' /\ Alone(c) /\ opener'[c].patch = opener[c].patch
      /\ opener'[c].pc = "end" /\ outcome'[c] = answer
  <2>1. opener'[c].pc = "end" /\ outcome'[c] = answer
    BY <1>1 DEF PullTyped, Settles
  <2> QED
    BY <1>1, <2>1, WroteOrSettled DEF PullTyped, Alone
<1>3. LeftOK(c)'
  BY <1>2 DEF LeftOK, Finding
<1>4. ASSUME NEW d \in Openers \ {c}, Left(d)'
      PROVE  Left(d)
  BY <1>4 DEF Left
<1>5. ASSUME NEW d \in Openers
      PROVE  CalmOK(d)'
  <2>1. SUFFICES ASSUME d \in calm
                 PROVE  CalmOK(d)'
    BY DEF CalmOK
  <2>2. CalmOK(d)
    BY DEF PullInv, OpenerOK
  <2>3. d = c
    BY <1>1, <2>1, <2>2 DEF CalmOK
  <2>4. \A e \in Openers \ {c} : ~Finding(e)'
    BY <1>2, <2>1, <2>2, <2>3 DEF CalmOK, Alone, Finding
  <2> QED
    BY <1>2, <2>1, <2>2, <2>3, <2>4 DEF CalmOK
<1>6. (ref # NotYet => AddsFix(ref.by, ref.commit))'
  BY DEF PullInv, AddsFix
<1>7. opener[c].pc \notin {"head", "cut", "end"} /\ opener'[c].pc \in {"find", "end"}
  BY <1>2
<1> QED
  BY <1>2, <1>3, <1>4, <1>5, <1>6, <1>7, VisibleStep

LEMMA EditPullStep ==
  ASSUME PullInv, NEW c \in Openers, EditPull(c)
  PROVE  PullInv'
<1> USE DEF EditPull, OpenerAt
<1>1. PullTyped /\ OpenerOK(c) /\ opener[c].pc = "edit"
  BY DEF PullInv
<1>2. CASE Fails(c) /\ UNCHANGED pulls
  BY <1>1, <1>2, FailsStep DEF AfterReads
<1>3. CASE /\ pulls' = [pulls EXCEPT ![opener[c].number].title = c]
           /\ Settles(c, "completed") \/ Settles(c, "in_doubt")
  <2>1. PICK number : number = opener[c].number
    OBVIOUS
  <2>2. pulls \in Seq([open : BOOLEAN, title : Openers])
    BY <1>1 DEF PullTyped
  <2>3. CASE number \in DOMAIN pulls
    <3> DEFINE r == [pulls[number] EXCEPT !.title = c]
    <3>0. pulls[number] \in [open : BOOLEAN, title : Openers]
      BY <2>2, <2>3, SeqElement
    <3>1. /\ r \in [open : BOOLEAN, title : Openers]
          /\ r.title = c /\ r.open = pulls[number].open
      BY <3>0
    <3>2. pulls' = [pulls EXCEPT ![number] = r]
      BY <1>3, <2>1, <2>3
    <3> HIDE DEF r
    <3>3. /\ pulls' \in Seq([open : BOOLEAN, title : Openers]) /\ DOMAIN pulls' = DOMAIN pulls
          /\ pulls'[number] = r /\ \A n \in DOMAIN pulls : n # number => pulls'[n] = pulls[n]
      BY <2>2, <2>3, <3>1, <3>2, SeqReplace
    <3>4. c \in calm => \E n \in OpenPulls' : pulls'[n].title = c
      <4>1. c \in calm => number \in OpenPulls
        BY <1>1, <2>1 DEF OpenerOK, CalmOK
      <4> QED
        BY <3>1, <3>3, <4>1 DEF OpenPulls
    <3> QED
      BY <1>1, <1>3, <3>1, <3>3, <3>4, TitledStep
  <2>4. CASE number \notin DOMAIN pulls
    <3>1. pulls' = pulls
      BY <1>3, <2>1, <2>2, <2>4
    <3>2. c \notin calm
      BY <1>1, <2>1, <2>4 DEF OpenerOK, CalmOK, OpenPulls
    <3> QED
      BY <1>1, <1>3, <2>2, <3>1, <3>2, TitledStep
  <2> QED
    BY <2>3, <2>4
<1> QED
  BY <1>2, <1>3

LEMMA OpenPullStep ==
  ASSUME PullInv, NEW c \in Openers, OpenPull(c)
  PROVE  PullInv'
<1> USE DEF OpenPull, OpenerAt
<1>1. PullTyped /\ OpenerOK(c) /\ opener[c].pc = "open"
  BY DEF PullInv
<1>2. CASE Fails(c) /\ UNCHANGED pulls
  BY <1>1, <1>2, FailsStep DEF AfterReads
<1>3. CASE /\ pulls' = Append(pulls, [open |-> TRUE, title |-> c])
           /\ Settles(c, "completed") \/ Settles(c, "in_doubt")
  <2>1. PICK new : new = [open |-> TRUE, title |-> c]
    OBVIOUS
  <2>2. new \in [open : BOOLEAN, title : Openers] /\ new.open /\ new.title = c
    BY <2>1
  <2>3. pulls \in Seq([open : BOOLEAN, title : Openers]) /\ pulls' = Append(pulls, new)
    BY <1>1, <1>3, <2>1 DEF PullTyped
  <2>4. /\ pulls' \in Seq([open : BOOLEAN, title : Openers])
        /\ DOMAIN pulls' = DOMAIN pulls \cup {Len(pulls) + 1}
        /\ pulls'[Len(pulls) + 1] = new
        /\ \A n \in DOMAIN pulls : pulls'[n] = pulls[n]
    BY <2>2, <2>3, SeqExtend
  <2>5. \A n \in DOMAIN pulls' : pulls'[n].title = c \/ (n \in DOMAIN pulls /\ pulls'[n] = pulls[n])
    BY <2>2, <2>4
  <2>6. \E n \in OpenPulls' : pulls'[n].title = c
    BY <2>2, <2>4 DEF OpenPulls
  <2> QED
    BY <1>1, <1>3, <2>4, <2>5, <2>6, TitledStep
<1> QED
  BY <1>2, <1>3

-----------------------------------------------------------------------------
(* What others do to the branch and to its base.                           *)

LEMMA StagingAdvancesStep ==
  ASSUME PullInv, StagingAdvances
  PROVE  PullInv'
<1> USE DEF StagingAdvances
<1>1. PullTyped /\ Grows
  BY DEF PullInv, Grows, Contains
<1>2. PullTyped'
  BY <1>1 DEF PullTyped
<1>3. ASSUME NEW d \in Openers
      PROVE  OpenerOK(d)'
  <2>1. CalmOK(d)'
    BY DEF PullInv, OpenerOK, CalmOK, Finding, OpenPulls
  <2>2. Left(d)' => Left(d)
    BY DEF Left
  <2> QED
    BY <1>1, <2>1, <2>2, OtherStands DEF OpenerOK
<1>4. (ref # NotYet => AddsFix(ref.by, ref.commit))'
  BY <1>1 DEF PullInv, AddsFix, Grows, Commits
<1> QED
  BY <1>2, <1>3, <1>4 DEF PullInv

LEMMA ClosePullStep ==
  ASSUME PullInv, ClosePull
  PROVE  PullInv'
<1> USE DEF ClosePull
<1>1. PullTyped /\ Grows
  BY DEF PullInv, Grows
<1>2. PICK number \in OpenPulls : pulls' = [pulls EXCEPT ![number].open = FALSE]
  OBVIOUS
<1>3. number \in DOMAIN pulls /\ pulls \in Seq([open : BOOLEAN, title : Openers])
  BY <1>1 DEF OpenPulls, PullTyped
<1> DEFINE r == [pulls[number] EXCEPT !.open = FALSE]
<1>4. r \in [open : BOOLEAN, title : Openers] /\ r.title = pulls[number].title
  <2>1. pulls[number] \in [open : BOOLEAN, title : Openers]
    BY <1>3, SeqElement
  <2> QED
    BY <2>1
<1>5. pulls' = [pulls EXCEPT ![number] = r]
  BY <1>2, <1>3
<1> HIDE DEF r
<1>6. /\ pulls' \in Seq([open : BOOLEAN, title : Openers]) /\ DOMAIN pulls' = DOMAIN pulls
      /\ pulls'[number] = r /\ \A n \in DOMAIN pulls : n # number => pulls'[n] = pulls[n]
  BY <1>3, <1>4, <1>5, SeqReplace
<1>7. PullTyped'
  BY <1>1, <1>6 DEF PullTyped
<1>8. ASSUME NEW d \in Openers
      PROVE  OpenerOK(d)'
  <2>1. CalmOK(d)'
    BY DEF CalmOK
  <2>2. Left(d)' => Left(d)
    BY <1>3, <1>4, <1>6 DEF Left
  <2> QED
    BY <1>1, <2>1, <2>2, OtherStands DEF OpenerOK
<1>9. (ref # NotYet => AddsFix(ref.by, ref.commit))'
  BY DEF PullInv, AddsFix
<1> QED
  BY <1>7, <1>8, <1>9 DEF PullInv

-----------------------------------------------------------------------------
(* The pull request is safe.                                               *)

LEMMA PullBeginning ==
  ASSUME PullInit
  PROVE  PullInv
<1>1. PICK heads \in [Openers -> {"s0", "planted"}], edits \in [Openers -> SUBSET Files] :
         PullBegins(heads, edits)
  BY DEF PullInit
<1> USE <1>1 DEF PullBegins
<1>2. \A c \in Openers : TreeOf(heads[c]) \in [Files -> Contents]
  <2>1. \A c \in Openers : heads[c] \in Published
    BY DEF Published
  <2> QED
    BY <2>1, TreeOfPublished
<1>3. {} \in Patches
  <2>1. "s0" \in Published /\ {} \in SUBSET {} /\ {} \in SUBSET Files
    BY DEF Published
  <2>2. Diff(Edited(TreeOf("s0"), {}), Edited(Edited(TreeOf("s0"), {}), {})) \in Patches
    BY <2>1, CapturedIsPatch
  <2>3. Edited(Edited(TreeOf("s0"), {}), {}) = Edited(TreeOf("s0"), {})
    BY DEF Edited
  <2>4. Diff(Edited(TreeOf("s0"), {}), Edited(TreeOf("s0"), {})) = {}
    BY DEF Diff
  <2> QED
    BY <2>2, <2>3, <2>4
<1>4. PullTyped
  <2>1. checkout \in [Openers -> [head : Published, tree : [Files -> Contents],
                                  edits : SUBSET Files, moved : BOOLEAN]]
    BY <1>2 DEF Published
  <2>2. opener \in [Openers -> [pc : OpenerPCs, base : Published \cup {NotYet}, patch : Patches,
                                commit : Commits \cup {NotYet}, written : BOOLEAN, number : Nat]]
    BY <1>3 DEF OpenerPCs
  <2>3. pulls \in Seq([open : BOOLEAN, title : Openers])
    BY EmptySeq
  <2> QED
    BY <2>1, <2>2, <2>3 DEF PullTyped
<1>5. ASSUME NEW c \in Openers
      PROVE  OpenerOK(c)
  <2>1. TreeOK(c)
    <3>1. Edited(TreeOf(heads[c]), {}) = TreeOf(heads[c])
      BY <1>2 DEF Edited
    <3> QED
      BY <3>1 DEF TreeOK
  <2>2. opener[c].pc = "head" /\ outcome[c] = NotYet /\ ~Left(c)
    BY DEF Left
  <2> QED
    BY <2>1, <2>2 DEF OpenerOK, PatchOK, BaseOK, CommitOK, LeftOK, CalmOK, Finding
<1> QED
  BY <1>4, <1>5 DEF PullInv

LEMMA PullUntouched ==
  ASSUME PullInv, UNCHANGED pullVars
  PROVE  PullInv'
<1> USE DEF pullVars
<1>1. Grows /\ PullTyped'
  BY DEF PullInv, PullTyped, Grows
<1>2. ASSUME NEW d \in Openers
      PROVE  OpenerOK(d)'
  <2>1. CalmOK(d)' /\ (Left(d)' => Left(d))
    BY DEF PullInv, OpenerOK, CalmOK, Finding, OpenPulls, Left
  <2> QED
    BY <2>1, <1>1, OtherStands DEF OpenerOK
<1>3. (ref # NotYet => AddsFix(ref.by, ref.commit))'
  BY DEF PullInv, AddsFix
<1> QED
  BY <1>1, <1>2, <1>3 DEF PullInv

LEMMA PullStep ==
  ASSUME PullInv, [PullNext]_pullVars
  PROVE  PullInv'
<1>1. CASE UNCHANGED pullVars
  BY <1>1, PullUntouched
<1>2. ASSUME NEW c \in Openers, OpenerStep(c)
      PROVE  PullInv'
  BY <1>2, CaptureHeadStep, MoveHeadStep, CaptureDiffStep, ReadDiffStep, AssertBaseContainsStep,
     FetchAndApplyStep, BuildStep, CreateRefStep, ForceRefStep, FindPullStep, EditPullStep,
     OpenPullStep DEF OpenerStep
<1>3. CASE StagingAdvances
  BY <1>3, StagingAdvancesStep
<1>4. CASE ClosePull
  BY <1>4, ClosePullStep
<1> QED
  BY <1>1, <1>2, <1>3, <1>4 DEF PullNext

LEMMA PullInvSafe ==
  ASSUME PullInv
  PROVE  PullSafe
<1>1. PullTyped /\ \A c \in Openers : OpenerOK(c)
  BY DEF PullInv
<1>2. FailedLeftNothing
  <2>1. ASSUME NEW c \in Openers, outcome[c] = "failed"
        PROVE  ~Left(c)
    BY <1>1, <2>1, NotYetAssumption DEF OpenerOK, LeftOK, Finding
  <2> QED
    BY <2>1 DEF FailedLeftNothing, Left
<1>3. BranchAddsOneFix /\ WholeFixIsPushed
  BY DEF PullInv, AddsFix, BranchAddsOneFix, WholeFixIsPushed
<1>4. CompletedIsShown
  BY <1>1 DEF OpenerOK, CalmOK, CompletedIsShown, PullTyped
<1> QED
  BY <1>2, <1>3, <1>4 DEF PullSafe

-----------------------------------------------------------------------------
(* Counting the lines of a side.                                           *)

LEMMA LeastLine ==
  ASSUME NEW T, T \subseteq Nat, T # {}
  PROVE  \E i \in T : \A j \in T : i <= j
<1>1. IsWellFoundedOn(OpToRel(<, Nat), Nat)
  BY NatLessThanWellFounded
<1>2. PICK i \in T : \A j \in T : <<j, i>> \notin OpToRel(<, Nat)
  BY <1>1, WFMin
<1>3. \A j \in T : ~(j < i)
  BY <1>2 DEF OpToRel
<1> QED BY <1>3

Counted(e, m, i) == {j \in 1..i : e[j] # m}

LEMMA CountedFinite ==
  ASSUME NEW e, NEW m, NEW i \in Nat
  PROVE  /\ IsFiniteSet(Counted(e, m, i)) /\ Cardinality(Counted(e, m, i)) \in 0..i
         /\ Before(e, m, i) = Cardinality(Counted(e, m, i))
<1>1. IsFiniteSet(1..i) /\ Cardinality(1..i) = i
  BY FS_Interval
<1>2. Counted(e, m, i) \in SUBSET (1..i)
  BY DEF Counted
<1>3. IsFiniteSet(Counted(e, m, i)) /\ Cardinality(Counted(e, m, i)) <= Cardinality(1..i)
  BY <1>1, <1>2, FS_Subset
<1>4. Cardinality(Counted(e, m, i)) \in Nat
  BY <1>3, FS_CardinalityType
<1> QED
  BY <1>1, <1>3, <1>4 DEF Before, Counted

LEMMA BeforeType ==
  ASSUME NEW e, NEW m, NEW i \in Nat
  PROVE  Before(e, m, i) \in 0..i
BY CountedFinite

LEMMA BeforeStep ==
  ASSUME NEW e, NEW m, NEW i \in Nat \ {0}
  PROVE  Before(e, m, i) = Before(e, m, i - 1) + (IF e[i] # m THEN 1 ELSE 0)
<1> DEFINE S == Counted(e, m, i - 1)
           T == Counted(e, m, i)
<1>1. /\ IsFiniteSet(S) /\ Cardinality(S) \in Nat
      /\ Before(e, m, i) = Cardinality(T) /\ Before(e, m, i - 1) = Cardinality(S)
  BY CountedFinite
<1>2. i \notin S
  BY DEF Counted
<1>3. CASE e[i] # m
  <2>1. T = S \cup {i}
    BY <1>3 DEF Counted
  <2> HIDE DEF S, T
  <2> QED
    BY <1>1, <1>2, <1>3, <2>1, FS_AddElement
<1>4. CASE e[i] = m
  <2>1. T = S
    BY <1>4 DEF Counted
  <2> HIDE DEF S, T
  <2> QED
    BY <1>1, <1>4, <2>1
<1> QED
  BY <1>3, <1>4

LEMMA BeforeMonotone ==
  ASSUME NEW e, NEW m, NEW i \in Nat, NEW k \in Nat, i <= k
  PROVE  Before(e, m, i) <= Before(e, m, k)
<1>1. Counted(e, m, i) \in SUBSET Counted(e, m, k)
  BY DEF Counted
<1> QED
  BY <1>1, CountedFinite, FS_Subset

\* Over lines that a side has all of, and over lines that it has none of.
LEMMA BeforeRun ==
  ASSUME NEW e, NEW m, NEW i \in Nat, NEW k \in Nat, i <= k,
         \A x \in (i + 1)..k : e[x] # m
  PROVE  Before(e, m, k) = Before(e, m, i) + (k - i)
<1> DEFINE S == Counted(e, m, i)
           T == Counted(e, m, k)
           R == (i + 1)..k
<1>1. IsFiniteSet(S) /\ IsFiniteSet(R) /\ Cardinality(R) = k - i
  <2>1. i + 1 \in Int /\ k \in Int /\ (i + 1 > k => k - i = 0) /\ k - (i + 1) + 1 = k - i
    OBVIOUS
  <2> QED
    BY <2>1, CountedFinite, FS_Interval
<1>2. T = S \cup R /\ S \cap R = {}
  BY DEF Counted
<1>3. Cardinality(S \cap R) = 0 /\ Cardinality(S) \in Nat
  BY <1>1, <1>2, FS_EmptySet, FS_CardinalityType
<1> HIDE DEF S, T, R
<1>4. Cardinality(T) = Cardinality(S) + (k - i)
  BY <1>1, <1>2, <1>3, FS_Union
<1> QED
  BY <1>4, CountedFinite DEF S, T

LEMMA BeforeGap ==
  ASSUME NEW e, NEW m, NEW i \in Nat, NEW k \in Nat, i <= k,
         \A x \in (i + 1)..k : e[x] = m
  PROVE  Before(e, m, k) = Before(e, m, i)
<1>1. Counted(e, m, i) = Counted(e, m, k)
  BY DEF Counted
<1> QED
  BY <1>1, CountedFinite

LEMMA BeforeStrict ==
  ASSUME NEW e, NEW m, NEW i \in Nat, NEW k \in Nat, i < k, e[k] # m
  PROVE  Before(e, m, i) < Before(e, m, k)
<1>1. Before(e, m, i) <= Before(e, m, k - 1)
  BY BeforeMonotone
<1>2. Before(e, m, k) = Before(e, m, k - 1) + 1
  BY BeforeStep
<1> QED
  BY <1>1, <1>2, BeforeType

LEMMA EditLines ==
  ASSUME NEW e \in Edits
  PROVE  /\ Len(e) \in Nat \ {0} /\ DOMAIN e = 1..Len(e)
         /\ \A i \in 1..Len(e) : e[i] \in {"kept", "removed", "added"}
<1>1. PICK n \in 1..MaxLines : e \in [1..n -> {"kept", "removed", "added"}]
  BY DEF Edits
<1>2. n \in Nat \ {0}
  BY LinesAssumption
<1>3. Len(e) = n
  <2>1. PICK markers : markers = {"kept", "removed", "added"}
    OBVIOUS
  <2>2. e \in [1..n -> markers]
    BY <1>1, <2>1
  <2> QED
    BY <1>2, <2>2
<1> QED
  BY <1>1, <1>2, <1>3

\* Every place of a side is that of one line.
LEMMA LineAt ==
  ASSUME NEW e \in Edits, NEW m, NEW k \in 1..Before(e, m, Len(e))
  PROVE  \E i \in 1..Len(e) : e[i] # m /\ Before(e, m, i) = k
<1> DEFINE n == Len(e)
           T == {i \in 1..n : Before(e, m, i) >= k}
<1>1. n \in Nat \ {0}
  BY EditLines
<1>2. n \in T
  BY <1>1, BeforeType
<1>3. PICK i \in T : \A j \in T : i <= j
  <2>1. T \subseteq Nat
    <3>1. \A i \in 1..n : i \in Nat
      BY <1>1
    <3> QED
      BY <3>1
  <2> HIDE DEF T
  <2> QED
    BY <1>2, <2>1, LeastLine
<1>4. i \in 1..n /\ Before(e, m, i) >= k
  BY <1>3
<1>5. Before(e, m, i - 1) < k
  <2>1. CASE i = 1
    BY <2>1, BeforeType
  <2>2. CASE i # 1
    <3>1. i - 1 \in 1..n /\ i - 1 \notin T
      BY <1>1, <1>3, <1>4, <2>2
    <3>2. Before(e, m, i - 1) \in Nat
      BY <3>1, BeforeType
    <3> QED
      BY <3>1, <3>2
  <2> QED
    BY <2>1, <2>2
<1>6. /\ Before(e, m, i) = Before(e, m, i - 1) + (IF e[i] # m THEN 1 ELSE 0)
      /\ Before(e, m, i) \in Nat /\ Before(e, m, i - 1) \in Nat
  BY <1>1, <1>4, BeforeStep, BeforeType
<1> QED
  BY <1>4, <1>5, <1>6

LEMMA SideLines ==
  ASSUME NEW e \in Edits, NEW m
  PROVE  /\ Side(e, m) \in Seq(Nat)
         /\ Len(Side(e, m)) = Before(e, m, Len(e))
         /\ \A i \in 1..Len(e) :
              e[i] # m =>
                /\ Before(e, m, i) \in 1..Len(Side(e, m))
                /\ Side(e, m)[Before(e, m, i)] = i
<1> DEFINE n == Len(e)
           total == Before(e, m, n)
           line(k) == CHOOSE i \in DOMAIN e : e[i] # m /\ Before(e, m, i) = k
<1>1. n \in Nat \ {0} /\ DOMAIN e = 1..n /\ total \in Nat
  <2>1. n \in Nat \ {0} /\ DOMAIN e = 1..n
    BY EditLines
  <2> QED
    BY <2>1, BeforeType
<1>2. ASSUME NEW k \in 1..total
      PROVE  line(k) \in 1..n /\ e[line(k)] # m /\ Before(e, m, line(k)) = k
  <2>1. \E i \in DOMAIN e : e[i] # m /\ Before(e, m, i) = k
    BY <1>1, LineAt
  <2> QED
    BY <1>1, <2>1
<1>3. Side(e, m) = [k \in 1..total |-> line(k)]
  BY DEF Side
<1>4. \A k \in 1..total : line(k) \in Nat
  BY <1>1, <1>2
<1> HIDE DEF line, total
<1>5. Side(e, m) \in [1..total -> Nat]
  BY <1>3, <1>4
<1>6. Side(e, m) \in Seq(Nat) /\ Len(Side(e, m)) = total
  BY <1>1, <1>5
<1>7. ASSUME NEW i \in 1..n, e[i] # m
      PROVE  Before(e, m, i) \in 1..total /\ Side(e, m)[Before(e, m, i)] = i
  <2>1. Before(e, m, 0) < Before(e, m, i) /\ Before(e, m, 0) = 0
    BY <1>1, <1>7, BeforeStrict, BeforeType
  <2>2. Before(e, m, i) <= total
    BY <1>1, BeforeMonotone DEF total
  <2>3. PICK k \in 1..total : k = Before(e, m, i)
    BY <1>1, <2>1, <2>2, BeforeType
  <2>4. line(k) \in 1..n /\ e[line(k)] # m /\ Before(e, m, line(k)) = Before(e, m, i)
    BY <1>2, <2>3
  <2>5. ~(line(k) < i) /\ ~(i < line(k))
    BY <1>1, <1>7, <2>4, BeforeStrict, BeforeType
  <2> QED
    BY <1>1, <1>3, <2>3, <2>4, <2>5
<1> QED
  BY <1>6, <1>7 DEF total

-----------------------------------------------------------------------------
(* Hunks, and the lines between them.                                      *)

LEMMA ShownFacts ==
  ASSUME PatchTyped
  PROVE  /\ Len(edit) \in Nat \ {0} /\ DOMAIN edit = 1..Len(edit)
         /\ \A i \in 1..Len(edit) : edit[i] \in {"kept", "removed", "added"}
         /\ ShownLines \subseteq 1..Len(edit)
         /\ \A i \in 1..Len(edit) : i \notin ShownLines => edit[i] = "kept"
         /\ \A i \in 1..Len(edit) : i + 1 \in 1..Len(edit) /\ edit[i + 1] # "kept" => i \in ShownLines
<1>1. /\ Len(edit) \in Nat \ {0} /\ DOMAIN edit = 1..Len(edit)
      /\ \A i \in 1..Len(edit) : edit[i] \in {"kept", "removed", "added"}
  BY EditLines DEF PatchTyped
<1>2. ShownLines \subseteq 1..Len(edit)
  BY <1>1 DEF ShownLines
<1>3. ASSUME NEW i \in 1..Len(edit), i \notin ShownLines
      PROVE  edit[i] = "kept"
  <2>1. i - i \in -1..1
    BY <1>1
  <2> QED
    BY <1>1, <1>3, <2>1 DEF ShownLines
<1>4. ASSUME NEW i \in 1..Len(edit), i + 1 \in 1..Len(edit), edit[i + 1] # "kept"
      PROVE  i \in ShownLines
  <2>1. (i + 1) - i \in -1..1
    BY <1>1
  <2> QED
    BY <1>1, <1>4, <2>1 DEF ShownLines
<1> QED
  BY <1>1, <1>2, <1>3, <1>4

\* With or without old lines, a hunk starts behind the old lines that precede it.
LEMMA StartIsBehind ==
  ASSUME NEW first \in Nat \ {0}
  PROVE  StartIndex(first) = OldBefore(edit, first - 1)
<1>1. OldBefore(edit, first - 1) \in Nat
  BY BeforeType DEF OldBefore
<1> QED
  BY <1>1 DEF StartIndex, OldStart

\* A shown line that is still to come belongs to a hunk that is.
LEMMA HunkToCome ==
  ASSUME PatchTyped, LineInv, at.pc = "hunk", NEW x \in ShownLines, x >= at.line
  PROVE  \E first \in HunksLeft : first <= x
<1> DEFINE T == {y \in ShownLines : y >= at.line}
<1>1. /\ ShownLines \subseteq 1..Len(edit) /\ Len(edit) \in Nat
      /\ at.line \in 1..(Len(edit) + 1)
  BY ShownFacts DEF PatchTyped
<1>2. x \in T /\ T \subseteq Nat
  <2>1. \A y \in ShownLines : y \in Nat
    BY <1>1
  <2> QED
    BY <2>1
<1>3. PICK first \in T : \A y \in T : first <= y
  <2> HIDE DEF T
  <2> QED
    BY <1>2, LeastLine
<1>4. first \in ShownLines /\ first >= at.line /\ first <= x /\ first \in Nat
  BY <1>2, <1>3
<1>5. first - 1 \notin ShownLines
  <2>1. CASE first - 1 >= at.line
    BY <1>3, <1>4, <2>1
  <2>2. CASE first - 1 < at.line
    <3>1. first = at.line
      BY <1>1, <1>4, <2>2
    <3>2. at.line = 1
      BY <1>4, <3>1 DEF LineInv
    <3> QED
      BY <1>1, <3>1, <3>2
  <2> QED
    BY <1>1, <1>4, <2>1, <2>2
<1> QED
  BY <1>4, <1>5 DEF HunksLeft, Hunks

\* Lines that no hunk shows are the same on either side, so that copying the one yields the other.
LEMMA KeptLines ==
  ASSUME NEW e \in Edits, NEW i \in Nat, NEW k \in Nat, i <= k, k <= Len(e),
         \A x \in (i + 1)..k : e[x] = "kept"
  PROVE  /\ OldBefore(e, k) = OldBefore(e, i) + (k - i)
         /\ NewBefore(e, k) = NewBefore(e, i) + (k - i)
         /\ SubSeq(NewSide(e), 1, NewBefore(e, i))
              \o SubSeq(OldSide(e), OldBefore(e, i) + 1, OldBefore(e, k))
              = SubSeq(NewSide(e), 1, NewBefore(e, k))
<1> USE DEF OldBefore, NewBefore
<1> DEFINE old == OldSide(e)
           new == NewSide(e)
<1>0. Len(e) \in Nat
  BY EditLines
<1>1. \A x \in i..k : /\ OldBefore(e, x) = OldBefore(e, i) + (x - i)
                      /\ NewBefore(e, x) = NewBefore(e, i) + (x - i)
  <2>1. ASSUME NEW x \in i..k
        PROVE  /\ OldBefore(e, x) = OldBefore(e, i) + (x - i)
               /\ NewBefore(e, x) = NewBefore(e, i) + (x - i)
    <3>1. x \in Nat /\ i <= x /\ \A y \in (i + 1)..x : e[y] # "added" /\ e[y] # "removed"
      OBVIOUS
    <3> QED
      BY <3>1, BeforeRun
  <2> QED
    BY <2>1
<1>2. PICK a \in Nat : a = NewBefore(e, i)
  BY BeforeType
<1>3. PICK o \in Nat : o = OldBefore(e, i)
  BY BeforeType
<1>4. k \in i..k /\ OldBefore(e, k) = o + (k - i) /\ NewBefore(e, k) = a + (k - i)
  BY <1>1, <1>2, <1>3
<1>5. /\ old \in Seq(Nat) /\ Len(old) = Before(e, "added", Len(e))
      /\ new \in Seq(Nat) /\ Len(new) = Before(e, "removed", Len(e))
      /\ \A x \in 1..Len(e) : e[x] # "added" => old[Before(e, "added", x)] = x
      /\ \A x \in 1..Len(e) : e[x] # "removed" => new[Before(e, "removed", x)] = x
  BY SideLines DEF OldSide, NewSide
<1>6. o + (k - i) <= Len(old) /\ a + (k - i) <= Len(new)
  BY <1>0, <1>4, <1>5, BeforeMonotone
<1>7. ASSUME NEW j \in 1..(k - i)
      PROVE  old[o + j] = new[a + j]
  <2>1. /\ i + j \in i..k /\ i + j \in 1..Len(e) /\ i + j \in (i + 1)..k
        /\ (i + j) - i = j
    BY <1>0
  <2>2. e[i + j] = "kept"
    BY <2>1
  <2>3. Before(e, "added", i + j) = o + j /\ Before(e, "removed", i + j) = a + j
    BY <1>1, <1>2, <1>3, <2>1
  <2> QED
    BY <1>5, <2>1, <2>2, <2>3
<1> HIDE DEF old, new
<1> DEFINE s == SubSeq(new, 1, a)
           t == SubSeq(old, o + 1, o + (k - i))
           u == SubSeq(new, 1, a + (k - i))
<1>8. /\ DOMAIN old = 1..Len(old) /\ DOMAIN new = 1..Len(new)
      /\ Len(old) \in Nat /\ Len(new) \in Nat
      /\ \A x \in 1..Len(old) : old[x] \in Nat
      /\ \A x \in 1..Len(new) : new[x] \in Nat
  BY <1>5, LenProperties, ElementOfSeq
<1>9. s \in Seq(Nat) /\ Len(s) = a /\ \A x \in 1..a : s[x] = new[x]
  <2>1. \A x \in 1..a : new[x] \in Nat
    BY <1>6, <1>8
  <2>2. 1 \in Int /\ a \in Int
    OBVIOUS
  <2>3. /\ s \in Seq(Nat) /\ Len(s) = IF 1 <= a THEN a - 1 + 1 ELSE 0
        /\ \A x \in 1..(a - 1 + 1) : s[x] = new[1 + x - 1]
    BY <2>1, <2>2, SubSeqProperties
  <2> QED
    BY <2>3
<1>10. t \in Seq(Nat) /\ Len(t) = k - i /\ \A x \in 1..(k - i) : t[x] = old[o + x]
  <2>1. \A x \in (o + 1)..(o + (k - i)) : old[x] \in Nat
    BY <1>6, <1>8
  <2>2. o + 1 \in Int /\ o + (k - i) \in Int
    OBVIOUS
  <2>3. /\ t \in Seq(Nat)
        /\ Len(t) = IF o + 1 <= o + (k - i) THEN (o + (k - i)) - (o + 1) + 1 ELSE 0
        /\ \A x \in 1..((o + (k - i)) - (o + 1) + 1) : t[x] = old[(o + 1) + x - 1]
    BY <2>1, <2>2, SubSeqProperties
  <2> QED
    BY <2>3
<1>11. u \in Seq(Nat) /\ Len(u) = a + (k - i) /\ \A x \in 1..(a + (k - i)) : u[x] = new[x]
  <2>1. \A x \in 1..(a + (k - i)) : new[x] \in Nat
    BY <1>6, <1>8
  <2>2. 1 \in Int /\ a + (k - i) \in Int
    OBVIOUS
  <2>3. /\ u \in Seq(Nat) /\ Len(u) = IF 1 <= a + (k - i) THEN (a + (k - i)) - 1 + 1 ELSE 0
        /\ \A x \in 1..((a + (k - i)) - 1 + 1) : u[x] = new[1 + x - 1]
    BY <2>1, <2>2, SubSeqProperties
  <2> QED
    BY <2>3
<1> HIDE DEF s, t, u
<1>12. s \o t = u
  <2>0. PICK v : v = s \o t
    OBVIOUS
  <2>1. /\ v \in Seq(Nat) /\ Len(v) = Len(s) + Len(t)
        /\ \A x \in 1..(Len(s) + Len(t)) : v[x] = IF x <= Len(s) THEN s[x] ELSE t[x - Len(s)]
    BY <1>9, <1>10, <2>0, ConcatProperties
  <2>2. Len(v) = a + (k - i) /\ Len(v) = Len(u)
    BY <1>9, <1>10, <1>11, <2>1
  <2>3. ASSUME NEW x \in 1..Len(v)
        PROVE  v[x] = u[x]
    <3>0. x \in 1..(a + (k - i)) /\ u[x] = new[x]
      BY <1>11, <2>2
    <3>1. CASE x <= a
      <4>1. v[x] = s[x] /\ x \in 1..a
        BY <1>9, <1>10, <2>1, <3>0, <3>1
      <4> QED
        BY <1>9, <3>0, <4>1
    <3>2. CASE x > a
      <4>1. x - a \in 1..(k - i) /\ a + (x - a) = x
        BY <3>0, <3>2
      <4>2. v[x] = t[x - a]
        BY <1>9, <1>10, <2>1, <3>0, <3>2
      <4> QED
        BY <1>7, <1>10, <3>0, <4>1, <4>2
    <3> QED
      BY <3>0, <3>1, <3>2
  <2> QED
    BY <1>11, <2>0, <2>1, <2>2, <2>3, SeqEqual
<1> QED
  BY <1>2, <1>3, <1>4, <1>12 DEF s, t, u, old, new

-----------------------------------------------------------------------------
(* The steps of the application.                                           *)

\* What the fetched file is, if it is the base.
LEMMA OfBase ==
  ASSUME PatchTyped, fetched = Base
  PROVE  /\ fetched.lines = OldSide(edit) /\ ~fetched.absent
         /\ fetched.newline = (ended.old \/ OldSide(edit) = <<>>)
         /\ Len(fetched.lines) = OldBefore(edit, Len(edit))
<1>1. /\ fetched.lines = OldSide(edit) /\ ~fetched.absent
      /\ fetched.newline = (ended.old \/ OldSide(edit) = <<>>)
  BY DEF Base, File
<1>2. Len(OldSide(edit)) = OldBefore(edit, Len(edit))
  BY SideLines DEF OldSide, OldBefore, PatchTyped
<1> QED
  BY <1>1, <1>2

\* Old line i of the edit is where the base has it.
LEMMA LineOfBase ==
  ASSUME PatchTyped, fetched = Base, NEW i \in 1..Len(edit), edit[i] # "added"
  PROVE  HasLine(i) /\ OldBefore(edit, i) = OldBefore(edit, i - 1) + 1
<1>1. Len(edit) \in Nat /\ edit \in Edits
  BY ShownFacts DEF PatchTyped
<1>2. /\ OldBefore(edit, i) \in 1..Len(OldSide(edit))
      /\ OldSide(edit)[OldBefore(edit, i)] = i
  BY <1>1, SideLines DEF OldSide, OldBefore
<1>3. OldBefore(edit, i) = OldBefore(edit, i - 1) + 1
  BY <1>1, BeforeStep DEF OldBefore
<1>4. Len(OldSide(edit)) \in Nat /\ OldBefore(edit, i) <= Len(OldSide(edit))
  BY <1>1, <1>2, SideLines, LenProperties DEF OldSide
<1> QED
  BY <1>2, <1>3, <1>4, OfBase DEF HasLine

LEMMA RefuseStep ==
  ASSUME PatchInv, RefuseFile, UNCHANGED <<edit, ended, fetched>>, fetched # Base
  PROVE  PatchInv'
<1> USE DEF PatchInv, RefuseFile
<1>1. PatchTyped' /\ Written(edit, ended)'
  BY DEF PatchTyped, Written, LastOld, LastNew
<1>2. LineInv' /\ MatchInv'
  BY DEF LineInv, MatchInv, ShownLines, HasLine
<1>3. ResultInv' /\ NewlineInv'
  BY DEF ResultInv, NewlineInv, Base
<1>4. PatchSafe'
  BY DEF PatchSafe, AppliesExactly, RefusesStale, Base
<1> QED
  BY <1>1, <1>2, <1>3, <1>4

LEMMA PatchUntouched ==
  ASSUME PatchInv, UNCHANGED patchVars
  PROVE  PatchInv'
<1> USE DEF PatchInv, patchVars
<1>1. PatchTyped' /\ Written(edit, ended)'
  BY DEF PatchTyped, Written, LastOld, LastNew
<1>2. LineInv' /\ MatchInv'
  BY DEF LineInv, MatchInv, ShownLines, HasLine
<1>3. ResultInv' /\ NewlineInv'
  BY DEF ResultInv, NewlineInv, Base, ShownLines, LastShownNew, NoNewlineAfter, LastOld, LastNew
<1>4. PatchSafe'
  BY DEF PatchSafe, AppliesExactly, RefusesStale, Base, Target, ShownLines
<1> QED
  BY <1>1, <1>2, <1>3, <1>4

LEMMA LookupStep ==
  ASSUME PatchInv, Lookup
  PROVE  PatchInv'
<1> USE DEF Lookup
<1>1. PatchTyped
  BY DEF PatchInv
<1>2. CASE fetched.absent /\ ChangeKind # "create"
  <2>1. fetched # Base
    BY <1>1, <1>2, OfBase
  <2> QED
    BY <1>2, <2>1, RefuseStep
<1>3. CASE ~(fetched.absent /\ ChangeKind # "create")
  <2> USE DEF PatchInv
  <2>1. at' = [at EXCEPT !.pc = "hunk"] /\ UNCHANGED <<edit, ended, fetched, result, progress>>
    BY <1>3
  <2>2. /\ at' \in [pc : {"lookup", "hunk", "line"}, line : 1..(Len(edit) + 1), cursor : Nat]
        /\ at'.pc = "hunk" /\ at'.line = at.line /\ at'.cursor = at.cursor /\ at.line = 1
    BY <1>1, <2>1 DEF PatchTyped, LineInv
  <2>3. PatchTyped' /\ Written(edit, ended)'
    BY <1>1, <2>1, <2>2 DEF PatchTyped, Written, LastOld, LastNew
  <2>4. LineInv' /\ MatchInv'
    BY <2>1, <2>2 DEF LineInv, MatchInv, ShownLines, HasLine
  <2>5. ResultInv' /\ NewlineInv'
    BY <2>1, <2>2 DEF ResultInv, NewlineInv, Base, ShownLines, LastShownNew, NoNewlineAfter, LastOld, LastNew
  <2>6. PatchSafe'
    BY <2>1 DEF PatchSafe, AppliesExactly, RefusesStale
  <2> QED
    BY <2>3, <2>4, <2>5, <2>6
<1> QED
  BY <1>2, <1>3

LEMMA BeginHunkStep ==
  ASSUME PatchInv, BeginHunk
  PROVE  PatchInv'
<1> USE DEF BeginHunk
<1>1. PatchTyped /\ LineInv /\ edit \in Edits /\ at.pc = "hunk" /\ progress = "applying"
  BY DEF PatchInv, PatchTyped
<1>2. PICK first \in HunksLeft :
        /\ \A other \in HunksLeft : first <= other
        /\ IF StartIndex(first) < at.cursor \/ StartIndex(first) > Len(fetched.lines)
           THEN RefuseFile
           ELSE /\ result' = [result EXCEPT !.lines = @ \o Copied(at.cursor, StartIndex(first))]
                /\ at' = [pc |-> "line", line |-> first, cursor |-> StartIndex(first)]
                /\ UNCHANGED progress
  OBVIOUS
<1>3. PICK l \in 1..(Len(edit) + 1) : l = at.line
  BY <1>1 DEF PatchTyped
<1>4. /\ Len(edit) \in Nat \ {0} /\ first \in 1..Len(edit) /\ first >= l
      /\ first \in ShownLines /\ l <= Len(edit)
  BY <1>3, <1>1, ShownFacts DEF HunksLeft, Hunks
<1>5. ASSUME NEW x \in ShownLines, x >= l
      PROVE  first <= x
  <2>1. PICK other \in HunksLeft : other <= x
    BY <1>1, <1>3, <1>5, HunkToCome
  <2>2. first <= other /\ other \in Nat /\ x \in Nat
    BY <1>1, <1>2, <2>1, ShownFacts DEF HunksLeft, Hunks
  <2> QED
    BY <1>4, <2>1, <2>2
<1>6. \A x \in l..(first - 1) : x \in 1..Len(edit) /\ x \notin ShownLines /\ edit[x] = "kept"
  <2>1. ASSUME NEW x \in l..(first - 1)
        PROVE  x \in 1..Len(edit) /\ x \notin ShownLines
    BY <1>3, <1>4, <1>5
  <2> QED
    BY <1>1, <2>1, ShownFacts
<1>7. PICK start \in Nat : start = StartIndex(first) /\ start = OldBefore(edit, first - 1)
  <2>1. first \in Nat \ {0} /\ first - 1 \in Nat
    BY <1>4
  <2> QED
    BY <2>1, StartIsBehind, BeforeType DEF OldBefore
<1>8. /\ l - 1 \in Nat /\ first - 1 \in Nat /\ l - 1 <= first - 1 /\ first - 1 <= Len(edit)
      /\ \A x \in ((l - 1) + 1)..(first - 1) : edit[x] = "kept"
  BY <1>3, <1>4, <1>6
<1>9. at.cursor = OldBefore(edit, l - 1) /\ at.cursor <= start
  <2>1. at.cursor = OldBefore(edit, l - 1)
    BY <1>1, <1>3 DEF LineInv
  <2> QED
    BY <1>7, <1>8, <2>1, BeforeMonotone DEF OldBefore
<1>10. CASE start > Len(fetched.lines)
  <2>1. fetched # Base
    <3>1. OldBefore(edit, first - 1) <= OldBefore(edit, Len(edit))
      BY <1>4, <1>8, BeforeMonotone DEF OldBefore
    <3>2. OldBefore(edit, Len(edit)) \in Nat
      BY <1>4, BeforeType DEF OldBefore
    <3> QED
      BY <1>1, <1>7, <1>10, <3>1, <3>2, OfBase
  <2> QED
    BY <1>2, <1>7, <1>10, <2>1, RefuseStep
<1>11. CASE ~(start > Len(fetched.lines))
  <2>1. /\ result' = [result EXCEPT !.lines = @ \o Copied(at.cursor, start)]
        /\ at' = [pc |-> "line", line |-> first, cursor |-> start]
        /\ UNCHANGED <<edit, ended, fetched, progress>>
    <3>1. ~(start < at.cursor)
      BY <1>1, <1>7, <1>9 DEF PatchTyped
    <3> QED
      BY <1>2, <1>7, <1>11, <3>1
  <2>2. PICK copied : copied = Copied(at.cursor, start)
    OBVIOUS
  <2>3. copied \in Seq(Nat)
    <3>1. /\ fetched.lines \in Seq(Nat) /\ Len(fetched.lines) \in Nat /\ at.cursor \in Nat
      BY <1>1 DEF PatchTyped
    <3>2. at.cursor + 1 \in Int /\ start \in Int /\ \A x \in (at.cursor + 1)..start : x \in 1..Len(fetched.lines)
      BY <1>7, <1>11, <3>1
    <3>3. \A x \in (at.cursor + 1)..start : fetched.lines[x] \in Nat
      BY <3>1, <3>2, ElementOfSeq
    <3> QED
      BY <2>2, <3>2, <3>3, SubSeqProperties DEF Copied
  <2>4. /\ result'.lines = result.lines \o copied /\ result'.newline = result.newline
        /\ result' \in [lines : Seq(Nat), newline : BOOLEAN]
    <3>1. result \in [lines : Seq(Nat), newline : BOOLEAN]
      BY <1>1 DEF PatchTyped
    <3>2. PICK lines \in Seq(Nat) : lines = result.lines \o copied
      BY <2>3, <3>1, ConcatProperties
    <3>3. result' = [result EXCEPT !.lines = lines]
      BY <2>1, <2>2, <3>2
    <3> QED
      BY <3>1, <3>2, <3>3
  <2>5. at'.pc = "line" /\ at'.line = first /\ at'.cursor = start
    BY <2>1
  <2>6. PatchTyped' /\ Written(edit, ended)'
    <3>1. at' \in [pc : {"lookup", "hunk", "line"}, line : 1..(Len(edit) + 1), cursor : Nat]
      BY <1>4, <1>7, <2>1
    <3> QED
      BY <1>1, <2>1, <2>4, <3>1 DEF PatchTyped, PatchInv, Written, LastOld, LastNew
  <2>7. ShownLines' = ShownLines /\ Base' = Base
    BY <2>1 DEF ShownLines, Base
  <2>8. LineInv'
    BY <1>4, <1>7, <2>1, <2>5, <2>7 DEF LineInv
  <2>9. MatchInv'
    <3>1. ASSUME NEW i \in ShownLines, i < first
          PROVE  i < l
      BY <1>1, <1>3, <1>4, <1>5, <3>1, ShownFacts
    <3> QED
      BY <1>3, <2>1, <2>5, <2>7, <3>1 DEF PatchInv, MatchInv, HasLine
  <2>10. ResultInv'
    <3>1. SUFFICES ASSUME fetched = Base
                   PROVE  result'.lines = SubSeq(NewSide(edit), 1, NewBefore(edit, first - 1))
      BY <1>1, <2>1, <2>5, <2>7 DEF ResultInv
    <3>2. result.lines = SubSeq(NewSide(edit), 1, NewBefore(edit, l - 1))
      BY <1>1, <1>3, <3>1 DEF PatchInv, ResultInv
    <3>3. copied = SubSeq(OldSide(edit), OldBefore(edit, l - 1) + 1, OldBefore(edit, first - 1))
      BY <1>1, <1>7, <1>9, <2>2, <3>1, OfBase DEF Copied
    <3>4. PICK i \in Nat, k \in Nat : i = l - 1 /\ k = first - 1
      BY <1>8
    <3>5. /\ i <= k /\ k <= Len(edit) /\ \A x \in (i + 1)..k : edit[x] = "kept"
      BY <1>8, <3>4
    <3>6. SubSeq(NewSide(edit), 1, NewBefore(edit, i))
            \o SubSeq(OldSide(edit), OldBefore(edit, i) + 1, OldBefore(edit, k))
            = SubSeq(NewSide(edit), 1, NewBefore(edit, k))
      BY <1>1, <3>5, KeptLines
    <3> QED
      BY <2>2, <2>4, <3>2, <3>3, <3>4, <3>6
  <2>11. NewlineInv'
    <3>0. ASSUME NEW j
          PROVE  (NoNewlineAfter(j)' <=> NoNewlineAfter(j)) /\ NoNewlineAfter(j) \in BOOLEAN
      BY <2>1 DEF NoNewlineAfter, LastOld, LastNew
    <3>1. SUFFICES ASSUME NEW j \in ShownLines, j < first, edit[j] # "removed",
                          \A x \in (j + 1)..(first - 1) : edit[x] = "removed"
                   PROVE  result.newline = ~NoNewlineAfter(j)
      <4>1. SUFFICES ASSUME NEW j \in ShownLines, LastShownNew(j)'
                     PROVE  result'.newline = ~NoNewlineAfter(j)'
        BY <2>7 DEF NewlineInv
      <4>2. j < first /\ edit[j] # "removed" /\ \A x \in (j + 1)..(first - 1) : edit[x] = "removed"
        BY <2>1, <2>5, <4>1 DEF LastShownNew
      <4> QED
        BY <2>4, <3>0, <4>2
    <3>2. j \in Nat /\ j < l
      BY <1>1, <1>3, <1>4, <1>5, <3>1, ShownFacts
    <3>3. l = first
      BY <1>3, <1>4, <1>6, <3>1, <3>2
    <3> QED
      BY <1>1, <1>3, <3>1, <3>3 DEF PatchInv, NewlineInv, LastShownNew
  <2>12. PatchSafe'
    BY <1>1, <2>1 DEF PatchSafe, AppliesExactly, RefusesStale
  <2> QED
    BY <2>6, <2>8, <2>9, <2>10, <2>11, <2>12 DEF PatchInv
<1> QED
  BY <1>10, <1>11

LEMMA HunkLineStep ==
  ASSUME PatchInv, HunkLine
  PROVE  PatchInv'
<1> USE DEF HunkLine
<1>1. PatchTyped /\ LineInv /\ edit \in Edits /\ at.pc = "line" /\ progress = "applying"
  BY DEF PatchInv, PatchTyped
<1>2. PICK i \in 1..Len(edit) : i = at.line /\ i \in ShownLines
  BY <1>1, ShownFacts DEF LineInv
<1>3. Len(edit) \in Nat \ {0} /\ i \in Nat \ {0} /\ i - 1 \in Nat /\ i \in Nat
  BY <1>1, <1>2, ShownFacts
<1>4. at.cursor = OldBefore(edit, i - 1) /\ at.cursor \in Nat /\ Len(fetched.lines) \in Nat
  BY <1>1, <1>2 DEF LineInv, PatchTyped
<1>5. CASE edit[i] # "added" /\ (at.cursor >= Len(fetched.lines) \/ ~Matches(i))
  <2>1. RefuseFile
    BY <1>2, <1>5
  <2>2. fetched # Base
    BY <1>1, <1>2, <1>4, <1>5, LineOfBase DEF HasLine, Matches
  <2> QED
    BY <2>1, <2>2, RefuseStep
<1>6. CASE ~(edit[i] # "added" /\ (at.cursor >= Len(fetched.lines) \/ ~Matches(i)))
  <2>1. /\ at' = [pc |-> IF i + 1 \notin ShownLines THEN "hunk" ELSE "line", line |-> i + 1,
                  cursor |-> IF edit[i] # "added" THEN at.cursor + 1 ELSE at.cursor]
        /\ result' = IF edit[i] = "removed" THEN result
                     ELSE [lines |-> Append(result.lines, i), newline |-> ~NoNewlineAfter(i)]
        /\ UNCHANGED <<edit, ended, fetched, progress>>
    BY <1>2, <1>6
  <2>2. /\ at'.line = i + 1 /\ at'.cursor = OldBefore(edit, i)
        /\ (i + 1 \notin ShownLines => at'.pc = "hunk") /\ (i + 1 \in ShownLines => at'.pc = "line")
        /\ at' \in [pc : {"lookup", "hunk", "line"}, line : 1..(Len(edit) + 1), cursor : Nat]
    <3>1. OldBefore(edit, i) = OldBefore(edit, i - 1) + (IF edit[i] # "added" THEN 1 ELSE 0)
      BY <1>3, BeforeStep DEF OldBefore
    <3>2. i + 1 \in 1..(Len(edit) + 1)
      BY <1>3
    <3> QED
      BY <1>4, <2>1, <3>1, <3>2
  <2>3. result' \in [lines : Seq(Nat), newline : BOOLEAN]
    <3>1. result \in [lines : Seq(Nat), newline : BOOLEAN]
      BY <1>1 DEF PatchTyped
    <3>2. Append(result.lines, i) \in Seq(Nat)
      BY <1>3, <3>1, AppendProperties
    <3>3. NoNewlineAfter(i) \in BOOLEAN
      BY DEF NoNewlineAfter
    <3> QED
      BY <2>1, <3>1, <3>2, <3>3
  <2>4. PatchTyped' /\ Written(edit, ended)'
    BY <1>1, <2>1, <2>2, <2>3 DEF PatchTyped, PatchInv, Written, LastOld, LastNew
  <2>5. ShownLines' = ShownLines /\ Base' = Base
    BY <2>1 DEF ShownLines, Base
  <2>6. LineInv'
    <3>1. (i + 1) - 1 = i
      BY <1>3
    <3> QED
      BY <1>2, <2>1, <2>2, <2>5, <3>1 DEF LineInv
  <2>7. MatchInv'
    <3>1. ASSUME edit[i] # "added"
          PROVE  HasLine(i)
      <4>1. OldBefore(edit, i) = at.cursor + 1
        BY <1>3, <1>4, <3>1, BeforeStep DEF OldBefore
      <4> QED
        BY <1>4, <1>6, <3>1, <4>1 DEF HasLine, Matches
    <3>2. ASSUME NEW x \in ShownLines, x < i + 1, edit[x] # "added"
          PROVE  HasLine(x)
      <4>1. x < i \/ x = i
        BY <1>1, <1>3, <3>2, ShownFacts
      <4> QED
        BY <1>2, <3>1, <3>2, <4>1 DEF PatchInv, MatchInv
    <3> QED
      BY <2>1, <2>2, <2>5, <3>2 DEF MatchInv, HasLine
  <2>8. ResultInv'
    <3>1. SUFFICES ASSUME fetched = Base
                   PROVE  result'.lines = SubSeq(NewSide(edit), 1, NewBefore(edit, i))
      <4>1. (i + 1) - 1 = i
        BY <1>3
      <4> QED
        BY <1>1, <2>1, <2>2, <2>5, <4>1 DEF ResultInv
    <3>2. result.lines = SubSeq(NewSide(edit), 1, NewBefore(edit, i - 1))
      BY <1>1, <1>2, <3>1 DEF PatchInv, ResultInv
    <3>3. NewBefore(edit, i) = NewBefore(edit, i - 1) + (IF edit[i] # "removed" THEN 1 ELSE 0)
      BY <1>3, BeforeStep DEF NewBefore
    <3>4. PICK a \in Nat : a = NewBefore(edit, i - 1)
      BY <1>3, BeforeType DEF NewBefore
    <3>5. CASE edit[i] = "removed"
      BY <2>1, <3>2, <3>3, <3>4, <3>5
    <3>6. CASE edit[i] # "removed"
      <4>1. PICK new \in Seq(Nat) : new = NewSide(edit)
        BY <1>1, SideLines DEF NewSide
      <4>2. a + 1 = NewBefore(edit, i) /\ a + 1 \in 1..Len(new) /\ new[a + 1] = i
        BY <1>1, <3>3, <3>4, <3>6, <4>1, SideLines DEF NewSide, NewBefore
      <4>3. Len(new) \in Nat /\ \A x \in 1..Len(new) : new[x] \in Nat
        BY LenProperties, ElementOfSeq
      <4>4. 1 \in 1..Len(new) /\ a + 1 \in 1..Len(new)
        BY <4>2, <4>3
      <4>5. SubSeq(new, 1, a + 1) = SubSeq(new, 1, (a + 1) - 1) \o <<new[a + 1]>>
        BY <4>4, SubSeqRecursiveSecond
      <4>6. (a + 1) - 1 = a
        OBVIOUS
      <4>7. result.lines = SubSeq(new, 1, a) /\ result.lines \in Seq(Nat)
        BY <1>1, <3>2, <3>4, <4>1 DEF PatchTyped
      <4>8. Append(result.lines, i) = result.lines \o <<i>>
        BY <1>3, <4>7, AppendIsConcat
      <4>9. result'.lines = Append(result.lines, i)
        BY <2>1, <3>6
      <4> QED
        BY <4>1, <4>2, <4>5, <4>6, <4>7, <4>8, <4>9
    <3> QED
      BY <3>5, <3>6
  <2>9. NewlineInv'
    <3>0. ASSUME NEW j
          PROVE  (NoNewlineAfter(j)' <=> NoNewlineAfter(j)) /\ NoNewlineAfter(j) \in BOOLEAN
      BY <2>1 DEF NoNewlineAfter, LastOld, LastNew
    <3>1. SUFFICES ASSUME NEW j \in ShownLines, LastShownNew(j)'
                   PROVE  result'.newline = ~NoNewlineAfter(j)'
      BY <2>5 DEF NewlineInv
    <3>2. /\ j < i + 1 /\ edit[j] # "removed" /\ j \in Nat
          /\ \A x \in (j + 1)..i : edit[x] = "removed"
      <4>1. (i + 1) - 1 = i
        BY <1>3
      <4> QED
        BY <1>1, <2>1, <2>2, <3>1, <4>1, ShownFacts DEF LastShownNew
    <3>3. CASE j = i
      <4>1. result'.newline = ~NoNewlineAfter(i)
        BY <2>1, <3>2, <3>3
      <4> QED
        BY <3>0, <3>3, <4>1
    <3>4. CASE j # i
      <4>1. j < i /\ i \in (j + 1)..i /\ \A x \in (j + 1)..(i - 1) : x \in (j + 1)..i
        BY <1>3, <3>2, <3>4
      <4>2. result' = result
        BY <2>1, <3>2, <4>1
      <4>3. LastShownNew(j)
        BY <1>2, <3>2, <4>1 DEF LastShownNew
      <4>4. result.newline = ~NoNewlineAfter(j)
        BY <1>1, <4>3 DEF PatchInv, NewlineInv
      <4> QED
        BY <3>0, <4>2, <4>4
    <3> QED
      BY <3>3, <3>4
  <2>10. PatchSafe'
    BY <1>1, <2>1 DEF PatchSafe, AppliesExactly, RefusesStale
  <2> QED
    BY <2>4, <2>6, <2>7, <2>8, <2>9, <2>10 DEF PatchInv
<1> QED
  BY <1>5, <1>6

\* Behind the last hunk: whether the new side ends in a newline is known from the last line
\* shown, or from the base.
LEMMA EndingIsRight ==
  ASSUME PatchInv, fetched = Base, at.pc = "hunk", progress = "applying",
         NewSide(edit) # <<>>, \A x \in at.line..Len(edit) : edit[x] = "kept"
  PROVE  (IF at.cursor < Len(fetched.lines) THEN fetched.newline ELSE result.newline) = ended.new
<1> USE DEF OldBefore, NewBefore
<1>1. PatchTyped /\ LineInv /\ edit \in Edits /\ Written(edit, ended)
  BY DEF PatchInv, PatchTyped
<1>2. PICK n \in Nat \ {0} : n = Len(edit)
  BY <1>1, ShownFacts
<1>3. PICK l \in 1..(n + 1) : l = at.line
  BY <1>1, <1>2 DEF PatchTyped
<1>4. ended.old \in BOOLEAN /\ ended.new \in BOOLEAN /\ result.newline \in BOOLEAN
  BY <1>1 DEF PatchTyped
<1>5. /\ Len(OldSide(edit)) = OldBefore(edit, n) /\ Len(NewSide(edit)) = NewBefore(edit, n)
      /\ NewSide(edit) \in Seq(Nat)
  BY <1>1, <1>2, SideLines DEF OldSide, NewSide
<1>6. /\ at.cursor = OldBefore(edit, l - 1)
      /\ OldBefore(edit, n) = OldBefore(edit, l - 1) + (n - (l - 1))
      /\ OldBefore(edit, l - 1) \in Nat
  <2>1. /\ l - 1 \in Nat /\ l - 1 <= n /\ n <= Len(edit) /\ n \in Nat
        /\ \A x \in ((l - 1) + 1)..n : edit[x] = "kept"
    BY <1>2, <1>3
  <2>2. \A x \in ((l - 1) + 1)..n : edit[x] # "added"
    BY <2>1
  <2> QED
    BY <1>1, <1>3, <2>1, <2>2, BeforeRun, BeforeType DEF LineInv
<1>7. Len(fetched.lines) = OldBefore(edit, n) /\ fetched.newline = (ended.old \/ OldSide(edit) = <<>>)
  BY <1>1, <1>2, OfBase
<1>8. CASE at.cursor < Len(fetched.lines)
  <2>1. l <= n
    BY <1>6, <1>7, <1>8
  <2>2. n \in DOMAIN edit /\ edit[n] = "kept"
    BY <1>1, <1>2, <1>3, <2>1, ShownFacts
  <2>3. LastOld(edit, n) /\ LastNew(edit, n)
    BY <1>5, <2>2 DEF LastOld, LastNew
  <2>4. ended.old = ended.new
    BY <1>1, <1>4, <2>2, <2>3 DEF Written
  <2>5. OldSide(edit) # <<>>
    <3>1. Len(OldSide(edit)) # 0
      BY <1>5, <1>6, <2>1
    <3> QED
      BY <3>1, EmptySeq
  <2> QED
    BY <1>4, <1>7, <1>8, <2>4, <2>5
<1>9. CASE ~(at.cursor < Len(fetched.lines))
  <2>1. l = n + 1
    BY <1>3, <1>6, <1>7, <1>9
  <2>2. PICK p \in 1..n : edit[p] # "removed" /\ NewBefore(edit, p) = NewBefore(edit, n)
    <3>1. NewBefore(edit, n) \in Nat
      BY BeforeType
    <3>2. NewBefore(edit, n) # 0
      BY <1>5, EmptySeq, LenProperties
    <3>3. NewBefore(edit, n) \in 1..Before(edit, "removed", Len(edit))
      BY <1>2, <3>1, <3>2
    <3> QED
      BY <1>1, <1>2, <3>3, LineAt
  <2>3. ASSUME NEW x \in (p + 1)..n
        PROVE  edit[x] = "removed"
    <3>1. p \in Nat /\ x \in Nat /\ p < x /\ x <= n
      OBVIOUS
    <3>2. NewBefore(edit, x) <= NewBefore(edit, n)
      BY <3>1, BeforeMonotone
    <3>3. edit[x] # "removed" => NewBefore(edit, p) < NewBefore(edit, x)
      BY <3>1, BeforeStrict
    <3>4. NewBefore(edit, x) \in Nat /\ NewBefore(edit, n) \in Nat
      BY <3>1, BeforeType
    <3> QED
      BY <2>2, <3>2, <3>3, <3>4
  <2>4. p \in ShownLines
    <3>1. CASE p = n
      <4>1. l - 1 = n /\ l # 1
        BY <2>1
      <4> QED
        BY <1>1, <1>3, <3>1, <4>1 DEF LineInv
    <3>2. CASE p # n
      <4>1. p + 1 \in (p + 1)..n /\ p + 1 \in 1..n
        BY <3>2
      <4>2. edit[p + 1] # "kept"
        BY <2>3, <4>1
      <4> QED
        BY <1>1, <1>2, <4>1, <4>2, ShownFacts
    <3> QED
      BY <3>1, <3>2
  <2>5. LastShownNew(p)
    <3>1. p < at.line /\ at.line - 1 = n
      BY <1>3, <2>1
    <3> QED
      BY <2>2, <2>3, <3>1 DEF LastShownNew
  <2>6. result.newline = ~NoNewlineAfter(p)
    BY <2>4, <2>5 DEF PatchInv, NewlineInv
  <2>7. LastNew(edit, p)
    BY <1>5, <2>2 DEF LastNew
  <2>8. ended.new => ~(LastOld(edit, p) /\ ~ended.old)
    <3>1. p \in DOMAIN edit /\ edit[p] \in {"kept", "removed", "added"}
      BY <1>1, <1>2, ShownFacts
    <3>2. CASE edit[p] = "kept"
      BY <1>1, <3>1, <3>2 DEF Written
    <3>3. CASE edit[p] = "added"
      BY <3>3 DEF LastOld
    <3> QED
      BY <2>2, <3>1, <3>2, <3>3
  <2> QED
    BY <1>4, <1>9, <2>6, <2>7, <2>8 DEF NoNewlineAfter
<1> QED
  BY <1>8, <1>9

LEMMA FinishFileStep ==
  ASSUME PatchInv, FinishFile
  PROVE  PatchInv'
<1>1. /\ PatchTyped /\ LineInv /\ edit \in Edits /\ at.pc = "hunk" /\ progress = "applying"
      /\ HunksLeft = {} /\ progress' = "applied" /\ UNCHANGED <<edit, ended, fetched, at>>
  BY DEF FinishFile, PatchInv, PatchTyped
<1>2. PICK n \in Nat \ {0} : n = Len(edit)
  BY <1>1, ShownFacts
<1>3. PICK l \in 1..(n + 1) : l = at.line
  BY <1>1, <1>2 DEF PatchTyped
<1>4. ASSUME NEW x \in ShownLines
      PROVE  x \in 1..n /\ x < l
  <2>1. ~(x >= at.line)
    BY <1>1, HunkToCome
  <2> QED
    BY <1>1, <1>2, <1>3, <2>1, ShownFacts
<1>5. \A x \in l..n : edit[x] = "kept"
  <2>1. ASSUME NEW x \in l..n
        PROVE  x \in 1..Len(edit) /\ x \notin ShownLines
    BY <1>2, <1>3, <1>4
  <2> QED
    BY <1>1, <2>1, ShownFacts
<1>6. /\ at.cursor \in Nat /\ fetched.lines \in Seq(Nat) /\ Len(fetched.lines) \in Nat
      /\ result \in [lines : Seq(Nat), newline : BOOLEAN] /\ fetched.newline \in BOOLEAN
  BY <1>1 DEF PatchTyped
<1>7. PICK copied : copied = Copied(at.cursor, Len(fetched.lines))
  OBVIOUS
<1>8. copied \in Seq(Nat)
  <2>1. PICK a \in Int, b \in Int : a = at.cursor + 1 /\ b = Len(fetched.lines) /\ 1 <= a
    BY <1>6
  <2>2. \A x \in a..b : x \in 1..Len(fetched.lines)
    BY <2>1
  <2>3. \A x \in a..b : fetched.lines[x] \in Nat
    BY <1>6, <2>2, ElementOfSeq
  <2> QED
    BY <1>7, <2>1, <2>3, SubSeqProperties DEF Copied
<1>9. PICK lines \in Seq(Nat) : lines = result.lines \o copied
  BY <1>6, <1>8, ConcatProperties
<1>10. PICK newline \in BOOLEAN :
         newline = ((IF at.cursor < Len(fetched.lines) THEN fetched.newline ELSE result.newline)
                      \/ lines = <<>>)
  OBVIOUS
<1>11. result' = [lines |-> lines, newline |-> newline]
  BY <1>7, <1>9, <1>10 DEF FinishFile
<1>12. result'.lines = lines /\ result'.newline = newline
  BY <1>11
<1>13. PatchTyped' /\ Written(edit, ended)'
  <2>1. result' \in [lines : Seq(Nat), newline : BOOLEAN]
    BY <1>11
  <2> QED
    BY <1>1, <2>1 DEF PatchTyped, PatchInv, Written, LastOld, LastNew
<1>14. ShownLines' = ShownLines /\ Base' = Base /\ Target' = Target
  BY <1>1 DEF ShownLines, Base, Target
<1>15. LineInv' /\ MatchInv'
  BY <1>1, <1>14 DEF PatchInv, LineInv, MatchInv, HasLine
<1>16. ResultInv' /\ NewlineInv'
  BY <1>1, <1>14 DEF PatchInv, ResultInv, NewlineInv
<1>17. ASSUME fetched = Base
       PROVE  lines = NewSide(edit)
  <2>1. PICK i \in Nat, k \in Nat : i = l - 1 /\ k = n
    BY <1>3
  <2>2. i <= k /\ k <= Len(edit) /\ \A x \in (i + 1)..k : edit[x] = "kept"
    BY <1>2, <1>3, <1>5, <2>1
  <2>3. result.lines = SubSeq(NewSide(edit), 1, NewBefore(edit, i))
    BY <1>1, <1>3, <1>17, <2>1 DEF PatchInv, ResultInv
  <2>4. at.cursor = OldBefore(edit, i) /\ Len(fetched.lines) = OldBefore(edit, k)
    BY <1>1, <1>2, <1>3, <1>17, <2>1, OfBase DEF LineInv
  <2>5. copied = SubSeq(OldSide(edit), OldBefore(edit, i) + 1, OldBefore(edit, k))
    BY <1>1, <1>7, <1>17, <2>4, OfBase DEF Copied
  <2>6. lines = SubSeq(NewSide(edit), 1, NewBefore(edit, k))
    <3>1. SubSeq(NewSide(edit), 1, NewBefore(edit, i))
            \o SubSeq(OldSide(edit), OldBefore(edit, i) + 1, OldBefore(edit, k))
            = SubSeq(NewSide(edit), 1, NewBefore(edit, k))
      BY <1>1, <2>2, KeptLines
    <3> QED
      BY <1>9, <2>3, <2>5, <3>1
  <2>7. NewSide(edit) \in Seq(Nat) /\ Len(NewSide(edit)) = NewBefore(edit, k)
    BY <1>1, <1>2, <2>1, SideLines DEF NewSide, NewBefore
  <2> QED
    BY <2>6, <2>7, SubSeqFull
<1>18. AppliesExactly'
  <2>1. SUFFICES ASSUME fetched = Base
                 PROVE  File(result'.lines, result'.newline) = Target
    BY <1>1, <1>14 DEF AppliesExactly, File
  <2>2. result'.lines = NewSide(edit)
    BY <1>17, <1>12, <2>1
  <2>3. CASE NewSide(edit) = <<>>
    BY <2>2, <2>3 DEF File, Target
  <2>4. CASE NewSide(edit) # <<>>
    <3>1. (IF at.cursor < Len(fetched.lines) THEN fetched.newline ELSE result.newline) = ended.new
      BY <1>1, <1>2, <1>3, <1>5, <2>1, <2>4, EndingIsRight
    <3>2. result'.newline = (ended.new \/ lines = <<>>)
      BY <1>10, <1>12, <3>1
    <3>3. lines # <<>> /\ ended.new \in BOOLEAN
      BY <1>1, <1>17, <2>1, <2>4 DEF PatchTyped
    <3> QED
      BY <2>2, <2>4, <3>2, <3>3 DEF File, Target
  <2> QED
    BY <2>3, <2>4
<1>19. RefusesStale'
  BY <1>1, <1>3, <1>4, <1>14 DEF PatchInv, MatchInv, HasLine, RefusesStale
<1> QED
  BY <1>13, <1>15, <1>16, <1>18, <1>19 DEF PatchInv, PatchSafe

-----------------------------------------------------------------------------
(* The patch is safe, and with it the fix.                                  *)

LEMMA FetchedTyped ==
  ASSUME edit \in Edits, ended \in [old : BOOLEAN, new : BOOLEAN], fetched \in Fetchable
  PROVE  fetched \in [lines : Seq(Nat), newline : BOOLEAN, absent : BOOLEAN]
<1>1. PICK old \in Seq(Nat) : old = OldSide(edit)
  BY SideLines DEF OldSide
<1>2. Len(old) \in Nat /\ DOMAIN old = 1..Len(old) /\ \A x \in 1..Len(old) : old[x] \in Nat
  BY LenProperties, ElementOfSeq
<1>3. ASSUME NEW texts \in Seq(Nat), NEW newline \in BOOLEAN
      PROVE  File(texts, newline) \in [lines : Seq(Nat), newline : BOOLEAN, absent : BOOLEAN]
  BY DEF File
<1>4. CASE fetched = Base
  BY <1>1, <1>3, <1>4 DEF Base
<1>5. CASE fetched = Absent
  BY <1>5, EmptySeq DEF Absent
<1>6. ASSUME NEW i \in DOMAIN old,
             fetched = File(SubSeq(old, 1, i - 1) \o SubSeq(old, i + 1, Len(old)), TRUE)
      PROVE  fetched \in [lines : Seq(Nat), newline : BOOLEAN, absent : BOOLEAN]
  <2>1. PICK n \in Nat : n = Len(old) /\ i \in 1..n
    BY <1>2
  <2>2. i - 1 \in Int /\ i + 1 \in Int /\ 1 \in Int /\ n \in Int
    BY <2>1
  <2>3. /\ \A x \in 1..(i - 1) : x \in 1..n
        /\ \A x \in (i + 1)..n : x \in 1..n
    BY <2>1
  <2>4. /\ \A x \in 1..(i - 1) : old[x] \in Nat
        /\ \A x \in (i + 1)..n : old[x] \in Nat
    BY <1>2, <2>1, <2>3
  <2>5. SubSeq(old, 1, i - 1) \in Seq(Nat) /\ SubSeq(old, i + 1, n) \in Seq(Nat)
    BY <2>2, <2>4, SubSeqProperties
  <2>6. SubSeq(old, 1, i - 1) \o SubSeq(old, i + 1, n) \in Seq(Nat)
    BY <2>5, ConcatProperties
  <2> QED
    BY <1>3, <1>6, <2>1, <2>6
<1>7. ASSUME NEW i \in DOMAIN old, fetched = File([old EXCEPT ![i] = 0], ended.old)
      PROVE  fetched \in [lines : Seq(Nat), newline : BOOLEAN, absent : BOOLEAN]
  <2>1. [old EXCEPT ![i] = 0] \in Seq(Nat)
    BY <1>2, ExceptSeq
  <2> QED
    BY <1>3, <1>7, <2>1
<1> QED
  BY <1>1, <1>4, <1>5, <1>6, <1>7 DEF Fetchable

LEMMA PatchBeginning ==
  ASSUME PatchInit
  PROVE  PatchInv
<1> USE DEF PatchInit, PatchBegins
<1>1. PatchTyped
  <2>1. fetched \in [lines : Seq(Nat), newline : BOOLEAN, absent : BOOLEAN]
    BY FetchedTyped
  <2>2. Len(edit) \in Nat \ {0}
    BY EditLines
  <2>3. <<>> \in Seq(Nat)
    BY EmptySeq
  <2> QED
    BY <2>1, <2>2, <2>3 DEF PatchTyped
<1>2. OldBefore(edit, 0) = 0 /\ NewBefore(edit, 0) = 0
  BY BeforeType DEF OldBefore, NewBefore
<1>3. at.line = 1 /\ at.pc = "lookup" /\ at.cursor = 0 /\ at.line - 1 = 0
  OBVIOUS
<1>4. LineInv
  BY <1>2, <1>3 DEF LineInv
<1>5. \A x \in ShownLines : ~(x < at.line)
  <2>1. Len(edit) \in Nat /\ ShownLines \subseteq 1..Len(edit)
    BY <1>1, ShownFacts
  <2> QED
    BY <1>3, <2>1
<1>6. MatchInv /\ NewlineInv
  BY <1>5 DEF MatchInv, NewlineInv, LastShownNew
<1>7. ResultInv
  <2>1. SubSeq(NewSide(edit), 1, 0) = <<>>
    BY SubSeqEmpty
  <2> QED
    BY <1>2, <1>3, <2>1 DEF ResultInv
<1>8. PatchSafe
  BY DEF PatchSafe, AppliesExactly, RefusesStale
<1> QED
  BY <1>1, <1>4, <1>6, <1>7, <1>8 DEF PatchInv

LEMMA PatchStep ==
  ASSUME PatchInv, [PatchNext]_patchVars
  PROVE  PatchInv'
BY LookupStep, BeginHunkStep, HunkLineStep, FinishFileStep, PatchUntouched DEF PatchNext

\* A pull request carries the fix its diff describes, or nothing: for every number of calls that
\* race for the branch (captureDiff, openPullRequest and the pushing of git/commit.ts), and for
\* every edit whose diff git/apply.ts applies.
THEOREM CarriedFix == PullSpec /\ PatchSpec => []FixIsCarried
<1>1. PullSafe /\ PatchSafe => FixIsCarried
  BY DEF FixIsCarried
<1>2. PatchInv => PatchSafe
  BY DEF PatchInv
<1> QED
  BY <1>1, <1>2, PullBeginning, PullStep, PullInvSafe, PatchBeginning, PatchStep, PTL
  DEF PullSpec, PatchSpec
=============================================================================
