------------------------------- MODULE Nudges -------------------------------
(***************************************************************************)
(* notify/nudge.ts: the one DM that pages an engineer for a waiting card, and *)
(* its rewriting when the card is settled.  The run's alarm and the cron's   *)
(* sweeps send it; a sweep may take longer than the minute to the next.      *)
(* The deployment is configured to reach somebody.                           *)
(***************************************************************************)
EXTENDS Integers, Sequences

CONSTANTS
  Alarm,        \* the run's nudgeApproval
  Sweeps,       \* invocations of sweepNudges
  MaxFailures,  \* bound: failing or lost calls and dying invocations
  None

ASSUME NoneAssumption == None \notin Nat

VARIABLES
  row,       \* D1: is the card pending, nudged_at, and nudge_ts: which message
  armed,     \* the scheduled alarm is still to run
  sender,    \* [Senders -> ..]: what each sendNudge is doing
  messages,  \* Slack: the posts asked for: [landed, confirmed, button]
  editor,    \* who settled the card, up to updateNudge: [pc, ts]
  failures,
  blurred,   \* history: something the rewriting cannot be expected to survive
  lost       \* history: a claim may have lost its holder

nudgeVars == <<row, armed, sender, messages, editor, failures, blurred, lost>>

Senders == Sweeps \cup {Alarm}

Idle == [pc |-> "idle", message |-> None]
At(pc) == [Idle EXCEPT !.pc = pc]

Becomes(s, state) == sender' = [sender EXCEPT ![s] = state]
Fail == failures < MaxFailures /\ failures' = failures + 1

\* Agent.schedule: an alarm whose handler returned does not run again.
Returns(s) ==
  /\ Becomes(s, Idle)
  /\ armed' = (armed /\ s # Alarm)

-----------------------------------------------------------------------------
(* The callers of sendNudge.                                               *)

\* Fault: whatever has no nudge is nudged.
PendingIgnored == TRUE

Pending == row.pending

\* nudgeApproval: getApproval, and the card is pending.
AlarmFires ==
  /\ armed /\ sender[Alarm] = Idle
  /\ IF Pending THEN Becomes(Alarm, At("target")) /\ UNCHANGED armed ELSE Returns(Alarm)
  /\ UNCHANGED <<row, messages, editor, failures, blurred, lost>>

\* sweepNudges: the feed of pending cards without a nudge.
Sweep(s) ==
  /\ s \in Sweeps /\ sender[s] = Idle
  /\ Pending /\ ~row.nudged
  /\ Becomes(s, At("target"))
  /\ UNCHANGED <<row, armed, messages, editor, failures, blurred, lost>>

-----------------------------------------------------------------------------
(* sendNudge.                                                              *)

\* resolveTarget; it fails only by throwing, before the claim.
ResolveTarget(s) ==
  /\ sender[s].pc = "target"
  /\ \/ Becomes(s, At("claim")) /\ UNCHANGED <<armed, failures>>
     \/ Returns(s) /\ Fail
  /\ UNCHANGED <<row, messages, editor, blurred, lost>>

Claimable == ~row.nudged

\* claimNudge: UPDATE .. WHERE nudged_at IS NULL; if D1 throws it may have been applied.
ClaimNudge(s) ==
  LET claimed == [row EXCEPT !.nudged = row.nudged \/ Claimable] IN
  /\ sender[s].pc = "claim"
  /\ \/ Claimable /\ row' = claimed /\ Becomes(s, At("open")) /\ UNCHANGED <<armed, failures, lost>>
     \/ ~Claimable /\ Returns(s) /\ UNCHANGED <<row, failures, lost>>
     \/ Fail /\ Returns(s) /\ row' \in {row, claimed} /\ lost' = (lost \/ row' # row)
  /\ UNCHANGED <<messages, editor, blurred>>

\* conversations.open, and the channel's policy.
OpenConversation(s) ==
  /\ sender[s].pc = "open"
  /\ \/ Becomes(s, At("post")) /\ UNCHANGED failures
     \/ Becomes(s, At("release")) /\ Fail
  /\ UNCHANGED <<row, armed, messages, editor, blurred, lost>>

\* chat.postMessage: posted, refused, or no answer, and it lands or not.
PostMessage(s) ==
  /\ sender[s].pc = "post"
  /\ \/ /\ messages' = Append(messages, [landed |-> TRUE, confirmed |-> TRUE, button |-> TRUE])
        /\ Becomes(s, [pc |-> "record", message |-> Len(messages) + 1])
        /\ UNCHANGED <<failures, blurred>>
     \/ Fail /\ Becomes(s, At("release")) /\ UNCHANGED <<messages, blurred>>
     \/ /\ Fail /\ Becomes(s, At("release")) /\ blurred' = TRUE
        /\ \E landed \in BOOLEAN :
             messages' = Append(messages, [landed |-> landed, confirmed |-> FALSE, button |-> TRUE])
  /\ UNCHANGED <<row, armed, editor, lost>>

\* Fault: a record that fails is a send that failed.
ReleaseUnrecorded(s) == Becomes(s, At("release")) /\ UNCHANGED armed

\* A failed recordNudgeMessage is swallowed; the claim stands.
KeepUnrecorded(s) == Returns(s)

RecordNudgeMessage(s) ==
  /\ sender[s].pc = "record"
  /\ LET recorded == [row EXCEPT !.ts = sender[s].message] IN
     \/ row' = recorded /\ Returns(s) /\ UNCHANGED <<failures, blurred>>
     \/ row' \in {row, recorded} /\ KeepUnrecorded(s) /\ Fail /\ blurred' = TRUE
  /\ UNCHANGED <<messages, editor, lost>>

\* Fault: the slot is not handed back.
NotReleased == row

Released == [row EXCEPT !.nudged = FALSE]

\* releaseNudge; its failure is swallowed too.
Release(s) ==
  /\ sender[s].pc = "release"
  /\ \/ row' = Released /\ UNCHANGED <<failures, lost>>
     \/ UNCHANGED row /\ Fail /\ lost' = TRUE
  /\ Returns(s)
  /\ UNCHANGED <<messages, editor, blurred>>

\* The isolate dies; an alarm whose handler died runs again.
Dies(s) ==
  /\ sender[s] # Idle /\ Fail
  /\ Becomes(s, Idle)
  /\ blurred' = (blurred \/ sender[s].pc = "record")
  /\ lost' = (lost \/ sender[s].pc \in {"open", "post", "record", "release"})
  /\ UNCHANGED <<row, armed, messages, editor>>

-----------------------------------------------------------------------------
(* The end of the card.                                                    *)

\* A decision or a withdrawal; a send at work may come too late to be rewritten.
SettleCard ==
  /\ row.pending
  /\ row' = [row EXCEPT !.pending = FALSE]
  /\ blurred' = (blurred \/ \E s \in Senders : sender[s] # Idle)
  /\ UNCHANGED <<armed, sender, messages, editor, failures, lost>>

\* notify and withdraw read the row after the decision.
ReadSettled ==
  /\ ~row.pending /\ editor.pc = "none"
  /\ editor' = [pc |-> "update", ts |-> row.ts]
  /\ UNCHANGED <<row, armed, sender, messages, failures, blurred, lost>>

\* chat.update; its failure is swallowed.
UpdateNudge ==
  /\ editor.pc = "update"
  /\ editor' = [editor EXCEPT !.pc = "done"]
  /\ IF editor.ts = None THEN UNCHANGED <<messages, failures, blurred>>
     ELSE \/ /\ messages' = [messages EXCEPT ![editor.ts].button = FALSE]
             /\ UNCHANGED <<failures, blurred>>
          \/ Fail /\ blurred' = TRUE /\ UNCHANGED messages
  /\ UNCHANGED <<row, armed, sender, lost>>

\* notify dies and is swept again, even after the update; nobody repeats a withdrawal.
EditorDies ==
  /\ editor.pc # "none" /\ Fail
  /\ \/ editor' = [pc |-> "none", ts |-> None] /\ UNCHANGED blurred
     \/ editor.pc = "update" /\ editor' = [editor EXCEPT !.pc = "done"] /\ blurred' = TRUE
  /\ UNCHANGED <<row, armed, sender, messages, lost>>

-----------------------------------------------------------------------------
(* Specification.                                                          *)

\* escalate inserts the card, and may die before it schedules the nudge; a human may be
\* faster than either.
NudgeInit ==
  /\ \E pending \in BOOLEAN : row = [pending |-> pending, nudged |-> FALSE, ts |-> None]
  /\ armed \in BOOLEAN
  /\ sender = [s \in Senders |-> Idle]
  /\ messages = <<>> /\ editor = [pc |-> "none", ts |-> None]
  /\ failures = 0 /\ blurred = FALSE /\ lost = FALSE

SenderStep(s) ==
  \/ ResolveTarget(s) \/ ClaimNudge(s) \/ OpenConversation(s) \/ PostMessage(s)
  \/ RecordNudgeMessage(s) \/ Release(s)

NudgeNext ==
  \/ AlarmFires \/ SettleCard \/ ReadSettled \/ UpdateNudge \/ EditorDies
  \/ \E s \in Senders : Sweep(s) \/ SenderStep(s) \/ Dies(s)

\* Invocations at work go on, and the cron sweeps each minute; nobody has to decide.
NudgeFairness ==
  /\ \A s \in Senders : WF_nudgeVars(SenderStep(s))
  /\ WF_nudgeVars(\E s \in Sweeps : Sweep(s))

NudgeSpec == NudgeInit /\ [][NudgeNext]_nudgeVars /\ NudgeFairness

-----------------------------------------------------------------------------
(* Properties.                                                             *)

\* "EXACTLY ONE nudge per approval": after a post Slack confirmed nobody is paged again,
\* whatever fails after it and however alarm and sweeps overlap.
NoPageAfterConfirmed ==
  \A i \in DOMAIN messages : messages[i].confirmed => i = Len(messages)

\* The row names the confirmed message and no other.
RowNamesMessage == row.ts # None => messages[row.ts].confirmed /\ row.nudged

\* "No dead link outlives its card", unless something happened that this cannot survive.
NoDeadLink ==
  editor.pc = "done" /\ ~blurred =>
    \A i \in DOMAIN messages : messages[i].landed => ~messages[i].button

NudgesSafe == NoPageAfterConfirmed /\ RowNamesMessage /\ NoDeadLink

\* "A failed nudge is not a lost approval": a waiting card is asked for in the end, unless
\* its slot was lost: who claimed it died, or could not hand it back.
PagedInTheEnd ==
  <>(~row.pending \/ lost \/ \E i \in DOMAIN messages : messages[i].landed)
=============================================================================
