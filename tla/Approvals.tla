------------------------------ MODULE Approvals ------------------------------
(***************************************************************************)
(* One agent run and the human approvals it raises.                        *)
(*                                                                         *)
(* Three kinds of actor share the D1 row of a card and the run's Durable   *)
(* Object (RunAgent):                                                      *)
(*   - the model's program inside a turn, which escalates and withdraws    *)
(*     through capability calls (Calls);                                   *)
(*   - Worker invocations (Workers): a fire-fighter's PATCH, a tick of the *)
(*     cron sweep, and a delivery of a wake from the triage queue;         *)
(*   - the run's own expiry alarm of each card.                            *)
(* Every D1 statement, RPC into the Durable Object and Slack request is a  *)
(* step of its own, and an invocation may die between any two of them.     *)
(* The statements of other runs are keyed by other ids, so one run is      *)
(* enough.  The nudge DM, the status projection and steering are separate. *)
(***************************************************************************)
EXTENDS Naturals, FiniteSets

CONSTANTS
  Cards,        \* ids of the approvals the run may raise
  Wakes,        \* idempotency keys of the turns new Slack messages start
  Workers,      \* Worker invocations that may be in flight at once
  Calls,        \* capability calls one program may have in flight at once
  None,         \* null
  MaxFailures   \* bound: crashes and failed calls in one behaviour

ASSUME IdsAssumption ==
  /\ Cards \cap Wakes = {} /\ Cards \cap Workers = {} /\ Wakes \cap Workers = {}
  /\ None \notin Cards \cup Wakes \cup Workers
ASSUME FailuresAssumption == MaxFailures \in Nat

VARIABLES
  card,      \* D1: the approvals table
  runShadow, \* D1: runs.shadow
  posts,     \* Slack: messages in the customer's thread, per card
  openId,    \* RunAgent state.openApprovalId
  turn,      \* RunAgent: what became of each submitted turn
  current,   \* holders of the newest inputRevision: turns and invocations
  program,   \* RunAgent: the run_code program now executing, with the scope's shadow flag
  call,      \* the program's capability calls in flight
  expiry,    \* RunAgent: the approvalExpired schedule of each card
  job,       \* what each Worker invocation is doing
  failures   \* crashes and failed calls so far

d1 == <<card, runShadow>>
agent == <<openId, turn, current, program, call, expiry>>
vars == <<d1, posts, agent, job, failures>>

Turns == Cards \cup Wakes

-----------------------------------------------------------------------------
(* The approvals table.                                                    *)

Decided == {"approved", "edited", "rejected"}
Sendable == {"approved", "edited"}
Decisions == Decided \cup {"absent", "pending", "withdrawn"}
Settled == {"sent", "blocked", "suppressed", "in_doubt"}
Deliveries == Settled \cup {"none", "sending"}
Freeing == {"sent", "blocked", "suppressed"}

NoRow == [decision |-> "absent", delivery |-> "none", shadow |-> FALSE, marked |-> FALSE]

\* idx_approvals_one_open: the rows that hold the run's only slot.
HoldsSlot(c) ==
  \/ card[c].decision = "pending"
  \/ card[c].decision \in Sendable /\ card[c].delivery \notin Freeing

\* The conditional UPDATE behind every delivery transition.
SetDelivery(c, from, to) ==
  card' = IF card[c].delivery \in from
            THEN [card EXCEPT ![c].delivery = to]
            ELSE card

\* Fault: the UPDATE lacks its WHERE decision = 'pending'.
ConcludeUnchecked(c, decision) ==
  card' = [card EXCEPT ![c].decision = decision]

\* Approve, edit, reject and withdraw are all the same UPDATE from 'pending'.
Conclude(c, decision) ==
  card' = IF card[c].decision = "pending"
            THEN [card EXCEPT ![c].decision = decision]
            ELSE card

\* Fault: the repair sweep looks for sendable decisions only.
UndeliveredSendable(c) == card[c].decision \in Sendable /\ ~card[c].marked

\* listUndeliveredResolutions
Undelivered(c) == card[c].decision \in Decided /\ ~card[c].marked

-----------------------------------------------------------------------------
(* Worker invocations.                                                     *)

IdleJob == [pc |-> "idle", turn |-> None, out |-> "none"]
JobPCs == {"idle", "notify", "claim", "suppress", "doubt", "send", "settle",
           "unpark", "note", "submit", "mark"}
Outcomes == {"sent", "blocked", "in_doubt"}

At(w, pc, t) == job[w].pc = pc /\ job[w].turn = t
Goto(w, pc) == job' = [job EXCEPT ![w].pc = pc]
Start(w, pc, t) == job[w].pc = "idle" /\ job' = [job EXCEPT ![w] = [IdleJob EXCEPT !.pc = pc, !.turn = t]]
Finish(w) == job' = [job EXCEPT ![w] = IdleJob]

\* PATCH /approvals/:id.  The click that loses the race is answered 409.
Decide(w, c, decision) ==
  /\ card[c].decision = "pending"
  /\ Conclude(c, decision)
  /\ Start(w, "notify", c)
  /\ UNCHANGED <<runShadow, posts, agent, failures>>

\* One due row of a cron sweep's page.
Sweep(w, c) ==
  /\ Undelivered(c)
  /\ Start(w, "notify", c)
  /\ UNCHANGED <<d1, posts, agent, failures>>

\* Fault: the card's and the run's shadow flags are not consulted.
ReadCardIgnoringShadow(w, c) ==
  /\ At(w, "notify", c)
  /\ Goto(w, IF card[c].decision = "rejected" THEN "unpark" ELSE "claim")
  /\ UNCHANGED <<d1, posts, agent, failures>>

\* notify reads the run and the card, and chooses how delivery begins.  The
\* decision it was called with came from this row, where it is final.
ReadCard(w, c) ==
  /\ At(w, "notify", c)
  /\ Goto(w, IF card[c].decision = "rejected" THEN "unpark"
             ELSE IF card[c].shadow \/ runShadow THEN "suppress"
             ELSE "claim")
  /\ UNCHANGED <<d1, posts, agent, failures>>

Suppress(w, c) ==
  /\ At(w, "suppress", c)
  /\ SetDelivery(c, {"none", "sending"}, "suppressed")
  /\ Goto(w, "unpark")
  /\ UNCHANGED <<runShadow, posts, agent, failures>>

\* Fault: a row found 'sending' is taken for an interrupted send and retried.
ClaimAgain(w, c) ==
  /\ At(w, "claim", c)
  /\ SetDelivery(c, {"none"}, "sending")
  /\ Goto(w, IF card[c].delivery \in {"none", "sending"} THEN "send" ELSE "doubt")
  /\ UNCHANGED <<runShadow, posts, agent, failures>>

\* none -> sending: the caller whose UPDATE matched is the one that sends.
Claim(w, c) ==
  /\ At(w, "claim", c)
  /\ SetDelivery(c, {"none"}, "sending")
  /\ Goto(w, IF card[c].delivery = "none" THEN "send" ELSE "doubt")
  /\ UNCHANGED <<runShadow, posts, agent, failures>>

\* Fault: the loser of the claim leaves the row to the winner, and resumes the run.
DoubtSkipped(w, c) ==
  /\ At(w, "doubt", c)
  /\ Goto(w, "unpark")
  /\ UNCHANGED <<d1, posts, agent, failures>>

\* Somebody else started the send: sending -> in_doubt, never a second send.
Doubt(w, c) ==
  /\ At(w, "doubt", c)
  /\ SetDelivery(c, {"sending"}, "in_doubt")
  /\ Goto(w, "unpark")
  /\ UNCHANGED <<runShadow, posts, agent, failures>>

\* chat.postMessage: refused or never made (blocked), confirmed (sent), or a
\* timeout, an unreadable answer or a throw (in_doubt) with or without a post.
Send(w, c) ==
  /\ At(w, "send", c)
  /\ \E out \in Outcomes, n \in 0..1 :
       /\ out = "sent" => n = 1
       /\ out = "blocked" => n = 0
       /\ posts' = [posts EXCEPT ![c] = @ + n]
       /\ job' = [job EXCEPT ![w].pc = "settle", ![w].out = out]
  /\ UNCHANGED <<d1, agent, failures>>

\* Fault: an unknown outcome is recorded as a failure to send.
SettleDoubtAsBlocked(w, c) ==
  /\ At(w, "settle", c)
  /\ SetDelivery(c, {"sending"}, IF job[w].out = "sent" THEN "sent" ELSE "blocked")
  /\ Goto(w, "unpark")
  /\ UNCHANGED <<runShadow, posts, agent, failures>>

\* Fault: a throw is recorded as a delivery the table's CHECK does not list.
SettleUnlisted(w, c) ==
  /\ At(w, "settle", c)
  /\ SetDelivery(c, {"sending"}, IF job[w].out = "in_doubt" THEN "failed" ELSE job[w].out)
  /\ Goto(w, "unpark")
  /\ UNCHANGED <<runShadow, posts, agent, failures>>

Settle(w, c) ==
  /\ At(w, "settle", c)
  /\ SetDelivery(c, {"sending"}, job[w].out)
  /\ Goto(w, "unpark")
  /\ UNCHANGED <<runShadow, posts, agent, failures>>

\* Fault: the row is marked as delivered before the turn is submitted.
UnparkThenMark(w, c) ==
  /\ At(w, "unpark", c)
  /\ openId' = None
  /\ Goto(w, "mark")
  /\ UNCHANGED <<d1, posts, turn, current, program, call, expiry, failures>>

\* setOpenApproval(null), whichever card the run is parked on.
Unpark(w, c) ==
  /\ At(w, "unpark", c)
  /\ openId' = None
  /\ Goto(w, "note")
  /\ UNCHANGED <<d1, posts, turn, current, program, call, expiry, failures>>

\* A triage wake, or its redelivery at any later time.  Creating the run under
\* the channel's policy may set runs.shadow, and nothing ever clears it.
Wake(w, k) ==
  /\ Start(w, "note", k)
  /\ \E mustShadow \in BOOLEAN : runShadow' = (runShadow \/ mustShadow)
  /\ UNCHANGED <<card, posts, agent, failures>>

\* noteInput: every older revision is now stale.
NoteInput(w, t) ==
  /\ At(w, "note", t)
  /\ current' = {w}
  /\ Goto(w, "submit")
  /\ UNCHANGED <<d1, posts, openId, turn, program, call, expiry, failures>>

\* runTurn(submit): a key seen before is refused, and the caller carries on.
Submit(w, t) ==
  /\ At(w, "submit", t)
  /\ IF turn[t] = "absent"
       THEN /\ turn' = [turn EXCEPT ![t] = "queued"]
            /\ current' = IF w \in current THEN (current \ {w}) \cup {t} ELSE current
       ELSE /\ current' = current \ {w}
            /\ UNCHANGED turn
  /\ IF t \in Cards THEN Goto(w, "mark") ELSE Finish(w)
  /\ UNCHANGED <<d1, posts, openId, program, call, expiry, failures>>

\* The nudge is rewritten (seconds may pass), then the row leaves the sweep.
Mark(w, c) ==
  /\ At(w, "mark", c)
  /\ card' = [card EXCEPT ![c].marked = TRUE]
  /\ Finish(w)
  /\ UNCHANGED <<runShadow, posts, agent, failures>>

\* The invocation is evicted, or a call of it throws and the handler gives up.
Abandon(w) ==
  /\ failures < MaxFailures
  /\ job[w].pc # "idle"
  /\ failures' = failures + 1
  /\ current' = current \ {w}
  /\ Finish(w)
  /\ UNCHANGED <<d1, posts, openId, turn, program, call, expiry>>

-----------------------------------------------------------------------------
(* The run's turns.  Think runs one submitted turn at a time.              *)

IdleCall == [pc |-> "idle", card |-> None, shadow |-> FALSE]
CallPCs == {"idle", "insert", "park", "arm", "retract"}
AtCall(k, pc, c) == call[k].pc = pc /\ call[k].card = c
ToCall(k, pc) == call' = [call EXCEPT ![k].pc = pc]
StartCall(k, pc, c) ==
  call' = [call EXCEPT ![k] = [pc |-> pc, card |-> c, shadow |-> (program = "shadow")]]
EndCall(k) == call' = [call EXCEPT ![k] = IdleCall]

StartTurn(t) ==
  /\ turn[t] = "queued"
  /\ \A u \in Turns : turn[u] # "running"
  /\ turn' = [turn EXCEPT ![t] = "running"]
  /\ UNCHANGED <<d1, posts, openId, current, program, call, expiry, job, failures>>

Fresh == \E t \in current : t \in Turns /\ turn[t] = "running"

\* beforeToolCall admits run_code: the run is not parked and the turn is not stale.
StartProgram ==
  /\ program = "none"
  /\ openId = None
  /\ Fresh
  /\ program' = IF runShadow THEN "shadow" ELSE "plain"
  /\ UNCHANGED <<d1, posts, openId, turn, current, call, expiry, job, failures>>

\* It returns, throws, or exceeds wallTimeMs: calls it left in flight run on.
EndProgram ==
  /\ program # "none"
  /\ program' = "none"
  /\ UNCHANGED <<d1, posts, openId, turn, current, call, expiry, job, failures>>

EndTurn(t) ==
  /\ turn[t] = "running"
  /\ program = "none"
  /\ turn' = [turn EXCEPT ![t] = "ended"]
  /\ UNCHANGED <<d1, posts, openId, current, program, call, expiry, job, failures>>

\* approval.escalate, up to the INSERT: a fresh id is minted.
Escalate(k, c) ==
  /\ program # "none" /\ Fresh
  /\ call[k].pc = "idle"
  /\ openId = None
  /\ card[c].decision = "absent"
  /\ \A j \in Calls : call[j].card # c
  /\ StartCall(k, "insert", c)
  /\ UNCHANGED <<d1, posts, openId, turn, current, program, expiry, job, failures>>

\* Fault: no unique index, only the pre-check of openApprovalId.
InsertCardUnindexed(k, c) ==
  /\ AtCall(k, "insert", c)
  /\ ToCall(k, "park")
  /\ card' = [card EXCEPT ![c] = [NoRow EXCEPT !.decision = "pending",
                                               !.shadow = call[k].shadow]]
  /\ UNCHANGED <<runShadow, posts, openId, turn, current, program, expiry, job, failures>>

\* Fault: duplicate_open is not checked before the run parks.
InsertCardUnanswered(k, c) ==
  /\ AtCall(k, "insert", c)
  /\ ToCall(k, "park")
  /\ card' = IF \E d \in Cards : HoldsSlot(d) THEN card
             ELSE [card EXCEPT ![c] = [NoRow EXCEPT !.decision = "pending",
                                                    !.shadow = call[k].shadow]]
  /\ UNCHANGED <<runShadow, posts, openId, turn, current, program, expiry, job, failures>>

\* The INSERT, which the partial unique index refuses while the slot is held.
InsertCard(k, c) ==
  /\ AtCall(k, "insert", c)
  /\ IF \E d \in Cards : HoldsSlot(d)
       THEN /\ EndCall(k)
            /\ UNCHANGED card
       ELSE /\ ToCall(k, "park")
            /\ card' = [card EXCEPT ![c] = [NoRow EXCEPT !.decision = "pending",
                                                         !.shadow = call[k].shadow]]
  /\ UNCHANGED <<runShadow, posts, openId, turn, current, program, expiry, job, failures>>

Park(k, c) ==
  /\ AtCall(k, "park", c)
  /\ openId' = c
  /\ ToCall(k, "arm")
  /\ UNCHANGED <<d1, posts, turn, current, program, expiry, job, failures>>

\* scheduleExpiry
Arm(k, c) ==
  /\ AtCall(k, "arm", c)
  /\ expiry' = [expiry EXCEPT ![c].pc = "armed"]
  /\ EndCall(k)
  /\ UNCHANGED <<d1, posts, openId, turn, current, program, job, failures>>

\* approval.withdraw, first half: the run is unparked before the row is touched.
Withdraw(k) ==
  /\ program # "none" /\ Fresh
  /\ call[k].pc = "idle"
  /\ openId # None
  /\ StartCall(k, "retract", openId)
  /\ openId' = None
  /\ UNCHANGED <<d1, posts, turn, current, program, expiry, job, failures>>

Retract(k, c) ==
  /\ AtCall(k, "retract", c)
  /\ Conclude(c, "withdrawn")
  /\ EndCall(k)
  /\ UNCHANGED <<runShadow, posts, openId, turn, current, program, expiry, job, failures>>

-----------------------------------------------------------------------------
(* The expiry alarm, and eviction of the Durable Object.                   *)

ExpiryPCs == {"unset", "armed", "scope", "retract", "done"}

\* Fault: only a card nobody decided is expired.
ExpiryFiresIfPending(c) ==
  /\ expiry[c].pc = "armed"
  /\ expiry' = [expiry EXCEPT ![c].pc =
                  IF openId = c /\ card[c].decision = "pending" THEN "scope" ELSE "done"]
  /\ UNCHANGED <<d1, posts, openId, turn, current, program, call, job, failures>>

ExpiryFires(c) ==
  /\ expiry[c].pc = "armed"
  /\ expiry' = [expiry EXCEPT ![c].pc = IF openId = c THEN "scope" ELSE "done"]
  /\ UNCHANGED <<d1, posts, openId, turn, current, program, call, job, failures>>

\* After the run scope is read, withdraw() takes whatever card is open by now.
ExpiryWithdraws(c) ==
  /\ expiry[c].pc = "scope"
  /\ expiry' = [expiry EXCEPT ![c] = IF openId = None
                                       THEN [pc |-> "done", card |-> None]
                                       ELSE [pc |-> "retract", card |-> openId]]
  /\ openId' = None
  /\ UNCHANGED <<d1, posts, turn, current, program, call, job, failures>>

ExpiryRetracts(c) ==
  /\ expiry[c].pc = "retract"
  /\ Conclude(expiry[c].card, "withdrawn")
  /\ expiry' = [expiry EXCEPT ![c] = [pc |-> "done", card |-> None]]
  /\ UNCHANGED <<runShadow, posts, openId, turn, current, program, call, job, failures>>

\* Durable state survives; the turn is recovered and the alarm handler retried.
Evict ==
  /\ failures < MaxFailures
  /\ failures' = failures + 1
  /\ turn' = [t \in Turns |-> IF turn[t] = "running" THEN "queued" ELSE turn[t]]
  /\ program' = "none"
  /\ call' = [k \in Calls |-> IdleCall]
  /\ expiry' = [c \in Cards |-> IF expiry[c].pc \in {"scope", "retract"}
                                  THEN [pc |-> "armed", card |-> None] ELSE expiry[c]]
  /\ UNCHANGED <<d1, posts, openId, current, job>>

-----------------------------------------------------------------------------
Init ==
  /\ card = [c \in Cards |-> NoRow]
  /\ runShadow = FALSE
  /\ posts = [c \in Cards |-> 0]
  /\ openId = None
  /\ turn = [t \in Turns |-> "absent"]
  /\ current = {}
  /\ program = "none"
  /\ call = [k \in Calls |-> IdleCall]
  /\ expiry = [c \in Cards |-> [pc |-> "unset", card |-> None]]
  /\ job = [w \in Workers |-> IdleJob]
  /\ failures = 0

\* One step of an invocation that has begun.
JobStep(w) ==
  \/ \E c \in Cards :
       \/ ReadCard(w, c) \/ Suppress(w, c) \/ Claim(w, c) \/ Doubt(w, c)
       \/ Send(w, c) \/ Settle(w, c) \/ Unpark(w, c) \/ Mark(w, c)
  \/ \E t \in Turns : NoteInput(w, t) \/ Submit(w, t)

WorkerNext(w) ==
  \/ JobStep(w)
  \/ \E c \in Cards : Sweep(w, c) \/ \E d \in Decided : Decide(w, c, d)
  \/ \E k \in Wakes : Wake(w, k)
  \/ Abandon(w)

\* One step of a capability call that has begun.
CallStep(k) ==
  \E c \in Cards : InsertCard(k, c) \/ Park(k, c) \/ Arm(k, c) \/ Retract(k, c)

ProgramNext ==
  \/ StartProgram \/ EndProgram
  \/ \E k \in Calls : CallStep(k) \/ Withdraw(k) \/ \E c \in Cards : Escalate(k, c)

TurnNext == \E t \in Turns : StartTurn(t) \/ EndTurn(t)

ExpiryNext(c) == ExpiryFires(c) \/ ExpiryWithdraws(c) \/ ExpiryRetracts(c)

Next ==
  \/ \E w \in Workers : WorkerNext(w)
  \/ ProgramNext
  \/ TurnNext
  \/ \E c \in Cards : ExpiryNext(c)
  \/ Evict

Spec == Init /\ [][Next]_vars

-----------------------------------------------------------------------------
(* Fairness.  Invocations, calls and alarms that began run on; the cron     *)
(* fires every minute in an isolate of its own, so a due row is swept again *)
(* and again even if the pool is often busy (strong fairness).  Nobody has  *)
(* to click, to write in the thread, or to escalate.                        *)
Fairness ==
  /\ \A w \in Workers : WF_vars(JobStep(w))
  /\ \A c \in Cards : SF_vars(\E w \in Workers : Sweep(w, c))
  /\ \A k \in Calls : WF_vars(CallStep(k))
  /\ WF_vars(EndProgram)
  /\ WF_vars(TurnNext)
  /\ \A c \in Cards : WF_vars(ExpiryNext(c))

FairSpec == Spec /\ Fairness

-----------------------------------------------------------------------------
(* Properties.                                                             *)

Rows == [decision : Decisions, delivery : Deliveries, shadow : BOOLEAN, marked : BOOLEAN]
JobRecords == [pc : JobPCs, turn : Turns \cup {None}, out : Outcomes \cup {"none"}]
CallRecords == [pc : CallPCs, card : Cards \cup {None}, shadow : BOOLEAN]
ExpiryRecords == [pc : ExpiryPCs, card : Cards \cup {None}]

TypeOK ==
  /\ card \in [Cards -> Rows]
  /\ runShadow \in BOOLEAN
  /\ posts \in [Cards -> Nat]
  /\ openId \in Cards \cup {None}
  /\ turn \in [Turns -> {"absent", "queued", "running", "ended"}]
  /\ current \subseteq Turns \cup Workers
  /\ program \in {"none", "plain", "shadow"}
  /\ call \in [Calls -> CallRecords]
  /\ expiry \in [Cards -> ExpiryRecords]
  /\ job \in [Workers -> JobRecords]
  /\ failures \in Nat

\* A run has one unsettled card at most, however its calls race each other,
\* the human and the sweep (idx_approvals_one_open, insertApproval).
OneOpenCard ==
  \A c, d \in Cards : HoldsSlot(c) /\ HoldsSlot(d) => c = d

\* A card's text reaches the customer once at most, and only if a human let it
\* through and the card was not raised in shadow; however many PATCHes and
\* sweeps run deliverApproval and wherever they die.
PostedAtMostOnce ==
  \A c \in Cards :
    /\ posts[c] <= 1
    /\ posts[c] = 1 => card[c].decision \in Sendable /\ ~card[c].shadow

\* What the model and the dashboard are told of a delivery is true: 'sent' was
\* posted; 'blocked' and 'none' were not (settleDelivery).
DeliveryIsTruthful ==
  \A c \in Cards :
    /\ card[c].delivery = "sent" => posts[c] = 1
    /\ card[c].delivery \in {"blocked", "none"} => posts[c] = 0

\* The turn that tells the model of a decision exists only when a human decided
\* and the delivery has an outcome (resolutionTurnContent's unreachable case).
ResolutionAfterOutcome ==
  \A c \in Cards :
    turn[c] # "absent" =>
      \/ card[c].decision = "rejected"
      \/ card[c].decision \in Sendable /\ card[c].delivery \in Settled

\* A row leaves the repair sweep only once its resolution turn was accepted, so
\* no crash can lose a click (markResolutionDelivered after runTurn).
MarkedOnlyIfResumed ==
  \A c \in Cards : card[c].marked => turn[c] # "absent"

\* A run is never parked on a card that was not written: nothing could ever
\* decide it (open: insertApproval before setOpenApproval).
ParkedOnRealCard ==
  openId # None => card[openId].decision # "absent"

\* A verdict, a settled delivery and a delivered mark are final, whichever of
\* the human, the program and the expiry comes second.
VerdictsFinal ==
  [][\A c \in Cards :
       /\ card[c].decision \in Decided \cup {"withdrawn"} =>
            card'[c].decision = card[c].decision
       /\ card[c].delivery \in Settled => card'[c].delivery = card[c].delivery
       /\ card[c].marked => card'[c].marked]_vars

\* A decided card reaches the run and leaves the sweep, whatever dies on the
\* way (invariant 9: a click is never lost).
DecisionReachesRun ==
  \A c \in Cards :
    card[c].decision \in Decided ~> card[c].marked /\ turn[c] # "absent"

\* A run parked on a card whose expiry is scheduled does not wait for ever,
\* even if no human decides (approvalExpired).
ParkingEnds ==
  \A c \in Cards : openId = c /\ expiry[c].pc = "armed" ~> openId # c

-----------------------------------------------------------------------------
(* The abstract specification.  A row's decision is the verdict.           *)
Gate == INSTANCE ApprovalGate WITH
          verdict <- [c \in Cards |-> card[c].decision],
          muted <- [c \in Cards |-> card[c].shadow]

\* The cards, turns and invocations keep the promise of ApprovalGate.
ImplementsGate == Gate!GateSpec

-----------------------------------------------------------------------------
(* What comments of the source say, and the code does not do.              *)

\* A card stops parking its run only when it is decided or withdrawn
\* (beforeToolCall, setOpenApproval).
OnlyItsOwnEndUnparks ==
  [][\A c \in Cards :
       openId = c /\ openId' # c =>
         \/ card[c].decision # "pending"
         \/ \E k \in Calls : call'[k].pc = "retract" /\ call'[k].card = c
         \/ \E d \in Cards : expiry'[d] = [pc |-> "retract", card |-> c]]_vars

\* Once a card's resolution turn exists, the run is not parked on that card
\* (port.open: "which the resolution unparks anyway").
ResolutionUnparks ==
  \A c \in Cards : turn[c] # "absent" => openId # c

\* Only input the run has not seen makes a running turn stale: a replay is a
\* no-op (wakeRun, the notifier's header).
OnlyNewInputSupersedes ==
  [][\A t \in Turns :
       turn[t] = "running" /\ t \in current /\ t \notin current' =>
         \E w \in Workers : w \in current' /\ turn[job[w].turn] = "absent"]_vars
=============================================================================
