------------------------------ MODULE RunTurns ------------------------------
(***************************************************************************)
(* One run's Durable Object (run/agent.ts): the turns it serves, the        *)
(* steers a human types into it, what a turn may spend, how it ends, and    *)
(* how its status reaches the D1 row other parts read.                      *)
(*                                                                         *)
(* A turn is admitted once per idempotency key and served one at a time     *)
(* (Think's submission queue).  Between two of its steps anything else may  *)
(* run in the object: a steer, a decision, an expiry alarm, a projection.   *)
(* The life of a card is in Approvals; here a card is only what parks the   *)
(* run and what unparks it.                                                *)
(***************************************************************************)
EXTENDS Naturals, Sequences, FiniteSets

CONSTANTS
  Messages,      \* customer messages that triage submits as turns
  Steers,        \* request ids of steers from a browser
  Cards,         \* approval cards the run may open; each resolves in one turn
  None,
  Inputs,        \* bound: the sets of inputs that may come in one behaviour
  Ceiling,       \* RUN_SPEND_CEILING_NANO_USD; 0 is unbounded
  Estimate,      \* worstCaseStepNanoUsd of the next step
  StepCost,   \* what a step costs
  MaxSteps,      \* MAX_STEPS_PER_TURN
  MaxDeliveries, \* bound: deliveries of one message
  MaxSends,      \* bound: sends of one steer
  MaxLag,        \* bound: projections that wait
  MaxFailures    \* bound: evictions, and failures of D1

Turns == Messages \cup Steers \cup Cards

ASSUME TurnsAssumption ==
  /\ None \notin Turns
  /\ Messages \cap Steers = {} /\ Messages \cap Cards = {} /\ Steers \cap Cards = {}
ASSUME BoundsAssumption ==
  /\ Inputs \subseteq SUBSET (Messages \cup Steers \cup Cards)
  /\ Ceiling \in Nat /\ Estimate \in Nat
  /\ StepCost \in Nat /\ MaxSteps \in Nat \ {0}
  /\ MaxDeliveries \in Nat /\ MaxSends \in Nat /\ MaxLag \in Nat
  /\ MaxFailures \in Nat

VARIABLES
  \* the object's SQLite
  status,     \* RunAgentState.status
  parked,     \* RunAgentState.openApprovalId
  turnId,     \* RunAgentState.turnId
  revision,   \* RunAgentState.inputRevision
  queue,      \* admitted submissions that have not begun
  admitted,   \* idempotency keys the submission queue has seen
  session,    \* ids of the user messages in the session tree
  pending,    \* the pending_steers table
  scheduled,  \* steers with a startSteerTurn alarm
  projections,\* the in-object queue of D1 projections
  \* the object's memory
  turn,       \* the turn being served
  summarised, \* #summaryProjected
  expiring,   \* the card whose expiry alarm is at work
  alarmed,    \* steers whose startSteerTurn alarm is at work
  \* D1
  row,        \* runs.status
  summary,    \* runs.summary: the turn whose question it is
  billed,     \* sum of agent_model_calls.cost_nano_usd
  episodes,   \* turns with a row in the memory outbox
  card,       \* approvals.decision of each card
  \* calls into the object that are between noteInput and runTurn
  submitting,
  \* history and bounds
  inputs, sends, begun, first, served, paid, outages, evictions

durable == <<status, parked, turnId, revision, queue, admitted, session, pending,
             scheduled, projections>>
memory == <<turn, summarised, expiring, alarmed>>
d1 == <<row, summary, billed, episodes, card>>
history == <<inputs, sends, begun, first, served, paid, outages, evictions>>
vars == <<durable, memory, d1, submitting, history>>

Statuses == {"live", "awaiting_approval", "idle", "done", "failed"}
PCs == {"none", "before", "model", "tool", "respond", "finish", "recover"}

NoTurn == [id |-> None, rev |-> 0, pc |-> "none", spent |-> 0, steps |-> 0,
           refused |-> FALSE, exhausted |-> FALSE, end |-> "none"]
FreshTurn(x) == [NoTurn EXCEPT !.id = x.id, !.rev = x.rev, !.pc = "before"]

\* One call into D1, or one projection with all its attempts, fails.
Outage == evictions + outages < MaxFailures /\ outages' = outages + 1

-----------------------------------------------------------------------------
(* Status and its projection.                                              *)

\* TRANSITIONS
Transitions == {
  <<"live", "awaiting_approval">>, <<"live", "idle">>, <<"live", "done">>, <<"live", "failed">>,
  <<"awaiting_approval", "live">>, <<"awaiting_approval", "idle">>,
  <<"awaiting_approval", "done">>, <<"awaiting_approval", "failed">>,
  <<"idle", "live">>, <<"idle", "done">>, <<"idle", "failed">>,
  <<"done", "live">>, <<"failed", "live">>}

\* Fault: a run that failed may not come back.
LegalUnlessFailed(from, to) == <<from, to>> \in Transitions \ {<<"failed", "live">>}

\* evaluateTransition, for two different statuses
Legal(from, to) == <<from, to>> \in Transitions

StatusProjection(to) == [kind |-> "status", value |-> to]

\* setStatus: durable state and a queued projection, in one write.
SetStatus(to) ==
  IF status = to THEN UNCHANGED <<status, projections>>
  ELSE /\ Len(projections) < MaxLag
       /\ status' = to
       /\ projections' = Append(projections, StatusProjection(to))

\* projectStatus and casRunStatus: this queue is the only writer of runs.status,
\* so the read, the verdict and the compare-and-set see one row.
ProjectStatus ==
  /\ projections # <<>> /\ Head(projections).kind = "status"
  /\ row' = IF Legal(row, Head(projections).value) THEN Head(projections).value ELSE row
  /\ projections' = Tail(projections)
  /\ UNCHANGED <<status, parked, turnId, revision, queue, admitted, session, pending, scheduled,
                 memory, summary, billed, episodes, card, submitting, history>>

\* projectSummary and setRunSummaryIfAbsent
SetSummaryIfAbsent(text) == summary' = IF summary = None THEN text ELSE summary

\* applySummaryProjection
ProjectSummary ==
  /\ projections # <<>> /\ Head(projections).kind = "summary"
  /\ SetSummaryIfAbsent(Head(projections).value)
  /\ projections' = Tail(projections)
  /\ UNCHANGED <<status, parked, turnId, revision, queue, admitted, session, pending, scheduled,
                 memory, row, billed, episodes, card, submitting, history>>

\* The five attempts of a queued projection all failed: it is gone.
DropProjection ==
  /\ projections # <<>>
  /\ Outage
  /\ projections' = Tail(projections)
  /\ UNCHANGED <<status, parked, turnId, revision, queue, admitted, session, pending, scheduled,
                 memory, d1, submitting, sends, begun, first, served, paid, evictions, inputs>>

-----------------------------------------------------------------------------
(* Input.                                                                  *)

\* noteInput; the call goes on to runTurn with that revision.
Note(id) ==
  /\ revision' = revision + 1
  /\ submitting' = submitting \cup {[id |-> id, rev |-> revision + 1]}

Sent(x, bound) ==
  /\ x \in inputs /\ sends[x] < bound
  /\ sends' = [sends EXCEPT ![x] = @ + 1]
  /\ UNCHANGED <<begun, first, served, paid, outages, evictions, inputs>>

\* submitTurn for a wake, a follow-up in an owned thread, or the first message of
\* a chat; the queue or the client may send it again.
Deliver(m) ==
  /\ Sent(m, MaxDeliveries)
  /\ Note(m)
  /\ UNCHANGED <<status, parked, turnId, queue, admitted, session, pending, scheduled,
                 projections, memory, d1>>

\* #alreadySteered
AlreadySteered(s) == s \in session \/ s \in pending

\* steer: stored beside a running or parked run, else an alarm starts a turn.
Steer(s) ==
  /\ Sent(s, MaxSends)
  /\ \/ /\ AlreadySteered(s)
        /\ UNCHANGED <<pending, scheduled>>
     \/ /\ ~AlreadySteered(s)
        /\ parked # None \/ status = "live"
        /\ pending' = pending \cup {s}
        /\ UNCHANGED scheduled
     \/ /\ ~AlreadySteered(s)
        /\ parked = None /\ status # "live"
        /\ scheduled' = scheduled \cup {s}
        /\ UNCHANGED pending
  /\ UNCHANGED <<status, parked, turnId, revision, queue, admitted, session, projections,
                 memory, d1, submitting>>

\* startSteerTurn, run by an alarm.
StartSteerTurn(s) ==
  /\ s \in scheduled \ alarmed
  /\ alarmed' = alarmed \cup {s}
  /\ Note(s)
  /\ UNCHANGED <<status, parked, turnId, queue, admitted, session, pending, scheduled,
                 projections, turn, summarised, expiring, d1, history>>

\* The callback returned: its schedule is deleted.  An eviction before this runs
\* the callback again.
SteerAlarmReturns(s) ==
  /\ s \in alarmed /\ \A x \in submitting : x.id # s
  /\ alarmed' = alarmed \ {s}
  /\ scheduled' = scheduled \ {s}
  /\ UNCHANGED <<status, parked, turnId, revision, queue, admitted, session, pending,
                 projections, turn, summarised, expiring, d1, submitting, history>>

\* Fault: the submission carries no idempotency key.
AdmitAgain(x) == queue' = Append(queue, x)

\* The submission queue refuses a key it has seen.
Admit(x) == queue' = IF x.id \in admitted THEN queue ELSE Append(queue, x)

\* runTurn in mode "submit"
Submit(x) ==
  /\ x \in submitting
  /\ submitting' = submitting \ {x}
  /\ Admit(x)
  /\ admitted' = admitted \cup {x.id}
  /\ UNCHANGED <<status, parked, turnId, revision, session, pending, scheduled, projections,
                 memory, d1, history>>

-----------------------------------------------------------------------------
(* A turn.                                                                 *)

\* #queueSummaryProjection: at most once in the life of an instance.
QueueSummary(id) ==
  /\ Len(projections) < MaxLag
  /\ summarised' = TRUE
  /\ projections' = IF summarised THEN projections
                    ELSE Append(projections, [kind |-> "summary", value |-> id])

\* Fault: a turn keeps the id that is set.
AdoptIfUnset(id) == turnId' = IF turnId = None THEN id ELSE turnId

\* #adoptTurnId; a turn that recovery gave up has left its id behind.
AdoptTurnId(id) == turnId' = id

\* beforeTurn: adopts the turn's id and starts its record.
BeginTurn ==
  /\ turn.pc = "none" /\ queue # <<>>
  /\ LET x == Head(queue) IN
     /\ turn' = FreshTurn(x)
     /\ AdoptTurnId(x.id)
     /\ session' = session \cup {x.id}
     /\ first' = IF first = None THEN x.id ELSE first
     /\ begun' = [begun EXCEPT ![x.id] = @ + 1]
     /\ QueueSummary(x.id)
  /\ queue' = Tail(queue)
  /\ paid' = 0
  /\ UNCHANGED <<status, parked, revision, admitted, pending, scheduled, expiring, alarmed, d1,
                 submitting, sends, served, outages, evictions, inputs>>

\* spendDecision
Affordable(spent) == Ceiling = 0 \/ spent + Estimate <= Ceiling

\* beforeStep: splices the steers unless the run is parked (#spliceSteers), and
\* takes the tools away when the next step could cross the ceiling.
BeforeStep ==
  /\ turn.pc = "before"
  /\ IF parked = None
     THEN /\ pending' = {}
          /\ begun' = [x \in Turns |-> begun[x] + (IF x \in pending THEN 1 ELSE 0)]
     ELSE UNCHANGED <<pending, begun>>
  /\ turn' = [turn EXCEPT !.pc = "model", !.exhausted = @ \/ ~Affordable(turn.spent)]
  /\ UNCHANGED <<status, parked, turnId, revision, queue, admitted, session, scheduled,
                 projections, summarised, expiring, alarmed, d1, submitting, sends, first,
                 served, paid, outages, evictions, inputs>>

\* beforeToolCall refuses a run that is parked or a turn that is superseded.
Refuses == parked # None \/ turn.rev < revision

\* The model calls run_code and is not refused.
RunProgram ==
  /\ turn.pc = "model" /\ ~turn.exhausted
  /\ ~Refuses
  /\ turn' = [turn EXCEPT !.pc = "tool"]
  /\ UNCHANGED <<durable, summarised, expiring, alarmed, d1, submitting, history>>

\* approval.escalate in the program.
Escalate(c) ==
  /\ turn.pc = "tool"
  /\ c \in inputs /\ card[c] = "unused" /\ parked = None
  /\ card' = [card EXCEPT ![c] = "pending"]
  /\ parked' = c
  /\ UNCHANGED <<status, turnId, revision, queue, admitted, session, pending, scheduled,
                 projections, memory, row, summary, billed, episodes, submitting, history>>

\* spendStopWhen
Stops(spent) == Ceiling > 0 /\ spent >= Ceiling

\* #recordStepUsage: a failure never reaches the loop.
RecordUsage(cost) ==
  \/ billed' = billed + cost /\ UNCHANGED outages
  \/ Outage /\ UNCHANGED billed

\* onStepEnd.  A step called a tool (one that ran, or one that was refused), or
\* wrote its answer, or was refused by the provider, which costs nothing.  The
\* loop goes on after a tool call, unless the turn stops or has had its steps.
StepEnd(kind) ==
  /\ kind = "tool" => \/ turn.pc = "tool"
                      \/ turn.pc = "model" /\ ~turn.exhausted /\ Refuses
  /\ kind # "tool" => turn.pc = "model"
  /\ LET cost == IF kind = "refused" THEN 0 ELSE StepCost
         spent == turn.spent + cost
         goesOn == kind = "tool" /\ ~Stops(spent) /\ turn.steps + 1 < MaxSteps IN
     /\ turn' = [turn EXCEPT !.spent = spent, !.steps = @ + 1,
                          !.refused = @ \/ kind = "refused",
                          !.pc = IF goesOn THEN "before" ELSE "respond",
                          !.end = IF goesOn THEN @ ELSE "completed"]
     /\ RecordUsage(cost)
     /\ paid' = paid + cost
  /\ SetStatus("live")
  /\ UNCHANGED <<parked, turnId, revision, queue, admitted, session, pending, scheduled,
                 summarised, expiring, alarmed, row, summary, episodes, card, submitting,
                 sends, begun, first, served, evictions, inputs>>

\* The provider, the scope or visible reasoning ends the turn as an error; or
\* cancel aborts it.
TurnStops ==
  /\ turn.pc \in {"before", "model", "tool"}
  /\ turn' = [turn EXCEPT !.pc = "respond", !.end = "stopped"]
  /\ UNCHANGED <<durable, summarised, expiring, alarmed, d1, submitting, history>>

\* What the run becomes, computed before onChatResponse awaits anything.
Terminal ==
  IF turn.end # "completed" \/ turn.refused THEN "failed"
  ELSE IF parked # None THEN "awaiting_approval" ELSE "idle"

\* onChatResponse computes what the run becomes, and #rememberTurn writes one outbox
\* row per turn id; its failure is only logged.
Respond ==
  /\ turn.pc = "respond"
  /\ turn' = [turn EXCEPT !.pc = "finish", !.end = Terminal]
  /\ \/ episodes' = episodes \cup {turnId} /\ UNCHANGED outages
     \/ Outage /\ UNCHANGED episodes
  /\ UNCHANGED <<durable, summarised, expiring, alarmed, row, summary, billed, card, submitting,
                 sends, begun, first, served, paid, evictions, inputs>>

\* The rest of onChatResponse: the turn's id is reset, then the status.
Finish ==
  /\ turn.pc = "finish"
  /\ SetStatus(turn.end)
  /\ turnId' = None
  /\ served' = served \cup {turn.id}
  /\ turn' = NoTurn
  /\ UNCHANGED <<parked, revision, queue, admitted, session, pending, scheduled, summarised,
                 expiring, alarmed, d1, submitting, sends, begun, first, paid, outages, evictions, inputs>>

-----------------------------------------------------------------------------
(* Parking.                                                                *)

\* A human decides (Approvals models how).
Decide(c) ==
  /\ card[c] = "pending"
  /\ card' = [card EXCEPT ![c] = "decided"]
  /\ UNCHANGED <<durable, memory, row, summary, billed, episodes, submitting, history>>

\* notify: unpark the run and note the input of the resolution turn; the sweep
\* repeats it until the turn is admitted.
Resolve(c) ==
  /\ card[c] = "decided" /\ c \notin admitted
  /\ \A x \in submitting : x.id # c
  /\ parked' = None
  /\ Note(c)
  /\ UNCHANGED <<status, turnId, queue, admitted, session, pending, scheduled, projections,
                 memory, d1, history>>

\* approvalExpired: withdraw unparks the run before it asks D1.
ExpiryFires(c) ==
  /\ parked = c /\ expiring = None
  /\ expiring' = c
  /\ parked' = None
  /\ UNCHANGED <<status, turnId, revision, queue, admitted, session, pending, scheduled,
                 projections, turn, summarised, alarmed, d1, submitting, history>>

\* The withdrawal wins only against a pending card; then the run fails.
ExpiryEnds ==
  /\ expiring # None
  /\ expiring' = None
  /\ \/ /\ card[expiring] = "pending"
        /\ card' = [card EXCEPT ![expiring] = "withdrawn"]
        /\ SetStatus("failed")
     \/ /\ card[expiring] # "pending"
        /\ UNCHANGED <<card, status, projections>>
  /\ UNCHANGED <<parked, turnId, revision, queue, admitted, session, pending, scheduled, turn,
                 summarised, alarmed, row, summary, billed, episodes, submitting, history>>

-----------------------------------------------------------------------------
(* Eviction and recovery.                                                  *)

\* Fault: an interrupted turn is not recovered.
Forgotten == NoTurn

\* chatRecovery is on: the fiber of an interrupted turn outlives the object.
Interrupted == IF turn.pc = "none" THEN turn ELSE [turn EXCEPT !.pc = "recover"]

\* Calls into the object die with it.  An expiry that had unparked the run finds
\* nothing open when its alarm runs again.
Evict ==
  /\ evictions + outages < MaxFailures /\ evictions' = evictions + 1
  /\ turn' = Interrupted
  /\ summarised' = FALSE
  /\ expiring' = None
  /\ alarmed' = {}
  /\ submitting' = {}
  /\ UNCHANGED <<durable, d1, sends, begun, first, served, paid, outages, inputs>>

\* Fault: recovery does not ask what the run has cost.
AlwaysRecovers == TRUE

\* #underSpendCeiling: the bill of the run, not of the turn.
UnderSpendCeiling == Ceiling = 0 \/ billed < Ceiling

\* chatRecovery: the turn starts over with the revision it was given; a bill that
\* cannot be read stops nothing.
Recover ==
  /\ turn.pc = "recover"
  /\ \/ UnderSpendCeiling /\ UNCHANGED outages
     \/ Outage
  /\ turn' = FreshTurn(turn)
  /\ UNCHANGED <<durable, summarised, expiring, alarmed, d1, submitting, sends, begun, first,
                 served, paid, evictions, inputs>>

\* onExhausted: out of money or of attempts.
Exhausted ==
  /\ turn.pc = "recover"
  /\ SetStatus("failed")
  /\ served' = served \cup {turn.id}
  /\ turn' = NoTurn
  /\ UNCHANGED <<parked, turnId, revision, queue, admitted, session, pending, scheduled,
                 summarised, expiring, alarmed, d1, submitting, sends, begun, first, paid,
                 outages, evictions, inputs>>

-----------------------------------------------------------------------------
(* Specification.                                                          *)

Init ==
  /\ status = "idle" /\ parked = None /\ turnId = None /\ revision = 0
  /\ queue = <<>> /\ admitted = {} /\ session = {} /\ pending = {} /\ scheduled = {}
  /\ projections = <<>>
  /\ turn = NoTurn /\ summarised = FALSE /\ expiring = None /\ alarmed = {}
  /\ row = "idle" /\ summary = None /\ billed = 0 /\ episodes = {}
  /\ card = [c \in Cards |-> "unused"]
  /\ submitting = {}
  /\ sends = [x \in Messages \cup Steers |-> 0] /\ begun = [x \in Turns |-> 0]
  /\ inputs \in Inputs
  /\ first = None /\ served = {} /\ paid = 0 /\ outages = 0 /\ evictions = 0

Kinds == {"tool", "answer", "refused"}

\* What the turn and the recovery of it do.
TurnStep ==
  \/ BeginTurn \/ BeforeStep \/ RunProgram
  \/ \E kind \in Kinds : StepEnd(kind)
  \/ Respond \/ Finish
  \/ Recover \/ Exhausted

Projection == ProjectStatus \/ ProjectSummary \/ DropProjection

Next ==
  \/ Projection
  \/ \E m \in Messages : Deliver(m)
  \/ \E s \in Steers : Steer(s) \/ StartSteerTurn(s) \/ SteerAlarmReturns(s)
  \/ \E x \in submitting : Submit(x)
  \/ TurnStep
  \/ \E c \in Cards : Escalate(c) \/ Decide(c) \/ Resolve(c) \/ ExpiryFires(c)
  \/ TurnStops
  \/ ExpiryEnds
  \/ Evict

Spec == Init /\ [][Next]_vars

\* Turns, queued projections and alarms go on when the object is up; nobody has to
\* write, steer, decide, escalate or stop.
Fairness ==
  /\ WF_vars(TurnStep) /\ WF_vars(Projection) /\ WF_vars(ExpiryEnds)
  /\ \A s \in Steers : WF_vars(StartSteerTurn(s)) /\ WF_vars(SteerAlarmReturns(s))
  /\ \A id \in Turns : WF_vars(\E x \in submitting : x.id = id /\ Submit(x))

FairSpec == Spec /\ Fairness

-----------------------------------------------------------------------------
(* Properties.                                                             *)

\* The types of the variables.
TypeOK ==
  /\ status \in Statuses /\ row \in Statuses
  /\ parked \in Cards \cup {None} /\ expiring \in Cards \cup {None}
  /\ turnId \in Turns \cup {None} /\ summary \in Turns \cup {None} /\ first \in Turns \cup {None}
  /\ revision \in Nat /\ billed \in Nat /\ paid \in Nat
  /\ queue \in Seq([id : Turns, rev : Nat]) /\ submitting \subseteq [id : Turns, rev : Nat]
  /\ admitted \subseteq Turns /\ session \subseteq Turns /\ served \subseteq Turns
  /\ pending \subseteq Steers /\ scheduled \subseteq Steers /\ alarmed \subseteq Steers
  /\ projections \in Seq([kind : {"status", "summary"}, value : Statuses \cup Turns])
  /\ turn \in [id : Turns \cup {None}, rev : Nat, pc : PCs, spent : Nat, steps : Nat,
               refused : BOOLEAN, exhausted : BOOLEAN,
               end : Statuses \cup {"none", "completed", "stopped"}]
  /\ summarised \in BOOLEAN
  /\ episodes \subseteq Turns \cup {None}
  /\ card \in [Cards -> {"unused", "pending", "decided", "withdrawn"}]
  /\ sends \in [Messages \cup Steers -> Nat] /\ begun \in [Turns -> Nat]
  /\ outages \in Nat /\ evictions \in Nat /\ inputs \in Inputs

\* However often the queue redelivers it, an alarm runs again or the sweep repeats
\* it, an input reaches the model once; a steer, if it was sent once.
InputShownOnce ==
  \A x \in Turns : (x \in Steers => sends[x] < 2) => begun[x] <= 1

\* Without an outage of D1, once its queue is empty the row of the run agrees with
\* the object.  The one exception is an expiry that failed the run between the last
\* step of a turn and its end: the object goes on to idle (or to awaiting_approval),
\* which the row, failed, may not follow.
RowAgrees ==
  outages = 0 /\ projections = <<>> =>
    \/ row = status
    \/ /\ row = "failed" /\ status \in {"idle", "awaiting_approval"}
       /\ \E c \in Cards : card[c] = "withdrawn"

\* One attempt at a turn pays at most one step past the ceiling; and as recovery
\* asks for the bill of the run, all attempts at it together stay below one more
\* ceiling, unless bills were not recorded or not read.
TurnSpendBounded ==
  Ceiling > 0 =>
    /\ turn.spent < Ceiling + StepCost
    /\ outages = 0 => paid < 2 * Ceiling + StepCost - 1

\* The run's summary is the question of its first turn, whichever instance of the
\* object projects it, unless that projection was lost.
SummaryIsOpening == outages = 0 => summary \in {None, first}

\* What D1 shows of the run is right, and every variable has its type.
RowIsRight == TypeOK /\ RowAgrees /\ SummaryIsOpening

\* What a turn did is remembered under its own id, even after a turn that recovery
\* gave up without resetting its id.
EpisodeOfEachTurn == turn.pc = "finish" /\ outages = 0 => turn.id \in episodes

\* A turn that was admitted ends, whatever evictions, expiries and stops do to it.
AdmittedIsServed == \A x \in Turns : x \in admitted ~> x \in served
=============================================================================
