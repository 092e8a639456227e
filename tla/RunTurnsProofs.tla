---------------------------- MODULE RunTurnsProofs ----------------------------
(***************************************************************************)
(* The safety properties of RunTurns, for any messages, steers and cards,  *)
(* any prices and any bounds.                                              *)
(***************************************************************************)
EXTENDS RunTurns, SequenceTheorems, TLAPS

Projections ==
  [kind : {"status"}, value : Statuses] \cup [kind : {"summary"}, value : Turns]

Submissions == [id : Turns, rev : Nat]

TurnRecords ==
  [id : Turns \cup {None}, rev : Nat, pc : PCs, spent : Nat, steps : Nat,
   refused : BOOLEAN, exhausted : BOOLEAN,
   end : Statuses \cup {"none", "completed", "stopped"}]

\* TypeOK, and what the steps of a turn rely on to keep it: what a queued projection
\* carries is of its kind, and a turn that is about to finish knows its status.
Typed ==
  /\ TypeOK
  /\ projections \in Seq(Projections)
  /\ turn.pc # "none" => turn.id \in Turns
  /\ turn.pc = "finish" => turn.end \in {"failed", "awaiting_approval", "idle"}
  /\ status # "done"

-----------------------------------------------------------------------------
(* Types.                                                                  *)

LEMMA TurnRecordsTyped ==
  /\ NoTurn \in TurnRecords /\ NoTurn.pc = "none"
  /\ \A x : x.id \in Turns /\ x.rev \in Nat =>
       FreshTurn(x) \in TurnRecords /\ FreshTurn(x).id = x.id /\ FreshTurn(x).pc = "before"
BY DEF NoTurn, FreshTurn, TurnRecords, PCs

LEMMA SetStatusTyped ==
  ASSUME Typed, NEW to \in Statuses \ {"done"}, SetStatus(to)
  PROVE  status' \in Statuses \ {"done"} /\ projections' \in Seq(Projections)
<1>1. StatusProjection(to) \in Projections
  BY DEF StatusProjection, Projections
<1>2. CASE status = to
  BY <1>2 DEF SetStatus, Typed, TypeOK
<1>3. CASE status # to
  BY <1>1, <1>3 DEF SetStatus, Typed
<1> QED BY <1>2, <1>3

LEMMA ProjectionsAreTyped ==
  ASSUME projections' \in Seq(Projections)
  PROVE  projections' \in Seq([kind : {"status", "summary"}, value : Statuses \cup Turns])
<1>1. Projections \subseteq [kind : {"status", "summary"}, value : Statuses \cup Turns]
  BY DEF Projections
<1> QED BY <1>1, SeqMonotonic

LEMMA ProjectionKeepsTyped ==
  ASSUME Typed, Projection
  PROVE  Typed'
<1> USE DEF Typed, TypeOK
<1>1. projections # <<>> /\ projections' = Tail(projections)
  BY DEF Projection, ProjectStatus, ProjectSummary, DropProjection
<1>2. projections' \in Seq(Projections) /\ Head(projections) \in Projections
  BY <1>1
<1> USE ProjectionsAreTyped
<1>3. CASE ProjectStatus
  BY <1>1, <1>2, <1>3 DEF ProjectStatus, Legal, Transitions, Statuses, memory, history, Projections
<1>4. CASE ProjectSummary
  <2>1. Head(projections).value \in Turns
    BY <1>2, <1>4 DEF ProjectSummary, Projections
  <2>2. summary' \in Turns \cup {None}
    BY <2>1, <1>4 DEF ProjectSummary, SetSummaryIfAbsent
  <2> QED BY <1>2, <1>4, <2>2 DEF ProjectSummary, memory, history
<1>5. CASE DropProjection
  <2>1. outages' \in Nat
    BY <1>5 DEF DropProjection, Outage
  <2> QED BY <1>2, <1>5, <2>1 DEF DropProjection, memory, d1
<1> QED BY <1>3, <1>4, <1>5 DEF Projection

LEMMA OutageTyped ==
  ASSUME Typed, Outage \/ UNCHANGED outages
  PROVE  outages' \in Nat
BY DEF Typed, TypeOK, Outage

LEMMA NoteTyped ==
  ASSUME Typed, NEW id \in Turns, Note(id)
  PROVE  revision' \in Nat /\ submitting' \subseteq [id : Turns, rev : Nat]
<1>1. revision + 1 \in Nat
  BY DEF Typed, TypeOK
<1> QED BY <1>1 DEF Typed, TypeOK, Note

LEMMA InputKeepsTyped ==
  ASSUME Typed
  PROVE  /\ \A m \in Messages : Deliver(m) => Typed'
         /\ \A s \in Steers : Steer(s) \/ StartSteerTurn(s) \/ SteerAlarmReturns(s) => Typed'
         /\ \A x \in submitting : Submit(x) => Typed'
<1> USE DEF Typed, TypeOK, memory, d1
<1>1. ASSUME NEW m \in Messages, Deliver(m) PROVE Typed'
  <2>1. revision' \in Nat /\ submitting' \subseteq [id : Turns, rev : Nat]
    BY <1>1, NoteTyped DEF Deliver, Turns
  <2>2. sends' \in [Messages \cup Steers -> Nat]
    BY <1>1 DEF Deliver, Sent
  <2> QED BY <1>1, <2>1, <2>2 DEF Deliver, Sent
<1>2. ASSUME NEW s \in Steers, Steer(s) PROVE Typed'
  BY <1>2 DEF Steer, Sent
<1>3. ASSUME NEW s \in Steers, StartSteerTurn(s) PROVE Typed'
  <2>1. revision' \in Nat /\ submitting' \subseteq [id : Turns, rev : Nat]
    BY <1>3, NoteTyped DEF StartSteerTurn, Turns
  <2> QED BY <1>3, <2>1 DEF StartSteerTurn, history
<1>4. ASSUME NEW s \in Steers, SteerAlarmReturns(s) PROVE Typed'
  BY <1>4 DEF SteerAlarmReturns, history
<1>5. ASSUME NEW x \in submitting, Submit(x) PROVE Typed'
  <2>1. x \in Submissions /\ queue \in Seq(Submissions)
    BY DEF Submissions
  <2>2. queue' \in Seq(Submissions)
    BY <1>5, <2>1, AppendProperties DEF Submit, Admit
  <2>3. admitted' \subseteq Turns
    BY <1>5, <2>1 DEF Submit, Submissions
  <2>4. submitting' \subseteq [id : Turns, rev : Nat]
    BY <1>5 DEF Submit
  <2> QED BY <1>5, <2>2, <2>3, <2>4 DEF Submit, Submissions, history
<1> QED BY <1>1, <1>2, <1>3, <1>4, <1>5

LEMMA BeginKeepsTyped ==
  ASSUME Typed, BeginTurn
  PROVE  Typed'
<1> USE DEF Typed, TypeOK
<1> DEFINE x == Head(queue)
<1>1. x \in Submissions /\ queue' = Tail(queue) /\ queue' \in Seq(Submissions)
  <2>1. queue \in Seq(Submissions) /\ queue # <<>> /\ queue' = Tail(queue)
    BY DEF BeginTurn, Submissions
  <2> QED BY <2>1, HeadTailProperties
<1>2. turn' = FreshTurn(x) /\ turn' \in TurnRecords /\ turn'.id \in Turns /\ turn'.pc = "before"
  BY <1>1, TurnRecordsTyped DEF BeginTurn, Submissions
<1>3. projections' \in Seq(Projections)
  <2>1. [kind |-> "summary", value |-> x.id] \in Projections
    BY <1>1 DEF Projections, Submissions
  <2> QED BY <2>1 DEF BeginTurn, QueueSummary
<1>4. begun' \in [Turns -> Nat]
  BY <1>1 DEF BeginTurn, Submissions
<1>5. summarised' = TRUE
  BY DEF BeginTurn, QueueSummary
<1> QED BY <1>1, <1>2, <1>3, <1>4, <1>5, ProjectionsAreTyped
       DEF BeginTurn, AdoptTurnId, Submissions, TurnRecords, d1

LEMMA StepKeepsTyped ==
  ASSUME Typed
  PROVE  /\ BeforeStep \/ RunProgram \/ Respond \/ Finish \/ TurnStops => Typed'
         /\ \A kind \in Kinds : StepEnd(kind) => Typed'
<1> USE DEF Typed, TypeOK
<1>1. ASSUME BeforeStep PROVE Typed'
  <2>1. turn' \in TurnRecords /\ turn'.id = turn.id /\ turn'.pc = "model"
    BY <1>1 DEF BeforeStep, Affordable, TurnRecords, PCs
  <2>2. begun' \in [Turns -> Nat] /\ pending' \subseteq Steers
    <3>1. \A x \in Turns : begun[x] \in Nat /\ begun[x] + 0 \in Nat /\ begun[x] + 1 \in Nat
      OBVIOUS
    <3>2. \/ begun' = [x \in Turns |-> begun[x] + (IF x \in pending THEN 1 ELSE 0)] /\ pending' = {}
          \/ begun' = begun /\ pending' = pending
      BY <1>1 DEF BeforeStep
    <3> QED BY <3>1, <3>2
  <2> QED BY <1>1, <2>1, <2>2 DEF BeforeStep, TurnRecords, d1
<1>2. ASSUME RunProgram PROVE Typed'
  <2>1. turn' \in TurnRecords /\ turn'.id = turn.id /\ turn'.pc = "tool"
    BY <1>2 DEF RunProgram, TurnRecords, PCs
  <2> QED BY <1>2, <2>1 DEF RunProgram, TurnRecords, durable, d1, history
<1>3. ASSUME Respond PROVE Typed'
  <2>1. turn' \in TurnRecords /\ turn'.id = turn.id /\ turn'.pc = "finish"
    BY <1>3 DEF Respond, Terminal, TurnRecords, PCs, Statuses
  <2>2. turn'.end \in {"failed", "awaiting_approval", "idle"}
    BY <1>3 DEF Respond, Terminal, TurnRecords
  <2>3. outages' \in Nat
    BY <1>3, OutageTyped DEF Respond
  <2> QED BY <1>3, <2>1, <2>2, <2>3 DEF Respond, TurnRecords, durable
<1>4. ASSUME Finish PROVE Typed'
  <2>1. status' \in Statuses \ {"done"} /\ projections' \in Seq(Projections)
    BY <1>4, SetStatusTyped DEF Finish, Statuses
  <2>2. turn' \in TurnRecords /\ turn'.pc = "none"
    BY <1>4, TurnRecordsTyped DEF Finish
  <2> QED BY <1>4, <2>1, <2>2, ProjectionsAreTyped DEF Finish, TurnRecords, d1
<1>5. ASSUME TurnStops PROVE Typed'
  <2>1. turn' \in TurnRecords /\ turn'.id = turn.id /\ turn'.pc = "respond"
    BY <1>5 DEF TurnStops, TurnRecords, PCs
  <2> QED BY <1>5, <2>1 DEF TurnStops, TurnRecords, durable, d1, history
<1>6. ASSUME NEW kind \in Kinds, StepEnd(kind) PROVE Typed'
  <2>1. status' \in Statuses \ {"done"} /\ projections' \in Seq(Projections)
    BY <1>6, SetStatusTyped DEF StepEnd, Statuses
  <2> DEFINE cost == IF kind = "refused" THEN 0 ELSE StepCost
             spent == turn.spent + cost
             goesOn == kind = "tool" /\ ~Stops(spent) /\ turn.steps + 1 < MaxSteps
  <2>2. cost \in Nat /\ spent \in Nat
    BY BoundsAssumption
  <2>3. /\ turn' = [turn EXCEPT !.spent = spent, !.steps = @ + 1,
                               !.refused = @ \/ kind = "refused",
                               !.pc = IF goesOn THEN "before" ELSE "respond",
                               !.end = IF goesOn THEN @ ELSE "completed"]
        /\ RecordUsage(cost)
        /\ paid' = paid + cost
    BY <1>6 DEF StepEnd
  <2>4. turn' \in TurnRecords /\ turn'.id = turn.id /\ turn'.pc \in {"before", "respond"}
    <3> HIDE DEF goesOn, spent
    <3> DEFINE pc == IF goesOn THEN "before" ELSE "respond"
               end == IF goesOn THEN turn.end ELSE "completed"
               refused == turn.refused \/ kind = "refused"
    <3>1. /\ pc \in {"before", "respond"} /\ refused \in BOOLEAN /\ turn.steps + 1 \in Nat
          /\ end \in Statuses \cup {"none", "completed", "stopped"}
      OBVIOUS
    <3>2. turn' = [turn EXCEPT !.spent = spent, !.steps = turn.steps + 1, !.refused = refused,
                             !.pc = pc, !.end = end]
      BY <2>3
    <3> HIDE DEF pc, end, refused
    <3> QED BY <2>2, <3>1, <3>2 DEF TurnRecords, PCs
  <2>5. turn.pc # "none"
    BY <1>6 DEF StepEnd, Kinds
  <2>6. billed' \in Nat /\ paid' \in Nat /\ outages' \in Nat
    <3> HIDE DEF cost
    <3>1. billed + cost \in Nat /\ paid + cost \in Nat
      BY <2>2
    <3>2. outages' \in Nat
      BY <2>3, OutageTyped DEF RecordUsage
    <3> QED BY <2>3, <3>1, <3>2 DEF RecordUsage
  <2> QED BY <1>6, <2>1, <2>4, <2>5, <2>6, ProjectionsAreTyped DEF StepEnd, TurnRecords
<1> QED BY <1>1, <1>2, <1>3, <1>4, <1>5, <1>6

LEMMA CardKeepsTyped ==
  ASSUME Typed
  PROVE  /\ \A c \in Cards : Escalate(c) \/ Decide(c) \/ Resolve(c) \/ ExpiryFires(c) => Typed'
         /\ ExpiryEnds => Typed'
<1> USE DEF Typed, TypeOK
<1>1. ASSUME NEW c \in Cards, Escalate(c) PROVE Typed'
  BY <1>1 DEF Escalate, memory, history
<1>2. ASSUME NEW c \in Cards, Decide(c) PROVE Typed'
  BY <1>2 DEF Decide, durable, memory, history
<1>3. ASSUME NEW c \in Cards, Resolve(c) PROVE Typed'
  <2>1. revision' \in Nat /\ submitting' \subseteq [id : Turns, rev : Nat]
    BY <1>3, NoteTyped DEF Resolve, Turns
  <2> QED BY <1>3, <2>1 DEF Resolve, memory, d1, history
<1>4. ASSUME NEW c \in Cards, ExpiryFires(c) PROVE Typed'
  BY <1>4 DEF ExpiryFires, d1, history
<1>5. ASSUME ExpiryEnds PROVE Typed'
  <2>1. SetStatus("failed") =>
          status' \in Statuses \ {"done"} /\ projections' \in Seq(Projections)
    BY SetStatusTyped DEF Statuses
  <2>2. card' \in [Cards -> {"unused", "pending", "decided", "withdrawn"}]
    <3>1. card' = [card EXCEPT ![expiring] = "withdrawn"] \/ card' = card
      BY <1>5 DEF ExpiryEnds
    <3> QED BY <3>1
  <2>3. status' \in Statuses \ {"done"} /\ projections' \in Seq(Projections)
    BY <1>5, <2>1 DEF ExpiryEnds
  <2> QED BY <1>5, <2>2, <2>3, ProjectionsAreTyped DEF ExpiryEnds, history
<1> QED BY <1>1, <1>2, <1>3, <1>4, <1>5

LEMMA RecoveryKeepsTyped ==
  ASSUME Typed
  PROVE  Evict \/ Recover \/ Exhausted => Typed'
<1> USE DEF Typed, TypeOK
<1>1. ASSUME Evict PROVE Typed'
  <2>1. /\ turn' \in TurnRecords /\ turn'.id = turn.id
        /\ turn'.pc \in {"none", "recover"} /\ (turn'.pc = "none" <=> turn.pc = "none")
    BY <1>1 DEF Evict, Interrupted, TurnRecords, PCs
  <2>2. evictions' \in Nat
    BY <1>1 DEF Evict
  <2> QED BY <1>1, <2>1, <2>2 DEF Evict, TurnRecords, durable, d1
<1>2. ASSUME Recover PROVE Typed'
  <2>1. turn' \in TurnRecords /\ turn'.id \in Turns /\ turn'.pc = "before"
    BY <1>2, TurnRecordsTyped DEF Recover
  <2>2. outages' \in Nat
    BY <1>2, OutageTyped DEF Recover
  <2> QED BY <1>2, <2>1, <2>2 DEF Recover, TurnRecords, durable, d1
<1>3. ASSUME Exhausted PROVE Typed'
  <2>1. status' \in Statuses \ {"done"} /\ projections' \in Seq(Projections)
    BY <1>3, SetStatusTyped DEF Exhausted, Statuses
  <2>2. turn' \in TurnRecords /\ turn'.pc = "none" /\ turn.id \in Turns
    BY <1>3, TurnRecordsTyped DEF Exhausted
  <2> QED BY <1>3, <2>1, <2>2, ProjectionsAreTyped DEF Exhausted, TurnRecords, d1
<1> QED BY <1>1, <1>2, <1>3

LEMMA InitTyped == Init => Typed
<1> SUFFICES ASSUME Init PROVE Typed
  OBVIOUS
<1>1. turn \in TurnRecords /\ turn.pc = "none"
  BY TurnRecordsTyped DEF Init
<1>2. queue \in Seq(Submissions) /\ projections \in Seq(Projections)
      /\ projections \in Seq([kind : {"status", "summary"}, value : Statuses \cup Turns])
  BY EmptySeq DEF Init
<1>3. /\ card \in [Cards -> {"unused", "pending", "decided", "withdrawn"}]
      /\ sends \in [Messages \cup Steers -> Nat] /\ begun \in [Turns -> Nat]
  BY DEF Init
<1> QED BY <1>1, <1>2, <1>3 DEF Init, Typed, TypeOK, Statuses, TurnRecords, Submissions

LEMMA NextKeepsTyped == Typed /\ [Next]_vars => Typed'
<1> SUFFICES ASSUME Typed, [Next]_vars PROVE Typed'
  OBVIOUS
<1>1. CASE UNCHANGED vars
  BY <1>1 DEF vars, durable, memory, d1, history, Typed, TypeOK
<1> QED BY <1>1, ProjectionKeepsTyped, InputKeepsTyped, BeginKeepsTyped, StepKeepsTyped,
           CardKeepsTyped, RecoveryKeepsTyped DEF Next, TurnStep

-----------------------------------------------------------------------------
(* What the steps of others leave of a turn.                               *)

\* What a projection, an input, a card or an alarm does.
Elsewhere ==
  \/ Projection
  \/ \E m \in Messages : Deliver(m)
  \/ \E s \in Steers : Steer(s) \/ StartSteerTurn(s) \/ SteerAlarmReturns(s)
  \/ \E x \in submitting : Submit(x)
  \/ \E c \in Cards : Escalate(c) \/ Decide(c) \/ Resolve(c) \/ ExpiryFires(c)
  \/ ExpiryEnds

\* Not one of them touches the turn, its id or its money.
LEMMA ElsewhereEffect ==
  ASSUME Typed, Elsewhere
  PROVE  /\ UNCHANGED <<turn, turnId, paid, billed, episodes>>
         /\ outages' = 0 => outages = 0
<1>1. CASE Projection
  BY <1>1 DEF Projection, ProjectStatus, ProjectSummary, DropProjection, Outage, memory, d1,
              history, Typed, TypeOK
<1>2. CASE \E m \in Messages : Deliver(m)
  BY <1>2 DEF Deliver, Sent, memory, d1
<1>3. CASE \E s \in Steers : Steer(s) \/ StartSteerTurn(s) \/ SteerAlarmReturns(s)
  BY <1>3 DEF Steer, StartSteerTurn, SteerAlarmReturns, Sent, memory, d1, history
<1>4. CASE \E x \in submitting : Submit(x)
  BY <1>4 DEF Submit, memory, d1, history
<1>5. CASE \E c \in Cards : Escalate(c) \/ Decide(c) \/ Resolve(c) \/ ExpiryFires(c)
  BY <1>5 DEF Escalate, Decide, Resolve, ExpiryFires, durable, memory, d1, history
<1>6. CASE ExpiryEnds
  BY <1>6 DEF ExpiryEnds, history
<1> QED BY <1>1, <1>2, <1>3, <1>4, <1>5, <1>6 DEF Elsewhere

-----------------------------------------------------------------------------
(* What a turn may spend.                                                  *)

Stepping == {"before", "model", "tool"}

SpendInv ==
  /\ TurnSpendBounded
  /\ Ceiling > 0 /\ turn.pc \in Stepping => turn.spent < Ceiling
  /\ outages = 0 => paid <= billed
  /\ Ceiling > 0 /\ outages = 0 /\ turn.pc \in Stepping \cup {"respond", "finish"} =>
       paid < Ceiling + turn.spent

LEMMA InitSpend == Init => SpendInv
BY BoundsAssumption DEF Init, SpendInv, TurnSpendBounded, NoTurn, Stepping

LEMMA StepEndKeepsSpend ==
  ASSUME Typed, SpendInv, NEW kind \in Kinds, StepEnd(kind)
  PROVE  SpendInv'
<1> DEFINE cost == IF kind = "refused" THEN 0 ELSE StepCost
           spent == turn.spent + cost
<1>1. /\ cost \in Nat /\ cost <= StepCost /\ StepCost \in Nat /\ Ceiling \in Nat
      /\ {turn.spent, paid, billed, outages} \subseteq Nat
  BY BoundsAssumption DEF Typed, TypeOK
<1>2. turn.pc \in Stepping
  BY DEF StepEnd, Kinds, Stepping
<1>3. /\ turn'.spent = spent
      /\ turn'.pc \in {"before", "respond"}
      /\ turn'.pc = "before" => ~Stops(spent)
      /\ paid' = paid + cost
      /\ RecordUsage(cost)
  BY DEF StepEnd, Typed, TypeOK
<1>4. outages' = 0 => outages = 0 /\ billed' = billed + cost
  BY <1>1, <1>3 DEF RecordUsage, Outage
<1> HIDE DEF cost
<1> QED BY <1>1, <1>2, <1>3, <1>4 DEF SpendInv, TurnSpendBounded, Stops, Stepping

LEMMA NextKeepsSpend ==
  ASSUME Typed, SpendInv, [Next]_vars
  PROVE  SpendInv'
<1> USE BoundsAssumption DEF SpendInv, TurnSpendBounded, Stepping
<1>0. {turn.spent, paid, billed, outages} \subseteq Nat
  BY DEF Typed, TypeOK
<1>1. CASE Elsewhere
  BY <1>1, ElsewhereEffect
<1>2. CASE BeginTurn
  BY <1>0, <1>2 DEF BeginTurn, FreshTurn, NoTurn, d1
<1>3. CASE BeforeStep
  BY <1>3 DEF BeforeStep, d1, Typed, TypeOK
<1>4. CASE RunProgram \/ TurnStops
  <2>1. turn.pc \in Stepping /\ UNCHANGED <<paid, billed, outages>>
    BY <1>4 DEF RunProgram, TurnStops, d1, history
  <2>2. turn'.spent = turn.spent /\ turn'.pc \in {"tool", "respond"}
    <3>1. turn \in TurnRecords
      BY DEF Typed, TypeOK, TurnRecords
    <3>2. \/ turn' = [turn EXCEPT !.pc = "tool"]
          \/ turn' = [turn EXCEPT !.pc = "respond", !.end = "stopped"]
      BY <1>4 DEF RunProgram, TurnStops
    <3> QED BY <3>1, <3>2 DEF TurnRecords
  <2> QED BY <2>1, <2>2
<1>5. ASSUME NEW kind \in Kinds, StepEnd(kind) PROVE SpendInv'
  BY <1>5, StepEndKeepsSpend
<1>6. CASE Respond
  <2>1. /\ turn'.spent = turn.spent /\ turn'.pc = "finish" /\ turn.pc = "respond"
        /\ UNCHANGED <<paid, billed>>
        /\ outages' = 0 => outages = 0
    BY <1>0, <1>6 DEF Respond, Outage, Typed, TypeOK
  <2> QED BY <2>1
<1>7. CASE Finish \/ Exhausted
  BY <1>0, <1>7 DEF Finish, Exhausted, NoTurn, d1
<1>8. CASE Evict
  BY <1>8 DEF Evict, Interrupted, d1, Typed, TypeOK
<1>9. CASE Recover
  BY <1>0, <1>9 DEF Recover, FreshTurn, NoTurn, UnderSpendCeiling, Outage, d1
<1>10. CASE UNCHANGED vars
  BY <1>10 DEF vars, memory, d1, history
<1> QED BY <1>1, <1>2, <1>3, <1>4, <1>5, <1>6, <1>7, <1>8, <1>9, <1>10
       DEF Next, TurnStep, Elsewhere

-----------------------------------------------------------------------------
(* What is remembered of a turn.                                           *)

EpisodeInv ==
  /\ turn.pc # "none" => turnId = turn.id
  /\ EpisodeOfEachTurn

LEMMA NextKeepsEpisode ==
  ASSUME Typed, EpisodeInv, [Next]_vars
  PROVE  EpisodeInv'
<1> USE DEF EpisodeInv, EpisodeOfEachTurn
<1>1. CASE Elsewhere
  BY <1>1, ElsewhereEffect
<1>2. CASE BeginTurn
  BY <1>2 DEF BeginTurn, AdoptTurnId, FreshTurn, NoTurn
<1>3. CASE BeforeStep \/ RunProgram \/ TurnStops
  BY <1>3 DEF BeforeStep, RunProgram, TurnStops, durable, Typed, TypeOK
<1>4. ASSUME NEW kind \in Kinds, StepEnd(kind) PROVE EpisodeInv'
  BY <1>4 DEF StepEnd, Kinds, Typed, TypeOK
<1>5. CASE Respond
  BY <1>5 DEF Respond, Outage, durable, Typed, TypeOK
<1>6. CASE Finish \/ Exhausted
  BY <1>6 DEF Finish, Exhausted, NoTurn
<1>7. CASE Evict
  BY <1>7 DEF Evict, Interrupted, durable, Typed, TypeOK
<1>8. CASE Recover
  BY <1>8 DEF Recover, FreshTurn, NoTurn, durable
<1>9. CASE UNCHANGED vars
  BY <1>9 DEF vars, durable, memory, d1, history
<1> QED BY <1>1, <1>2, <1>3, <1>4, <1>5, <1>6, <1>7, <1>8, <1>9
       DEF Next, TurnStep, Elsewhere

-----------------------------------------------------------------------------
(* What D1 shows: the summary.                                             *)

SummaryAt(i) == i \in DOMAIN projections /\ projections[i].kind = "summary"

\* Unless a projection was lost, D1 has the first question or has yet to hear of it, and
\* the first summary in the queue is that question.
SummaryInv ==
  /\ summarised => first # None
  /\ outages = 0 =>
       \/ summary = None /\ first = None /\ \A i : ~SummaryAt(i)
       \/ first # None /\ summary = first
       \/ /\ first # None /\ summary = None
          /\ \E i : /\ SummaryAt(i) /\ projections[i].value = first
                    /\ \A j : SummaryAt(j) => j >= i

\* A status at the end of the queue does not matter to the summaries.
LEMMA StatusKeepsSummaries ==
  ASSUME Typed, SummaryInv, NEW to \in Statuses, SetStatus(to),
         UNCHANGED <<summarised, first, summary>>, outages' = 0 => outages = 0
  PROVE  SummaryInv'
<1> USE DEF SummaryInv, SummaryAt
<1>1. CASE projections' = projections
  BY <1>1
<1>2. CASE projections' = Append(projections, StatusProjection(to))
  <2>1. /\ projections \in Seq(Projections) /\ StatusProjection(to) \in Projections
        /\ StatusProjection(to).kind = "status"
    BY DEF Typed, Projections, StatusProjection
  <2>2. /\ DOMAIN projections = 1..Len(projections) /\ Len(projections) \in Nat
        /\ DOMAIN projections' = 1..(Len(projections) + 1)
        /\ \A i \in 1..Len(projections) : projections'[i] = projections[i]
        /\ projections'[Len(projections) + 1] = StatusProjection(to)
    BY <1>2, <2>1
  <2> QED BY <2>1, <2>2
<1> QED BY <1>1, <1>2 DEF SetStatus

LEMMA PopKeepsSummaries ==
  ASSUME Typed, SummaryInv, Projection
  PROVE  SummaryInv'
<1>1. /\ projections \in Seq(Projections) /\ projections # <<>>
      /\ projections' = Tail(projections) /\ UNCHANGED <<summarised, first>>
      /\ outages \in Nat /\ outages' \in {outages, outages + 1}
  BY DEF Projection, ProjectStatus, ProjectSummary, DropProjection, Outage, memory, history,
         Typed, TypeOK
<1>2. /\ DOMAIN projections = 1..Len(projections) /\ Len(projections) \in Nat \ {0}
      /\ DOMAIN projections' = 1..(Len(projections) - 1)
      /\ \A i \in 1..(Len(projections) - 1) : projections'[i] = projections[i + 1]
      /\ Head(projections) = projections[1]
  BY <1>1
<1>3. CASE outages' = 0 /\ Head(projections).kind = "status"
  <2>1. UNCHANGED <<summary, outages>>
    BY <1>1, <1>3 DEF Projection, ProjectStatus, ProjectSummary, DropProjection, Outage, history
  <2>2. \A i : SummaryAt(i)' <=> SummaryAt(i + 1) /\ i \in 1..(Len(projections) - 1)
    BY <1>2 DEF SummaryAt
  <2>3. ~SummaryAt(1)
    BY <1>2, <1>3 DEF SummaryAt
  <2>4. ASSUME NEW i, SummaryAt(i), projections[i].value = first,
               \A j : SummaryAt(j) => j >= i
        PROVE  /\ SummaryAt(i - 1)' /\ projections'[i - 1].value = first
               /\ \A j : SummaryAt(j)' => j >= i - 1
    <3>1. i \in 2..Len(projections) /\ i - 1 \in 1..(Len(projections) - 1) /\ (i - 1) + 1 = i
      BY <1>2, <2>3, <2>4 DEF SummaryAt
    <3> QED BY <1>2, <2>2, <2>4, <3>1
  <2> QED BY <1>1, <2>1, <2>2, <2>4 DEF SummaryInv
<1>4. CASE outages' = 0 /\ Head(projections).kind = "summary"
  <2>1. SummaryAt(1) /\ outages = 0
    BY <1>1, <1>2, <1>4 DEF SummaryAt
  <2>2. summary' = IF summary = None THEN projections[1].value ELSE summary
    BY <1>1, <1>2, <1>4
       DEF Projection, ProjectStatus, ProjectSummary, DropProjection, Outage, SetSummaryIfAbsent
  <2>3. summary # None \/ projections[1].value = first
    <3>1. \A i : SummaryAt(i) /\ 1 >= i => i = 1
      BY <1>2 DEF SummaryAt
    <3> QED BY <2>1, <3>1 DEF SummaryInv
  <2>4. first # None
    BY <2>1 DEF SummaryInv
  <2> QED BY <1>1, <2>1, <2>2, <2>3, <2>4 DEF SummaryInv
<1>5. CASE outages' # 0
  BY <1>1, <1>5 DEF SummaryInv
<1>6. Head(projections).kind \in {"status", "summary"}
  BY <1>1 DEF Projections
<1> QED BY <1>3, <1>4, <1>5, <1>6

LEMMA BeginKeepsSummaries ==
  ASSUME Typed, SummaryInv, BeginTurn
  PROVE  SummaryInv'
<1> DEFINE id == Head(queue).id
           new == [kind |-> "summary", value |-> id]
<1>1. id \in Turns /\ id # None
  <2>1. queue \in Seq([id : Turns, rev : Nat]) /\ queue # <<>>
    BY DEF BeginTurn, Typed, TypeOK
  <2>2. Head(queue) \in [id : Turns, rev : Nat]
    BY <2>1, HeadTailProperties
  <2> QED BY <2>2, TurnsAssumption
<1>2. /\ first' = IF first = None THEN id ELSE first
      /\ summarised' = TRUE
      /\ projections' = IF summarised THEN projections ELSE Append(projections, new)
      /\ UNCHANGED <<summary, outages>>
  BY DEF BeginTurn, QueueSummary, d1
<1> HIDE DEF id
<1>3. CASE summarised
  BY <1>2, <1>3 DEF SummaryInv, SummaryAt
<1>4. CASE ~summarised
  <2>1. new \in Projections /\ projections \in Seq(Projections)
    BY <1>1 DEF Projections, Typed
  <2>2. /\ DOMAIN projections = 1..Len(projections) /\ Len(projections) \in Nat
        /\ DOMAIN projections' = 1..(Len(projections) + 1)
        /\ \A i \in 1..Len(projections) : projections'[i] = projections[i]
        /\ projections'[Len(projections) + 1] = new
    BY <1>2, <1>4, <2>1
  <2>3. first' # None
    BY <1>1, <1>2
  <2>4. CASE outages = 0 /\ first = None
    <3>0. PICK n : n = Len(projections) + 1
      OBVIOUS
    <3>1. SummaryAt(n)' /\ projections'[n].value = first'
      <4>1. new.kind = "summary" /\ new.value = id
        OBVIOUS
      <4>2. n \in DOMAIN projections' /\ first' = id /\ projections'[n] = new
        BY <1>2, <2>2, <2>4, <3>0
      <4> HIDE DEF new
      <4> QED BY <4>1, <4>2 DEF SummaryAt
    <3>2. summary = None /\ \A j \in 1..Len(projections) : ~SummaryAt(j)
      BY <1>1, <2>4 DEF SummaryInv
    <3>3. \A j : SummaryAt(j)' => j >= n
      BY <2>2, <3>0, <3>2 DEF SummaryAt
    <3> HIDE DEF new
    <3> QED BY <1>2, <2>3, <3>1, <3>2, <3>3 DEF SummaryInv
  <2>5. CASE outages = 0 /\ first # None /\ summary = None
    <3>1. PICK i : /\ SummaryAt(i) /\ projections[i].value = first
                   /\ \A j : SummaryAt(j) => j >= i
      BY <2>5 DEF SummaryInv
    <3>2. SummaryAt(i)' /\ projections'[i].value = first'
      BY <1>2, <2>2, <2>5, <3>1 DEF SummaryAt
    <3>3. \A j : SummaryAt(j)' => j >= i
      BY <2>2, <3>1 DEF SummaryAt
    <3> QED BY <1>2, <2>3, <3>2, <3>3 DEF SummaryInv
  <2>6. CASE outages # 0 \/ summary # None
    BY <1>2, <2>3, <2>6 DEF SummaryInv
  <2> QED BY <2>4, <2>5, <2>6
<1> QED BY <1>3, <1>4

LEMMA NextKeepsSummary ==
  ASSUME Typed, SummaryInv, [Next]_vars
  PROVE  SummaryInv'
<1>0. outages \in Nat
  BY DEF Typed, TypeOK
<1>1. CASE Projection
  BY <1>1, PopKeepsSummaries
<1>2. CASE BeginTurn
  BY <1>2, BeginKeepsSummaries
<1>3. ASSUME NEW kind \in Kinds, StepEnd(kind) PROVE SummaryInv'
  BY <1>0, <1>3, StatusKeepsSummaries DEF StepEnd, RecordUsage, Outage, Statuses
<1>4. CASE Finish
  BY <1>4, StatusKeepsSummaries DEF Finish, Typed, Statuses, d1
<1>5. CASE ExpiryEnds /\ card' # card
  BY <1>5, StatusKeepsSummaries DEF ExpiryEnds, Statuses, history
<1>6. CASE Exhausted
  BY <1>6, StatusKeepsSummaries DEF Exhausted, Statuses, d1
<1> DEFINE Quiet == /\ UNCHANGED <<projections, first, summary>>
                    /\ summarised' = summarised \/ ~summarised'
                    /\ outages' = outages \/ outages' = outages + 1
<1>7. CASE Quiet
  <2>1. \A i : SummaryAt(i)' <=> SummaryAt(i)
    BY <1>7 DEF SummaryAt
  <2>2. outages' = 0 => outages = 0
    BY <1>0, <1>7
  <2> QED BY <1>7, <2>1, <2>2 DEF SummaryInv
<1>8. CASE \/ \E m \in Messages : Deliver(m)
           \/ \E s \in Steers : Steer(s) \/ StartSteerTurn(s) \/ SteerAlarmReturns(s)
           \/ \E x \in submitting : Submit(x)
           \/ \E c \in Cards : Escalate(c) \/ Decide(c) \/ Resolve(c) \/ ExpiryFires(c)
  <2>1. Quiet
    BY <1>8 DEF Deliver, Steer, StartSteerTurn, SteerAlarmReturns, Submit, Escalate, Decide,
                Resolve, ExpiryFires, Sent, durable, memory, d1, history
  <2> QED BY <1>7, <2>1
<1>9. CASE \/ BeforeStep \/ RunProgram \/ Respond \/ TurnStops \/ Evict \/ Recover
           \/ (ExpiryEnds /\ card' = card) \/ UNCHANGED vars
  <2>1. Quiet
    <3>1. CASE BeforeStep \/ RunProgram \/ Respond \/ TurnStops
      BY <3>1 DEF BeforeStep, RunProgram, Respond, TurnStops, Outage, durable, memory, d1, history
    <3>2. CASE Evict \/ Recover \/ UNCHANGED vars
      BY <3>2 DEF Evict, Recover, Outage, vars, durable, memory, d1, history
    <3>3. CASE ExpiryEnds /\ card' = card
      BY <3>3 DEF ExpiryEnds, history, Typed, TypeOK
    <3> QED BY <1>9, <3>1, <3>2, <3>3
  <2> QED BY <1>7, <2>1
<1> QED BY <1>1, <1>2, <1>3, <1>4, <1>5, <1>6, <1>8, <1>9 DEF Next, TurnStep

-----------------------------------------------------------------------------
(* What D1 shows: the status.                                              *)

Withdrawn == \E c \in Cards : card[c] = "withdrawn"

Living == Statuses \ {"done"}

\* A turn that goes on to idle or awaiting_approval does so from live; unless an expiry
\* came between and failed the run.
EndInv ==
  \/ turn.pc = "respond" /\ turn.end = "completed"
  \/ turn.pc = "finish" /\ turn.end # "failed"
  => status = "live" \/ (status = "failed" /\ Withdrawn)

\* The one step of the object that its row may not follow.
Outrun(from, to) == from = "failed" /\ to \in {"idle", "awaiting_approval"} /\ Withdrawn

Near(r, to) == r = to \/ Outrun(r, to)

\* The statuses the object went through since the row was written, one for every
\* projection in the queue.
Trail(s) ==
  /\ s \in [1..(Len(projections) + 1) -> Living]
  /\ Near(row, s[1])
  /\ s[Len(projections) + 1] = status
  /\ \A i \in 1..Len(projections) :
       \/ projections[i].kind = "summary" /\ s[i + 1] = s[i]
       \/ /\ projections[i].kind = "status" /\ projections[i].value = s[i + 1]
          /\ <<s[i], s[i + 1]>> \in Transitions \/ Outrun(s[i], s[i + 1])

TrailInv ==
  /\ EndInv
  /\ outages = 0 => \E s \in [1..(Len(projections) + 1) -> Living] : Trail(s)

LEMMA WithdrawnStays ==
  ASSUME Typed, [Next]_vars, Withdrawn
  PROVE  Withdrawn'
<1>1. PICK c \in Cards : card[c] = "withdrawn"
  BY DEF Withdrawn
<1>2. card \in [Cards -> {"unused", "pending", "decided", "withdrawn"}]
  BY DEF Typed, TypeOK
<1>3. \/ card' = card
      \/ \E d \in Cards : Escalate(d) \/ Decide(d)
      \/ ExpiryEnds
  BY DEF Next, Projection, ProjectStatus, ProjectSummary, DropProjection, Deliver, Steer,
         StartSteerTurn, SteerAlarmReturns, Submit, TurnStep, BeginTurn, BeforeStep, RunProgram,
         StepEnd, Respond, Finish, Recover, Exhausted, Resolve, ExpiryFires, TurnStops, Evict,
         vars, d1
<1>4. card'[c] = card[c]
  BY <1>1, <1>2, <1>3 DEF Escalate, Decide, ExpiryEnds
<1> QED BY <1>1, <1>4 DEF Withdrawn

\* A new projection adds the status the object took to the end of the trail.
LEMMA AppendKeepsTrail ==
  ASSUME Typed, NEW s, Trail(s), NEW p \in Projections, NEW to \in Living,
         projections' = Append(projections, p), status' = to, row' = row,
         Withdrawn => Withdrawn',
         \/ p.kind = "summary" /\ status = to
         \/ /\ p.kind = "status" /\ p.value = to
            /\ <<status, to>> \in Transitions \/ Outrun(status, to)
  PROVE  \E t \in [1..(Len(projections') + 1) -> Living] : Trail(t)'
<1>1. PICK n \in Nat : n = Len(projections)
  BY DEF Typed
<1>2. /\ Len(projections') = n + 1 /\ projections'[n + 1] = p
      /\ \A i \in 1..n : projections'[i] = projections[i]
  BY <1>1 DEF Typed
<1> DEFINE t == [i \in 1..(n + 2) |-> IF i = n + 2 THEN to ELSE s[i]]
<1>3. t \in [1..(n + 2) -> Living]
  BY <1>1 DEF Trail
<1>4. t[1] = s[1] /\ t[n + 2] = to /\ t[n + 1] = status
  BY <1>1 DEF Trail
<1>5. \A i \in 1..n : t[i] = s[i] /\ t[i + 1] = s[i + 1]
  OBVIOUS
<1> HIDE DEF t
<1>6. Near(row, s[1]) => Near(row, t[1])'
  BY <1>4 DEF Near, Outrun
<1>7. ASSUME NEW i \in 1..(n + 1)
      PROVE  \/ projections'[i].kind = "summary" /\ t[i + 1] = t[i]
             \/ /\ projections'[i].kind = "status" /\ projections'[i].value = t[i + 1]
                /\ <<t[i], t[i + 1]>> \in Transitions \/ Outrun(t[i], t[i + 1])'
  <2>1. CASE i = n + 1
    <3>1. projections'[i] = p /\ t[i] = status /\ t[i + 1] = to
      <4>1. i + 1 = n + 2
        BY <2>1
      <4> QED BY <1>2, <1>4, <2>1, <4>1
    <3> QED BY <3>1 DEF Outrun
  <2>2. CASE i \in 1..n
    BY <1>1, <1>2, <1>5, <2>2 DEF Trail, Outrun
  <2> QED BY <1>1, <2>1, <2>2
<1>8. Near(row, t[1])'
  BY <1>6 DEF Trail
<1>9. Len(projections') + 1 = n + 2
  BY <1>1, <1>2
<1> QED BY <1>2, <1>3, <1>4, <1>7, <1>8, <1>9 DEF Trail

\* The row takes the next status of the trail, or may not follow it.
LEMMA PopKeepsTrail ==
  ASSUME Typed, NEW s, Trail(s), Projection, outages = 0, outages' = 0
  PROVE  \E t \in [1..(Len(projections') + 1) -> Living] : Trail(t)'
<1>1. /\ projections # <<>> /\ projections' = Tail(projections) /\ UNCHANGED <<status, card>>
      /\ Withdrawn' <=> Withdrawn
      /\ \/ /\ projections[1].kind = "summary" /\ row' = row
         \/ /\ projections[1].kind = "status"
            /\ row' = IF Legal(row, projections[1].value) THEN projections[1].value ELSE row
  BY DEF Projection, ProjectStatus, ProjectSummary, DropProjection, Outage, d1, Withdrawn
<1>2. PICK n \in Nat : n + 1 = Len(projections)
  BY <1>1 DEF Typed
<1>3. /\ Len(projections') = n
      /\ \A i \in 1..n : projections'[i] = projections[i + 1]
  BY <1>1, <1>2 DEF Typed
<1>4. /\ s \in [1..(n + 2) -> Living] /\ s[1] \in Living /\ s[2] \in Living
      /\ s[n + 2] = status /\ Near(row, s[1])
  BY <1>2 DEF Trail
<1> DEFINE t == [i \in 1..(n + 1) |-> s[i + 1]]
<1>5. t \in [1..(n + 1) -> Living] /\ t[1] = s[2] /\ t[n + 1] = status
  BY <1>4
<1>6. Near(row, s[2])'
  <2>1. \/ projections[1].kind = "summary" /\ s[2] = s[1]
        \/ /\ projections[1].kind = "status" /\ projections[1].value = s[2]
           /\ <<s[1], s[2]>> \in Transitions \/ Outrun(s[1], s[2])
    <3>1. 1 \in 1..Len(projections) /\ 1 + 1 = 2
      BY <1>2
    <3> QED BY <3>1 DEF Trail
  <2>2. CASE projections[1].kind = "summary"
    BY <1>1, <1>4, <2>1, <2>2 DEF Near, Outrun
  <2>3. CASE projections[1].kind = "status"
    <3>1. /\ row' = IF <<row, s[2]>> \in Transitions THEN s[2] ELSE row
          /\ <<s[1], s[2]>> \in Transitions \/ Outrun(s[1], s[2])
      BY <1>1, <2>1, <2>3 DEF Legal
    <3> QED BY <1>1, <1>4, <3>1 DEF Near, Outrun, Transitions, Living, Statuses
  <2> QED BY <1>1, <2>2, <2>3
<1>7. ASSUME NEW i \in 1..n
      PROVE  \/ projections'[i].kind = "summary" /\ t[i + 1] = t[i]
             \/ /\ projections'[i].kind = "status" /\ projections'[i].value = t[i + 1]
                /\ <<t[i], t[i + 1]>> \in Transitions \/ Outrun(t[i], t[i + 1])'
  <2>1. i + 1 \in 1..Len(projections) /\ t[i] = s[i + 1] /\ t[i + 1] = s[(i + 1) + 1]
    BY <1>2
  <2> HIDE DEF t
  <2> QED BY <1>1, <1>3, <2>1 DEF Trail, Outrun
<1> HIDE DEF t
<1> QED BY <1>1, <1>3, <1>5, <1>6, <1>7 DEF Trail

\* A step of the object to another status: a legal one, or the end of a turn whose run
\* an expiry has failed.
LEMMA SetStatusKeepsTrail ==
  ASSUME Typed, TrailInv, NEW to \in Living, SetStatus(to),
         row' = row, outages' = 0 => outages = 0, Withdrawn => Withdrawn',
         status = to \/ <<status, to>> \in Transitions \/ Outrun(status, to)
  PROVE  outages' = 0 => \E t \in [1..(Len(projections') + 1) -> Living] : Trail(t)'
<1> SUFFICES ASSUME outages' = 0
             PROVE  \E t \in [1..(Len(projections') + 1) -> Living] : Trail(t)'
  OBVIOUS
<1>1. PICK s \in [1..(Len(projections) + 1) -> Living] : Trail(s)
  BY DEF TrailInv
<1>2. CASE status = to
  BY <1>1, <1>2 DEF SetStatus, Trail, Near, Outrun
<1>3. CASE status # to
  <2>1. /\ StatusProjection(to) \in Projections
        /\ StatusProjection(to).kind = "status" /\ StatusProjection(to).value = to
    BY DEF StatusProjection, Projections, Living
  <2>2. projections' = Append(projections, StatusProjection(to)) /\ status' = to
    BY <1>3 DEF SetStatus
  <2> HIDE DEF Trail
  <2> QED BY <1>1, <1>3, <2>1, <2>2, AppendKeepsTrail
<1> QED BY <1>2, <1>3

LEMMA InitTrail == Init => TrailInv
<1> SUFFICES ASSUME Init PROVE TrailInv
  OBVIOUS
<1>1. EndInv
  BY DEF Init, NoTurn, EndInv
<1> DEFINE s == [i \in 1..1 |-> "idle"]
<1>2. s \in [1..(Len(projections) + 1) -> Living] /\ Len(projections) = 0
  BY DEF Init, Living, Statuses
<1>3. Trail(s)
  BY <1>2 DEF Init, Trail, Near
<1> QED BY <1>1, <1>2, <1>3 DEF TrailInv

LEMMA SetStatusEffect ==
  ASSUME NEW to, SetStatus(to)
  PROVE  status' = to
BY DEF SetStatus

LEMMA NextKeepsEnd ==
  ASSUME Typed, EndInv, [Next]_vars
  PROVE  EndInv'
<1> USE DEF EndInv
<1>0. turn \in TurnRecords /\ (Withdrawn => Withdrawn')
  BY WithdrawnStays DEF Typed, TypeOK, TurnRecords
<1>1. CASE Elsewhere
  <2>1. turn' = turn
    BY <1>1, ElsewhereEffect
  <2>2. status' = status \/ (status' = "failed" /\ Withdrawn')
    <3>1. CASE ExpiryEnds /\ card[expiring] = "pending"
      <4>1. card' = [card EXCEPT ![expiring] = "withdrawn"] /\ status' = "failed"
        BY <3>1, SetStatusEffect DEF ExpiryEnds
      <4>2. expiring \in Cards /\ card \in [Cards -> {"unused", "pending", "decided", "withdrawn"}]
        BY <3>1 DEF ExpiryEnds, Typed, TypeOK
      <4> QED BY <4>1, <4>2 DEF Withdrawn
    <3>2. CASE ~(ExpiryEnds /\ card[expiring] = "pending")
      BY <1>1, <3>2 DEF Elsewhere, Projection, ProjectStatus, ProjectSummary, DropProjection,
             Deliver, Steer, StartSteerTurn, SteerAlarmReturns, Submit, Escalate, Decide,
             Resolve, ExpiryFires, ExpiryEnds, durable
    <3> QED BY <3>1, <3>2
  <2> QED BY <1>0, <2>1, <2>2
<1>2. CASE BeginTurn \/ BeforeStep \/ RunProgram \/ TurnStops \/ Recover
  <2>1. \/ turn'.pc \in {"before", "model", "tool"}
        \/ turn'.pc = "respond" /\ turn'.end = "stopped"
    BY <1>0, <1>2 DEF BeginTurn, BeforeStep, RunProgram, TurnStops, Recover, FreshTurn, NoTurn,
           TurnRecords
  <2> QED BY <2>1
<1>3. ASSUME NEW kind \in Kinds, StepEnd(kind) PROVE EndInv'
  BY <1>3, SetStatusEffect DEF StepEnd
<1>4. CASE Respond
  BY <1>0, <1>4 DEF Respond, Terminal, TurnRecords, durable
<1>5. CASE Finish \/ Exhausted
  BY <1>5 DEF Finish, Exhausted, NoTurn
<1>6. CASE Evict
  BY <1>0, <1>6 DEF Evict, Interrupted, TurnRecords
<1>7. CASE UNCHANGED vars
  BY <1>0, <1>7 DEF vars, durable, memory
<1> QED BY <1>1, <1>2, <1>3, <1>4, <1>5, <1>6, <1>7 DEF Next, TurnStep, Elsewhere

LEMMA NextKeepsTrail ==
  ASSUME Typed, TrailInv, [Next]_vars
  PROVE  TrailInv'
<1> DEFINE HasTrail == \E t \in [1..(Len(projections) + 1) -> Living] : Trail(t)
<1> SUFFICES outages' = 0 => HasTrail'
  BY NextKeepsEnd DEF TrailInv
<1>0. /\ outages \in Nat /\ (Withdrawn => Withdrawn') /\ status \in Living /\ EndInv
      /\ {"live", "idle", "failed", "awaiting_approval"} \subseteq Living
      /\ \A to \in Living : to # status /\ to \in {"live", "failed"} =>
           <<status, to>> \in Transitions
  BY WithdrawnStays DEF Typed, TypeOK, Living, Statuses, Transitions, TrailInv
<1>1. CASE Projection
  <2> SUFFICES ASSUME outages' = 0 PROVE HasTrail'
    OBVIOUS
  <2>1. outages = 0
    BY <1>0, <1>1 DEF Projection, ProjectStatus, ProjectSummary, DropProjection, Outage, history
  <2>2. PICK s \in [1..(Len(projections) + 1) -> Living] : Trail(s)
    BY <2>1 DEF TrailInv
  <2> QED BY <1>1, <2>1, <2>2, PopKeepsTrail
<1>2. ASSUME NEW kind \in Kinds, StepEnd(kind) PROVE outages' = 0 => HasTrail'
  <2>1. SetStatus("live") /\ row' = row /\ (outages' = 0 => outages = 0)
    BY <1>0, <1>2 DEF StepEnd, RecordUsage, Outage
  <2> QED BY <1>0, <2>1, SetStatusKeepsTrail
<1>3. CASE Exhausted \/ (ExpiryEnds /\ card[expiring] = "pending")
  <2>1. SetStatus("failed") /\ row' = row /\ outages' = outages
    BY <1>3 DEF Exhausted, ExpiryEnds, d1, history
  <2> QED BY <1>0, <2>1, SetStatusKeepsTrail
<1>4. CASE Finish
  <2>1. SetStatus(turn.end) /\ row' = row /\ outages' = outages
    BY <1>4 DEF Finish, d1
  <2>2. turn.pc = "finish" /\ turn.end \in {"failed", "awaiting_approval", "idle"}
    BY <1>4 DEF Finish, Typed
  <2>3. \/ status = turn.end \/ <<status, turn.end>> \in Transitions
        \/ Outrun(status, turn.end)
    BY <1>0, <2>2 DEF EndInv, Outrun, Transitions
  <2> QED BY <1>0, <2>1, <2>2, <2>3, SetStatusKeepsTrail
<1>5. CASE BeginTurn
  <2> SUFFICES ASSUME outages' = 0 PROVE HasTrail'
    OBVIOUS
  <2>0. PICK s \in [1..(Len(projections) + 1) -> Living] : Trail(s)
    BY <1>5 DEF BeginTurn, TrailInv
  <2> DEFINE p == [kind |-> "summary", value |-> Head(queue).id]
  <2>1. UNCHANGED <<row, status>>
        /\ (projections' = projections \/ projections' = Append(projections, p))
    BY <1>5 DEF BeginTurn, QueueSummary, d1
  <2>2. p \in Projections /\ p.kind = "summary"
    <3>1. queue \in Seq(Submissions) /\ queue # <<>>
      BY <1>5 DEF BeginTurn, Typed, TypeOK, Submissions
    <3>2. Head(queue) \in Submissions
      BY <3>1, HeadTailProperties
    <3> QED BY <3>2 DEF Submissions, Projections
  <2>3. CASE projections' = projections
    BY <1>0, <2>0, <2>1, <2>3 DEF Trail, Near, Outrun
  <2>4. CASE projections' = Append(projections, p)
    <3> HIDE DEF p
    <3> QED BY <1>0, <2>0, <2>1, <2>2, <2>4, AppendKeepsTrail
  <2> QED BY <2>1, <2>3, <2>4
<1>6. CASE UNCHANGED <<projections, status, row>> /\ (outages' = 0 => outages = 0)
  BY <1>0, <1>6 DEF TrailInv, Trail, Near, Outrun
<1>7. CASE \/ \E m \in Messages : Deliver(m)
           \/ \E s \in Steers : Steer(s) \/ StartSteerTurn(s) \/ SteerAlarmReturns(s)
           \/ \E x \in submitting : Submit(x)
           \/ \E c \in Cards : Escalate(c) \/ Decide(c) \/ Resolve(c) \/ ExpiryFires(c)
  <2>1. UNCHANGED <<projections, status, row, outages>>
    BY <1>7 DEF Deliver, Steer, StartSteerTurn, SteerAlarmReturns, Submit, Escalate, Decide,
                Resolve, ExpiryFires, Sent, durable, memory, d1, history
  <2> QED BY <1>6, <2>1
<1>8. CASE \/ BeforeStep \/ RunProgram \/ Respond \/ TurnStops \/ Evict \/ Recover
           \/ (ExpiryEnds /\ card[expiring] # "pending") \/ UNCHANGED vars
  <2>1. UNCHANGED <<projections, status, row>>
    BY <1>8 DEF BeforeStep, RunProgram, Respond, TurnStops, Evict, Recover, ExpiryEnds, vars,
                durable, d1
  <2>2. outages' = 0 => outages = 0
    BY <1>0, <1>8 DEF BeforeStep, RunProgram, Respond, TurnStops, Evict, Recover, ExpiryEnds,
                      Outage, vars, history
  <2> QED BY <1>6, <2>1, <2>2
<1> QED BY <1>1, <1>2, <1>3, <1>4, <1>5, <1>7, <1>8 DEF Next, TurnStep

-----------------------------------------------------------------------------
(* What the model is shown.                                                *)

Queued(x) == \E i \in DOMAIN queue : queue[i].id = x

\* A steer that started a turn of its own, or is about to.
Routed(x) ==
  x \in scheduled \cup alarmed \cup admitted \/ \E y \in submitting : y.id = x

OnceInv(x) ==
  /\ begun[x] <= 1
  /\ Queued(x) => begun[x] = 0
  /\ x \notin Steers /\ x \notin admitted => begun[x] = 0

\* A steer that was sent once is spliced into a turn or starts one, never both.
SteerInv(s) ==
  /\ Routed(s) \/ s \in pending \/ begun[s] > 0 => sends[s] > 0
  /\ s \in pending => ~Routed(s) /\ begun[s] = 0
  /\ Routed(s) /\ s \notin admitted => begun[s] = 0

ShownInv ==
  /\ \A i \in DOMAIN queue : queue[i].id \in admitted
  /\ \A i, j \in DOMAIN queue : queue[i].id = queue[j].id => i = j
  /\ \A x \in Turns : (x \in Steers => sends[x] < 2) => OnceInv(x)
  /\ \A s \in Steers : sends[s] < 2 => SteerInv(s)

\* Nobody is shown anything, and no input takes a new way to a turn.
LEMMA QuietKeepsShown ==
  ASSUME Typed, ShownInv, UNCHANGED <<queue, admitted, begun, sends, pending>>,
         \A s \in Steers : Routed(s)' => Routed(s)
  PROVE  ShownInv'
<1>1. \A x : Queued(x)' <=> Queued(x)
  BY DEF Queued
<1>2. \A x \in Turns : OnceInv(x) => OnceInv(x)'
  BY <1>1 DEF OnceInv
<1>3. \A s \in Steers : SteerInv(s) => SteerInv(s)'
  BY DEF SteerInv
<1> QED BY <1>2, <1>3 DEF ShownInv

LEMMA InitShown == Init => ShownInv
<1> SUFFICES ASSUME Init PROVE ShownInv
  OBVIOUS
<1>1. DOMAIN queue = {}
  BY DEF Init
<1>2. \A x \in Turns : begun[x] = 0
  BY DEF Init
<1>3. Steers \subseteq Turns
  BY DEF Turns
<1> QED BY <1>1, <1>2, <1>3 DEF Init, ShownInv, OnceInv, SteerInv, Queued, Routed

\* A steer that was not sent before is in nobody's way; one that was is no longer asked of.
LEMMA SteerKeepsShown ==
  ASSUME Typed, ShownInv, NEW s \in Steers, Steer(s)
  PROVE  ShownInv'
<1>1. /\ UNCHANGED <<queue, admitted, begun, alarmed, submitting>>
      /\ sends' = [sends EXCEPT ![s] = @ + 1]
      /\ sends \in [Messages \cup Steers -> Nat]
      /\ \/ UNCHANGED <<pending, scheduled>>
         \/ pending' = pending \cup {s} /\ UNCHANGED scheduled
         \/ scheduled' = scheduled \cup {s} /\ UNCHANGED pending /\ s \notin pending
  BY DEF Steer, Sent, AlreadySteered, memory, Typed, TypeOK
<1>2. \A x : Queued(x)' <=> Queued(x)
  BY <1>1 DEF Queued
<1>3. \A r \in Steers : sends'[r] < 2 => sends[r] < 2 /\ (r # s => sends'[r] = sends[r])
  BY <1>1
<1>4. \A x \in Turns : (x \in Steers => sends'[x] < 2) => OnceInv(x)'
  BY <1>1, <1>2, <1>3 DEF ShownInv, OnceInv
<1>5. ASSUME NEW r \in Steers, sends'[r] < 2 PROVE SteerInv(r)'
  <2>1. SteerInv(r)
    BY <1>3, <1>5 DEF ShownInv
  <2>2. CASE r # s
    BY <1>1, <1>3, <1>5, <2>1, <2>2 DEF SteerInv, Routed
  <2>3. CASE r = s
    <3>1. sends[s] = 0 /\ sends'[s] = 1
      BY <1>1, <1>5, <2>3
    <3>2. ~Routed(s) /\ s \notin pending /\ begun[s] = 0
      BY <2>1, <2>3, <3>1 DEF SteerInv, Typed, TypeOK, Turns
    <3>3. s \in pending' => ~Routed(s)'
      BY <1>1, <3>2 DEF Routed
    <3> QED BY <1>1, <2>3, <3>1, <3>2, <3>3 DEF SteerInv
  <2> QED BY <2>2, <2>3
<1> QED BY <1>1, <1>4, <1>5 DEF ShownInv

LEMMA DeliverKeepsShown ==
  ASSUME Typed, ShownInv, NEW m \in Messages, Deliver(m)
  PROVE  ShownInv'
<1>1. /\ UNCHANGED <<queue, admitted, begun, pending, scheduled, alarmed>>
      /\ submitting' = submitting \cup {[id |-> m, rev |-> revision + 1]}
      /\ \A s \in Steers : sends'[s] = sends[s]
  BY TurnsAssumption DEF Deliver, Sent, Note, memory, Typed, TypeOK
<1>2. \A s \in Steers : Routed(s)' => Routed(s)
  BY <1>1, TurnsAssumption DEF Routed
<1>3. \A x : Queued(x)' <=> Queued(x)
  BY <1>1 DEF Queued
<1>4. \A x \in Turns : OnceInv(x) => OnceInv(x)'
  BY <1>1, <1>3 DEF OnceInv
<1>5. \A s \in Steers : SteerInv(s) => SteerInv(s)'
  BY <1>1, <1>2 DEF SteerInv
<1> QED BY <1>1, <1>4, <1>5 DEF ShownInv

\* The key of an input is admitted once, and not begun before.
LEMMA SubmitKeepsShown ==
  ASSUME Typed, ShownInv, NEW x \in submitting, Submit(x)
  PROVE  ShownInv'
<1>0. x \in Submissions /\ queue \in Seq(Submissions) /\ x.id \in Turns
  BY DEF Typed, TypeOK, Submissions
<1>1. /\ UNCHANGED <<begun, sends, pending, scheduled, alarmed>>
      /\ submitting' = submitting \ {x} /\ admitted' = admitted \cup {x.id}
      /\ queue' = IF x.id \in admitted THEN queue ELSE Append(queue, x)
  BY DEF Submit, Admit, memory, history
<1>2. \A s \in Steers : Routed(s)' => Routed(s)
  BY <1>1 DEF Routed
<1>3. CASE x.id \in admitted
  <2>1. UNCHANGED <<queue, admitted>>
    BY <1>1, <1>3
  <2> QED BY <1>1, <1>2, <2>1, QuietKeepsShown
<1>4. CASE x.id \notin admitted
  <2>1. /\ DOMAIN queue = 1..Len(queue) /\ Len(queue) \in Nat
        /\ DOMAIN queue' = 1..(Len(queue) + 1)
        /\ \A i \in DOMAIN queue : queue'[i] = queue[i]
        /\ queue'[Len(queue) + 1] = x
    BY <1>0, <1>1, <1>4, AppendProperties
  <2>2. \A i \in DOMAIN queue : queue[i].id \in admitted /\ queue[i].id # x.id
    BY <1>4 DEF ShownInv
  <2>3. /\ \A i \in DOMAIN queue' : queue'[i].id \in admitted'
        /\ \A i, j \in DOMAIN queue' : queue'[i].id = queue'[j].id => i = j
    BY <1>1, <2>1, <2>2 DEF ShownInv
  <2>4. \A y : Queued(y)' => Queued(y) \/ y = x.id
    BY <2>1 DEF Queued
  <2>5. ASSUME NEW y \in Turns, y \in Steers => sends[y] < 2 PROVE OnceInv(y)'
    <3>1. OnceInv(y)
      BY <2>5 DEF ShownInv
    <3>2. CASE y # x.id
      BY <1>1, <2>4, <3>1, <3>2 DEF OnceInv
    <3>3. CASE y = x.id
      <4>1. begun[y] = 0
        BY <1>4, <2>5, <3>1, <3>3 DEF OnceInv, ShownInv, SteerInv, Routed
      <4> QED BY <1>1, <3>1, <4>1 DEF OnceInv
    <3> QED BY <3>2, <3>3
  <2>6. ASSUME NEW s \in Steers, sends[s] < 2 PROVE SteerInv(s)'
    BY <1>1, <1>2, <2>6 DEF ShownInv, SteerInv
  <2> QED BY <1>1, <2>3, <2>5, <2>6 DEF ShownInv
<1> QED BY <1>3, <1>4

\* The head of the queue is shown, and is nowhere else in it.
LEMMA BeginKeepsShown ==
  ASSUME Typed, ShownInv, BeginTurn
  PROVE  ShownInv'
<1> DEFINE id == Head(queue).id
<1>0. queue \in Seq(Submissions) /\ queue # <<>> /\ queue' = Tail(queue)
  BY DEF BeginTurn, Typed, TypeOK, Submissions
<1>1. PICK n \in Nat :
        /\ DOMAIN queue = 1..(n + 1) /\ DOMAIN queue' = 1..n
        /\ \A i \in 1..n : queue'[i] = queue[i + 1] /\ i + 1 \in 2..(n + 1)
        /\ Head(queue) = queue[1] /\ 1 \in 1..(n + 1) /\ id \in Turns
  <2>1. PICK n \in Nat : Len(queue) = n + 1
    BY <1>0
  <2>2. /\ Len(queue') = n /\ queue' \in Seq(Submissions)
        /\ Head(queue) = queue[1] /\ Head(queue) \in Submissions
        /\ \A i \in 1..n : queue'[i] = queue[i + 1]
    BY <1>0, <2>1, HeadTailProperties
  <2> QED BY <1>0, <2>1, <2>2 DEF Submissions
<1>2. /\ UNCHANGED <<admitted, sends, pending, scheduled, alarmed, submitting>>
      /\ begun' = [begun EXCEPT ![id] = @ + 1] /\ begun \in [Turns -> Nat]
  BY DEF BeginTurn, Typed, TypeOK
<1> HIDE DEF id
<1>3. id = queue[1].id /\ id \in admitted /\ Queued(id)
  BY <1>1 DEF id, ShownInv, Queued
<1>4. \A x : Queued(x)' => Queued(x)
  BY <1>1 DEF Queued
<1>5. ASSUME NEW x, x = id PROVE ~Queued(x)'
  <2>1. \A i \in DOMAIN queue : queue[i].id = queue[1].id => i = 1
    BY <1>1 DEF ShownInv
  <2>2. \A i \in 1..n : queue'[i].id # queue[1].id
    BY <1>1, <2>1
  <2> QED BY <1>1, <1>3, <1>5, <2>2 DEF Queued
<1>6. \A s : Routed(s)' <=> Routed(s)
  BY <1>2 DEF Routed
<1>7. ASSUME NEW x \in Turns, x \in Steers => sends[x] < 2 PROVE OnceInv(x)'
  <2>1. OnceInv(x)
    BY <1>7 DEF ShownInv
  <2>2. CASE x = id
    BY <1>2, <1>3, <1>5, <2>1, <2>2 DEF OnceInv
  <2>3. CASE x # id
    BY <1>2, <1>4, <2>1, <2>3 DEF OnceInv
  <2> QED BY <2>2, <2>3
<1>8. ASSUME NEW s \in Steers, sends[s] < 2 PROVE SteerInv(s)'
  <2>1. SteerInv(s) /\ s \in Turns
    BY <1>8 DEF ShownInv, Turns
  <2>2. CASE s = id
    <3>1. Routed(s) /\ s \in admitted
      BY <1>3, <2>2 DEF Routed
    <3> QED BY <1>2, <1>6, <2>1, <3>1 DEF SteerInv
  <2>3. CASE s # id
    BY <1>2, <1>6, <2>1, <2>3 DEF SteerInv
  <2> QED BY <2>2, <2>3
<1>9. /\ \A i \in DOMAIN queue' : queue'[i].id \in admitted'
      /\ \A i, j \in DOMAIN queue' : queue'[i].id = queue'[j].id => i = j
  <2>1. \A i \in 1..n : i + 1 \in DOMAIN queue
    BY <1>1
  <2>2. \A i, j \in 1..n : i + 1 = j + 1 => i = j
    OBVIOUS
  <2>3. \A i \in 1..n : queue'[i].id \in admitted
    BY <1>1, <2>1 DEF ShownInv
  <2>4. ASSUME NEW i \in 1..n, NEW j \in 1..n, queue'[i].id = queue'[j].id PROVE i = j
    <3>1. queue[i + 1].id = queue[j + 1].id
      BY <1>1, <2>4
    <3> QED BY <2>1, <2>2, <3>1 DEF ShownInv
  <2> QED BY <1>1, <1>2, <2>3, <2>4
<1> QED BY <1>2, <1>7, <1>8, <1>9 DEF ShownInv

\* A spliced steer was not routed, so no turn of its own will show it again.
LEMMA SpliceKeepsShown ==
  ASSUME Typed, ShownInv, BeforeStep
  PROVE  ShownInv'
<1>1. UNCHANGED <<queue, admitted, sends, scheduled, alarmed, submitting>>
  BY DEF BeforeStep
<1>2. CASE UNCHANGED <<pending, begun>>
  BY <1>1, <1>2, QuietKeepsShown DEF Routed
<1>3. CASE /\ pending' = {}
           /\ begun' = [x \in Turns |-> begun[x] + (IF x \in pending THEN 1 ELSE 0)]
  <2>1. \A x : (Queued(x)' <=> Queued(x)) /\ (Routed(x)' <=> Routed(x))
    BY <1>1 DEF Queued, Routed
  <2>2. /\ \A x \in Turns : begun[x] \in Nat /\ (x \notin pending => begun'[x] = begun[x])
        /\ \A x \in pending : x \in Turns /\ x \in Steers /\ begun'[x] = begun[x] + 1
    BY <1>3 DEF Typed, TypeOK, Turns
  <2>3. ASSUME NEW s \in Steers, sends[s] < 2 PROVE SteerInv(s)'
    <3>1. SteerInv(s) /\ s \in Turns
      BY <2>3 DEF ShownInv, Turns
    <3> QED BY <1>1, <1>3, <2>1, <2>2, <3>1 DEF SteerInv
  <2>4. ASSUME NEW x \in Turns, x \in Steers => sends[x] < 2 PROVE OnceInv(x)'
    <3>1. OnceInv(x)
      BY <2>4 DEF ShownInv
    <3>2. CASE x \notin pending
      BY <1>1, <2>1, <2>2, <3>1, <3>2 DEF OnceInv
    <3>3. CASE x \in pending
      <4>1. begun[x] = 0 /\ ~Routed(x)
        BY <2>2, <2>4, <3>3 DEF ShownInv, SteerInv
      <4>2. ~Queued(x)
        BY <4>1 DEF ShownInv, Queued, Routed
      <4> QED BY <2>1, <2>2, <3>3, <4>1, <4>2 DEF OnceInv
    <3> QED BY <3>2, <3>3
  <2> QED BY <1>1, <2>3, <2>4 DEF ShownInv
<1> QED BY <1>2, <1>3 DEF BeforeStep

LEMMA NextKeepsShown ==
  ASSUME Typed, ShownInv, [Next]_vars
  PROVE  ShownInv'
<1>1. CASE (\E m \in Messages : Deliver(m)) \/ (\E s \in Steers : Steer(s))
           \/ (\E x \in submitting : Submit(x)) \/ BeginTurn \/ BeforeStep
  BY <1>1, DeliverKeepsShown, SteerKeepsShown, SubmitKeepsShown, BeginKeepsShown,
     SpliceKeepsShown
<1>2. ASSUME NEW s \in Steers, StartSteerTurn(s) \/ SteerAlarmReturns(s) PROVE ShownInv'
  <2>1. UNCHANGED <<queue, admitted, begun, sends, pending>>
    BY <1>2 DEF StartSteerTurn, SteerAlarmReturns, history
  <2>2. \A r \in Steers : Routed(r)' => Routed(r)
    BY <1>2 DEF StartSteerTurn, SteerAlarmReturns, Note, Routed
  <2> QED BY <2>1, <2>2, QuietKeepsShown
<1>3. ASSUME NEW c \in Cards, Resolve(c) PROVE ShownInv'
  <2>1. UNCHANGED <<queue, admitted, begun, sends, pending, scheduled, alarmed>>
    BY <1>3 DEF Resolve, history, memory
  <2>2. \A s \in Steers : Routed(s)' => Routed(s)
    BY <1>3, <2>1, TurnsAssumption DEF Resolve, Note, Routed
  <2> QED BY <2>1, <2>2, QuietKeepsShown
<1>4. CASE Evict
  <2>1. UNCHANGED <<queue, admitted, begun, sends, pending, scheduled>>
    BY <1>4 DEF Evict, durable
  <2>2. \A s \in Steers : Routed(s)' => Routed(s)
    BY <1>4, <2>1 DEF Evict, Routed
  <2> QED BY <2>1, <2>2, QuietKeepsShown
<1>5. CASE UNCHANGED <<queue, admitted, begun, sends, pending, scheduled, alarmed, submitting>>
  BY <1>5, QuietKeepsShown DEF Routed
<1>6. CASE \/ Projection \/ RunProgram \/ Respond \/ Finish \/ Recover \/ Exhausted
           \/ TurnStops \/ ExpiryEnds \/ UNCHANGED vars
           \/ \E kind \in Kinds : StepEnd(kind)
           \/ \E c \in Cards : Escalate(c) \/ Decide(c) \/ ExpiryFires(c)
  BY <1>5, <1>6 DEF Projection, ProjectStatus, ProjectSummary, DropProjection, RunProgram,
     Respond, Finish, Recover, Exhausted, TurnStops, ExpiryEnds, StepEnd, Escalate, Decide,
     ExpiryFires, vars, durable, memory, history
<1> QED BY <1>1, <1>2, <1>3, <1>4, <1>6 DEF Next, TurnStep

-----------------------------------------------------------------------------
(* The invariant and its consequences.                                     *)

Inv == Typed /\ SpendInv /\ EpisodeInv /\ SummaryInv /\ TrailInv /\ ShownInv

\* Every reachable state satisfies the invariant.
THEOREM Invariance == Spec => []Inv
<1>1. Init => Inv
  BY InitTyped, InitSpend, InitTrail, InitShown, EmptySeq
     DEF Init, Inv, EpisodeInv, EpisodeOfEachTurn, SummaryInv, SummaryAt, NoTurn
<1>2. Inv /\ [Next]_vars => Inv'
  BY NextKeepsTyped, NextKeepsSpend, NextKeepsEpisode, NextKeepsSummary, NextKeepsTrail,
     NextKeepsShown DEF Inv
<1> QED BY <1>1, <1>2, PTL DEF Spec

\* However often an input is delivered, steered or resolved again, by whichever of the
\* three ways it takes to a turn, the model is shown it once (Submit, Steer, Resolve).
THEOREM ShownOnce == Spec => []InputShownOnce
<1>1. Inv => InputShownOnce
  BY DEF Inv, ShownInv, OnceInv, InputShownOnce
<1> QED BY <1>1, Invariance, PTL

\* Without an outage, what D1 shows of the run is where the run is once the queue of
\* projections is empty, and its summary is its first question (setStatus,
\* projectStatus, setRunSummaryIfAbsent).
THEOREM RowRight == Spec => []RowIsRight
<1>1. Inv => TypeOK
  BY DEF Inv, Typed
<1>2. Inv => RowAgrees
  <2> SUFFICES ASSUME Inv, outages = 0, projections = <<>>
               PROVE  row = status \/ Outrun(row, status)
    BY DEF RowAgrees, Outrun, Withdrawn
  <2>1. PICK s \in [1..(Len(projections) + 1) -> Living] : Trail(s)
    BY DEF Inv, TrailInv
  <2> QED BY <2>1 DEF Trail, Near
<1>3. Inv => SummaryIsOpening
  BY DEF Inv, SummaryInv, SummaryIsOpening
<1> QED BY <1>1, <1>2, <1>3, Invariance, PTL DEF RowIsRight

\* What one attempt at a turn and all its attempts together pay is bounded, whatever the
\* prices, the number of steps and the number of recoveries (onStepEnd, chatRecovery).
THEOREM SpendBounded == Spec => []TurnSpendBounded
<1>1. Inv => TurnSpendBounded
  BY DEF Inv, SpendInv
<1> QED BY <1>1, Invariance, PTL

\* The outbox has a row under the id of each turn that is about to finish (Respond).
THEOREM EpisodeRemembered == Spec => []EpisodeOfEachTurn
<1>1. Inv => EpisodeOfEachTurn
  BY DEF Inv, EpisodeInv
<1> QED BY <1>1, Invariance, PTL

===============================================================================
