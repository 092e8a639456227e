----------------------------- MODULE Execution -----------------------------
(***************************************************************************)
(* A run_code execution: capabilities/connector.ts keeps its context,        *)
(* executor.ts gives its program up when its time is over, and every         *)
(* capability call goes through execution.ts (withCapabilityAudit) and      *)
(* write-guard.ts.  The program belongs to the first turn; given up, it may  *)
(* go on calling, then and in the turns that follow.                        *)
(***************************************************************************)
EXTENDS Integers, Sequences, FiniteSets

CONSTANTS
  InFlight,   \* bound: capability calls in flight at once
  Limit,      \* limits.maxCapabilityCalls
  MaxCalls,   \* bound: calls of a program
  MaxInputs,  \* bound: inputs that supersede a turn
  Nil         \* nothing

ASSUME LimitAssumption == Limit \in Nat
ASSUME InFlightAssumption == InFlight \in Nat
ASSUME NilAssumption == Nil \notin Nat

VARIABLES
  agent,      \* the object: turn, is it under way, its revision, inputRevision
  program,    \* "none", "running", "abandoned" or "over"
  memo,       \* executionContexts: the context of the execution, or Nil
  contexts,   \* contexts ever built: [state, scope, shadow, record, used]
  call,       \* [Calls -> ..]: what each call is doing
  made,       \* calls the program has made
  shadow,     \* D1: runs.shadow
  bodies,     \* history: bodies it ran, and disposals of its context
  wrote       \* history: the last external write, with what was true when it was asked for

execVars == <<agent, program, memo, contexts, call, made, shadow, bodies, wrote>>

Calls == 1..InFlight
Turns == 1..2
Own == 1

IdleCall == [pc |-> "idle", context |-> 0, late |-> FALSE, shadowed |-> FALSE]

-----------------------------------------------------------------------------
(* run/agent.ts.                                                           *)

\* #turnRevision is null between turns: nothing is stale then.
Stale == agent.live /\ agent.revision < agent.input

\* The turn of the program answers input that has been replaced, under way or over.
Superseded == agent.turn = Own /\ agent.revision < agent.input

\* beforeTurn: a new record; the revision is that of the submission.
BeginTurn ==
  /\ ~agent.live /\ agent.turn + 1 \in Turns
  /\ \E r \in 0..agent.input :
       agent' = [agent EXCEPT !.turn = @ + 1, !.live = TRUE, !.revision = r]
  /\ UNCHANGED <<program, memo, contexts, call, made, shadow, bodies, wrote>>

Supersede ==
  /\ agent.input < MaxInputs
  /\ agent' = [agent EXCEPT !.input = @ + 1]
  /\ UNCHANGED <<program, memo, contexts, call, made, shadow, bodies, wrote>>

\* onChatResponse: the tool has returned.
EndTurn ==
  /\ agent.live /\ program # "running"
  /\ agent' = [agent EXCEPT !.live = FALSE]
  /\ UNCHANGED <<program, memo, contexts, call, made, shadow, bodies, wrote>>

\* External: an operator, or a message in a channel that is no longer live.
Shadow ==
  /\ ~shadow /\ shadow' = TRUE
  /\ UNCHANGED <<agent, program, memo, contexts, call, made, bodies, wrote>>

-----------------------------------------------------------------------------
(* executor.ts: one program, and the race that ends it.                      *)

RunCode ==
  /\ agent.live /\ agent.turn = Own /\ program = "none"
  /\ program' = "running"
  /\ UNCHANGED <<agent, memo, contexts, call, made, shadow, bodies, wrote>>

\* The program returns, and with it its isolate ends; nothing follows that matters here.
ProgramReturns ==
  /\ program \in {"running", "abandoned"} /\ \A k \in Calls : call[k] = IdleCall
  /\ program' = "over"
  /\ UNCHANGED <<agent, memo, contexts, call, made, shadow, bodies, wrote>>

\* wallTimeMs: the parent stops waiting; what the program asked for goes on.
Abandon ==
  /\ program = "running"
  /\ program' = "abandoned"
  /\ UNCHANGED <<agent, memo, contexts, call, made, shadow, bodies, wrote>>

\* disposeExecution; a later call builds a context afresh.
Dispose ==
  /\ program = "abandoned" /\ memo # Nil
  /\ memo' = Nil
  /\ bodies' = [bodies EXCEPT !.disposed = @ + 1]
  /\ UNCHANGED <<agent, program, contexts, call, made, shadow, wrote>>

-----------------------------------------------------------------------------
(* connector.ts, execution.ts, write-guard.ts: one capability call.          *)

Building == [state |-> "building", scope |-> agent.turn, shadow |-> FALSE, record |-> 0, used |-> 0]

\* Fault: what is remembered is the built context, not the promise of one.
MemoIfReady == IF memo # Nil /\ contexts[memo].state = "ready" THEN memo ELSE Nil

Memo == memo

\* contextFor: the first call starts building, and all calls wait for that promise.
Invoke(k) ==
  /\ program \in {"running", "abandoned"} /\ made < MaxCalls
  /\ call[k] = IdleCall /\ \A j \in 1..(k - 1) : call[j] # IdleCall
  /\ made' = made + 1
  /\ LET known == Memo
         index == IF known = Nil THEN Len(contexts) + 1 ELSE known IN
     /\ contexts' = IF known = Nil THEN Append(contexts, Building) ELSE contexts
     /\ memo' = index
     /\ call' = [call EXCEPT ![k] = [pc |-> "context", context |-> index,
                                     late |-> Superseded, shadowed |-> shadow]]
  /\ UNCHANGED <<agent, program, shadow, bodies, wrote>>

\* #bindingContext after its D1 reads, with the record the object has now; or it throws,
\* and the memo keeps the rejected promise.
Built(i) ==
  /\ contexts[i].state = "building"
  /\ \/ contexts' = [contexts EXCEPT ![i].state = "ready", ![i].record = agent.turn, ![i].shadow = shadow]
     \/ contexts' = [contexts EXCEPT ![i].state = "broken"]
  /\ UNCHANGED <<agent, program, memo, call, made, shadow, bodies, wrote>>

Ends(k) == call' = [call EXCEPT ![k] = IdleCall]

Broken(k) ==
  /\ call[k].pc = "context" /\ contexts[call[k].context].state = "broken"
  /\ Ends(k)
  /\ UNCHANGED <<agent, program, memo, contexts, made, shadow, bodies, wrote>>

\* Fault: the guard is asked once, when the context is new.
FreshAtFirst(i) == contexts[i].used > 1 \/ ~Stale

\* assertFresh.
Fresh(i) == ~Stale

\* The call is counted and recorded as started, whatever comes of it; then the budget.
Enter(k) ==
  LET i == call[k].context IN
  /\ call[k].pc = "context" /\ contexts[i].state = "ready"
  /\ contexts' = [contexts EXCEPT ![i].used = @ + 1]
  /\ IF contexts[i].used + 1 <= Limit
     THEN call' = [call EXCEPT ![k].pc = "guard"]
     ELSE Ends(k)
  /\ UNCHANGED <<agent, program, memo, made, shadow, bodies, wrote>>

\* The guard, once the record of the start is kept.
AssertFresh(k) ==
  /\ call[k].pc = "guard"
  /\ IF Fresh(call[k].context) THEN call' = [call EXCEPT ![k].pc = "permit"] ELSE Ends(k)
  /\ UNCHANGED <<agent, program, memo, contexts, made, shadow, bodies, wrote>>

\* Fault: the scope's snapshot is trusted.
SnapshotShadow(i) == contexts[i].shadow

ShadowNow(i) == shadow

\* assertEffectPermitted: the policy of the run's channel, which may be any, then its shadow;
\* a read needs no permission, and the body begins.
Permit(k) ==
  /\ call[k].pc = "permit"
  /\ \E canPost \in BOOLEAN :
       \/ /\ canPost /\ ~ShadowNow(call[k].context)
          /\ call' = [call EXCEPT ![k].pc = "write"]
          /\ bodies' = [bodies EXCEPT !.run = @ + 1]
       \/ Ends(k) /\ (~canPost \/ ShadowNow(call[k].context)) /\ UNCHANGED bodies
       \/ Ends(k) /\ bodies' = [bodies EXCEPT !.run = @ + 1]
  /\ UNCHANGED <<agent, program, memo, contexts, made, shadow, wrote>>

\* The write leaves, and completed goes to the record of the context.
Perform(k) ==
  /\ call[k].pc = "write"
  /\ LET context == contexts[call[k].context] IN
     wrote' = [shadowed |-> call[k].shadowed, late |-> call[k].late, running |-> program = "running",
               own |-> program = "running" => context.scope = Own /\ context.record = Own]
  /\ Ends(k)
  /\ UNCHANGED <<agent, program, memo, contexts, made, shadow, bodies>>

-----------------------------------------------------------------------------
(* Specification.                                                          *)

ExecInit ==
  /\ agent = [turn |-> 0, live |-> FALSE, revision |-> 0, input |-> 0]
  /\ program = "none" /\ memo = Nil
  /\ contexts = <<>> /\ call = [k \in Calls |-> IdleCall]
  /\ made = 0 /\ shadow = FALSE
  /\ bodies = [run |-> 0, disposed |-> 0] /\ wrote = Nil

ExecNext ==
  /\ program # "over"
  /\ \/ BeginTurn \/ Supersede \/ EndTurn \/ Shadow \/ RunCode
     \/ ProgramReturns \/ Abandon \/ Dispose
     \/ \E k \in Calls :
          \/ Invoke(k) \/ Broken(k) \/ Enter(k) \/ AssertFresh(k) \/ Permit(k) \/ Perform(k)
     \/ \E i \in DOMAIN contexts : Built(i)

ExecSpec == ExecInit /\ [][ExecNext]_execVars

-----------------------------------------------------------------------------
(* Properties.                                                             *)

\* However its calls interleave, a program has one budget: more bodies run only for a
\* program that was given up and whose context was disposed of and built again.
OneBudget == bodies.run <= Limit * (1 + bodies.disposed)

\* A running program writes nothing it asked for after its turn was superseded.
StopsWhenSuperseded == wrote # Nil /\ wrote.running => ~wrote.late

\* A write asked for once the run is shadowed never leaves, whenever its context was built.
ShadowStopsWrites == wrote # Nil => ~wrote.shadowed

\* What a running program does is keyed and recorded, in the ledger and in the episode,
\* under its own turn.
OwnRecord == wrote # Nil => wrote.own

ExecutionSafe == OneBudget /\ StopsWhenSuperseded /\ ShadowStopsWrites /\ OwnRecord
=============================================================================
