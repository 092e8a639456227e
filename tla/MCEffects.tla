------------------------------ MODULE MCEffects ------------------------------
(* What a capability call goes through, side by side: its execution, the    *)
(* ledger, the pull request an effect of it opens and the patch that one     *)
(* carries (MCFix), the pages on which its approval is decided (MCQueues),   *)
(* whose credentials are believed and used (MCReach), and what people look   *)
(* at again later (MCViews); part says which of them moves.  What            *)
(* PullRequest says of a failed call is what EffectLedger relies on.        *)
EXTENDS MCEffectLedger, Execution, MCReach, MCQueues, MCFix, MCViews

VARIABLE part

queue == <<app, dashboardVars>>

\* The roster has two fire-fighters.
Roster == <<"ann", "ben">>

EffectsInit ==
  /\ part \in {"ledger", "pull", "patch", "execution", "keys", "connections", "queues"}
           \cup ViewParts
  /\ Init /\ ExecInit /\ KeysInit /\ ConnectionsInit
  /\ part # "keys" => \A k \in Issued : born[k] = Null
  /\ IF part = "queues" THEN QueuesInit ELSE QueuesIdle
  /\ IF part = "pull" THEN PullInit ELSE PullIdle
  /\ IF part = "patch" THEN PatchInit ELSE PatchIdle
  /\ ViewsInit(part)

Moves ==
  \/ part = "ledger" /\ Next /\ UNCHANGED <<execVars, fixVars, reachVars, queue, viewVars>>
  \/ part = "execution" /\ ExecNext /\ UNCHANGED <<vars, fixVars, reachVars, queue, viewVars>>
  \/ part = "pull" /\ PullNext /\ UNCHANGED <<vars, execVars, patchVars, reachVars, queue, viewVars>>
  \/ part = "patch" /\ PatchNext /\ UNCHANGED <<vars, execVars, pullVars, reachVars, queue, viewVars>>
  \/ part = "keys" /\ KeysNext /\ UNCHANGED <<vars, execVars, fixVars, connectionVars, queue, viewVars>>
  \/ part = "connections" /\ ConnectionsNext
     /\ UNCHANGED <<vars, execVars, fixVars, keyVars, queue, viewVars>>
  \/ part = "queues" /\ QueuesNext /\ UNCHANGED <<vars, execVars, fixVars, reachVars, viewVars>>
  \/ part \in ViewParts /\ ViewsNext(part) /\ UNCHANGED <<vars, execVars, fixVars, reachVars, queue>>
  \* These come to an end; the ledger never does.
  \/ part # "ledger" /\ UNCHANGED <<vars, execVars, fixVars, reachVars, queue, viewVars>>

EffectsNext == Moves /\ UNCHANGED part

EffectsSpec ==
  EffectsInit /\ [][EffectsNext]_<<part, vars, execVars, fixVars, reachVars, queue, viewVars>>
=============================================================================
