------------------------------- MODULE WebQueue -------------------------------
(* The approvals queue of apps/web: the rows are a TanStack query, the       *)
(* decisions an overlay store.  A card that leaves the list is not asked for *)
(* again.                                                                    *)
EXTENDS ApprovalQueue

\* refetchInterval, focus and reconnect start a request unless one is under way.
Refetch ==
  /\ poll = Nothing /\ poll' = Asked
  /\ UNCHANGED <<decision, winner, rows, local, timer, request, clicks, lost>>

QueryArrives ==
  /\ poll \notin {Nothing, Asked}
  /\ rows' = poll.list /\ poll' = Nothing
  /\ UNCHANGED <<decision, winner, local, timer, request, clicks, lost>>

\* onSuccess: what was learned becomes a note, and the list is invalidated, which abandons
\* a request that is under way for a new one.
DecideLearned ==
  \E r \in request :
    /\ Answered(r) /\ r.answer.status # "error"
    /\ Resolve(r.card, r.answer.decision,
               IF r.answer.status = "decided" THEN Nothing ELSE r.answer.name,
               r.answer.status = "decided")
    /\ request' = request \ {r} /\ poll' = Asked
    /\ UNCHANGED <<decision, winner, rows, clicks, lost>>

\* failDecide: nothing was learned.
DecideFailed ==
  \E r \in request :
    /\ Answered(r) /\ r.answer.status = "error"
    /\ Fail(r.card) /\ request' = request \ {r}
    /\ UNCHANGED <<decision, winner, rows, poll, clicks, lost>>

WebNext ==
  \/ Opened \/ DecidedElsewhere \/ Patch \/ Lose
  \/ Refetch \/ PollRead \/ QueryArrives \/ PollFails
  \/ DecideCard \/ DecideLearned \/ DecideFailed \/ Expire

\* Requests are answered, the page polls on, and a poll succeeds again and again.
WebFairness ==
  /\ WF_queueVars(Patch) /\ WF_queueVars(Refetch)
  /\ SF_queueVars(PollRead) /\ SF_queueVars(QueryArrives)
  /\ WF_queueVars(DecideLearned \/ DecideFailed) /\ WF_queueVars(Expire)

WebSpec == QueueInit /\ [][WebNext]_queueVars /\ WebFairness
=============================================================================
