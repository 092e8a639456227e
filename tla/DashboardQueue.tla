---------------------------- MODULE DashboardQueue ----------------------------
(* The approvals panel of apps/dashboard.  It asks what became of a card     *)
(* that left the list, once per card, and who won a decision it lost.        *)
EXTENDS ApprovalQueue

VARIABLES
  reconciled, \* cards whose disappearance was asked about
  asking,     \* those whose answer is out
  naming      \* cards whose winner's name is being asked for

dashboardVars == <<queueVars, reconciled, asking, naming>>

DashboardInit == QueueInit /\ reconciled = {} /\ asking = {} /\ naming = {}

Here == <<reconciled, asking, naming>>

\* usePoll starts a request every three seconds; an older one no longer counts.
Poll ==
  /\ poll' = Asked
  /\ UNCHANGED <<decision, winner, rows, local, timer, request, clicks, lost, Here>>

\* Cards of the previous list that are not in this one and have no decision of this browser
\* to explain it are held on screen and asked about.
Vanished(list) ==
  {c \in (IF rows = Nothing THEN {} ELSE rows) \ list :
     (local[c] # Nothing => local[c].kind = "open") /\ c \notin reconciled}

PollArrives ==
  /\ poll \notin {Nothing, Asked}
  /\ rows' = poll.list /\ poll' = Nothing
  /\ LET vanished == Vanished(poll.list)
     IN  /\ reconciled' = reconciled \cup vanished
         /\ asking' = asking \cup vanished
         /\ local' = [c \in CardIds |->
              IF c \in vanished /\ local[c] = Nothing THEN Entry("open") ELSE local[c]]
  /\ UNCHANGED <<decision, winner, timer, request, clicks, lost, naming>>

\* GET /api/approvals/:id says what became of the card.
ReconcileCard ==
  \E c \in asking :
    /\ Resolve(c, decision[c], winner[c], FALSE)
    /\ asking' = asking \ {c}
    /\ UNCHANGED <<decision, winner, rows, poll, request, clicks, lost, reconciled, naming>>

\* Without an answer the card is shown as withdrawn.
ReconcileFails ==
  \E c \in asking :
    /\ lost < MaxLost /\ lost' = lost + 1
    /\ Resolve(c, "withdrawn", Nothing, FALSE)
    /\ asking' = asking \ {c}
    /\ UNCHANGED <<decision, winner, rows, poll, request, clicks, reconciled, naming>>

Learned ==
  \E r \in request :
    /\ Answered(r) /\ r.answer.status # "error"
    /\ Resolve(r.card, r.answer.decision, Nothing, r.answer.status = "decided")
    /\ naming' = IF r.answer.status = "decided" THEN naming ELSE naming \cup {r.card}
    /\ request' = request \ {r}
    /\ UNCHANGED <<decision, winner, rows, poll, clicks, lost, reconciled, asking>>

Failed ==
  \E r \in request :
    /\ Answered(r) /\ r.answer.status = "error"
    /\ Fail(r.card) /\ request' = request \ {r}
    /\ UNCHANGED <<decision, winner, rows, poll, clicks, lost, Here>>

\* The name is filled in on a note that has none; a failure shows nothing.
NameArrives ==
  \E c \in naming, failed \in BOOLEAN :
    /\ naming' = naming \ {c}
    /\ local' = IF ~failed /\ winner[c] # Nothing /\ IsNote(c) /\ local[c].name = Nothing
                  THEN [local EXCEPT ![c].name = winner[c]] ELSE local
    /\ UNCHANGED <<decision, winner, rows, poll, timer, request, clicks, lost, reconciled, asking>>

Shared == Opened \/ DecidedElsewhere \/ Patch \/ Lose \/ PollRead \/ PollFails \/ DecideCard \/ Expire

DashboardNext ==
  \/ Shared /\ UNCHANGED Here
  \/ Poll \/ PollArrives \/ ReconcileCard \/ ReconcileFails \/ Learned \/ Failed \/ NameArrives

\* Requests are answered, and a poll is answered before the next one again and again.
DashboardFairness ==
  /\ WF_dashboardVars(Patch /\ UNCHANGED Here) /\ WF_dashboardVars(Poll)
  /\ SF_dashboardVars(PollRead /\ UNCHANGED Here) /\ SF_dashboardVars(PollArrives)
  /\ WF_dashboardVars(ReconcileCard) /\ WF_dashboardVars(Learned \/ Failed) /\ WF_dashboardVars(NameArrives)
  /\ WF_dashboardVars(Expire /\ UNCHANGED Here)

DashboardSpec == DashboardInit /\ [][DashboardNext]_dashboardVars /\ DashboardFairness

\* Notes are truthful, but for the "withdrawn" of a card whose fate was asked for in vain,
\* which claims nothing for this browser and names no one but the winner.
NotesAreTruthfulOrVague ==
  \A c \in CardIds :
    IsNote(c) =>
      \/ Truthful(c)
      \/ /\ IsDecided(c) /\ c \in reconciled
         /\ local[c].name \in {Nothing, winner[c]}
         /\ local[c] = [Note("withdrawn", Nothing, FALSE) EXCEPT !.name = local[c].name]
=============================================================================
