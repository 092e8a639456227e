------------------------------- MODULE MCQueues -------------------------------
(* The open approvals as the dashboard and as the web application show them. *)
(* The two have the same variables; app says whose page is open.             *)
EXTENDS DashboardQueue, WebQueue

VARIABLE app

Applications == {"dashboard", "web"}

\* No page is open, and nothing moves.
QueuesIdle == app = Nothing /\ DashboardInit
QueuesInit == app \in Applications /\ DashboardInit

QueuesNext ==
  /\ \/ app = "dashboard" /\ DashboardNext
     \/ app = "web" /\ WebNext /\ UNCHANGED Here
  /\ UNCHANGED app

QueuesSpec == QueuesInit /\ [][QueuesNext]_<<app, dashboardVars>>

\* The fairness of the two modules, each for its own page.
DashboardPageFairness ==
  /\ WF_dashboardVars(app = "dashboard" /\ Patch /\ UNCHANGED Here)
  /\ WF_dashboardVars(app = "dashboard" /\ Poll)
  /\ SF_dashboardVars(app = "dashboard" /\ PollRead /\ UNCHANGED Here)
  /\ SF_dashboardVars(app = "dashboard" /\ PollArrives)
  /\ WF_dashboardVars(app = "dashboard" /\ ReconcileCard)
  /\ WF_dashboardVars(app = "dashboard" /\ (Learned \/ Failed))
  /\ WF_dashboardVars(app = "dashboard" /\ NameArrives)
  /\ WF_dashboardVars(app = "dashboard" /\ Expire /\ UNCHANGED Here)

WebPageFairness ==
  /\ WF_queueVars(app = "web" /\ Patch)
  /\ WF_queueVars(app = "web" /\ Refetch)
  /\ SF_queueVars(app = "web" /\ PollRead)
  /\ SF_queueVars(app = "web" /\ QueryArrives)
  /\ WF_queueVars(app = "web" /\ (DecideLearned \/ DecideFailed))
  /\ WF_queueVars(app = "web" /\ Expire)

QueuesFairness == DashboardPageFairness /\ WebPageFairness

\* What either page claims, and that no decision of it is submitted twice.
QueuesSafe ==
  /\ QueueTypeOK /\ OneRequestPerCard
  /\ IF app = "web" THEN NotesAreTruthful ELSE NotesAreTruthfulOrVague
=============================================================================
