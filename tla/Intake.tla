------------------------------- MODULE Intake -------------------------------
(***************************************************************************)
(* The messages of one Slack thread, from the webhook to the run: ingest,   *)
(* triage and the memory of messages are queue consumers that may see a job *)
(* again or at the same time, and meet only in D1 and in the run's queue of *)
(* turns.                                                                  *)
(***************************************************************************)
EXTENDS Naturals, FiniteSets

CONSTANTS
  Customers,    \* events of customers' messages
  Own,          \* events of this app's own posts
  Workers,      \* invocations that consume the queues
  MaxEvents,    \* bound: events that come in
  IntakeFailures   \* bound: edits of the channel, calls that throw, sends that fail, workers that die

VARIABLES
  jobs,      \* the three queues: a job stays until it is acknowledged
  worker,    \* what each worker is doing
  seen,      \* events_seen
  messages,  \* messages
  channel,   \* channels.mode, or "unknown"
  decision,  \* triage_decisions.wake
  run,       \* the run of the thread: runs.status, or "none"
  shadow,    \* runs.shadow
  admitted,  \* turns the run's object has admitted, by idempotency key
  mapped,    \* zep_episodes
  episodes,  \* Zep: episodes of each message
  past       \* what has come in, what was lost, and what the properties ask for

intakeD1 == <<seen, messages, channel, decision, run, shadow, mapped>>
intakeVars == <<jobs, worker, intakeD1, admitted, episodes, past>>

Events == Customers \cup Own
Active == {"live", "awaiting_approval", "idle"}
Idle == [pc |-> "idle", event |-> "none", policy |-> "unknown", wake |-> FALSE]

Job(queue, e) == [queue |-> queue, event |-> e]

\* classify: an own post is kept and never triaged; other apps' posts, direct
\* messages and edits are dropped and are not modelled further.
Outcome(e) == IF e \in Own THEN "ingested_self" ELSE "ingested"

\* shouldTriage and graphIdFor: a derived slug makes every registered channel a
\* customer's, until a human makes it internal.
ShouldTriage(mode) == mode \in {"observe", "live"}
CanPost(mode) == mode = "live"

Goes(w, pc) == worker' = [worker EXCEPT ![w].pc = pc]
Fails == past.failures < IntakeFailures

\* The job is done, and acknowledged.
Ack(w, queue) ==
  /\ worker' = [worker EXCEPT ![w] = Idle]
  /\ jobs' = jobs \ {Job(queue, worker[w].event)}

-----------------------------------------------------------------------------
(* The webhook, and the queues.                                            *)

\* slackEvents: Slack sends an event once, or again when it had no answer.
Receive(e) ==
  /\ Job("ingest", e) \notin jobs
  /\ e \in past.came => Fails
  /\ Cardinality(past.came \cup {e}) <= MaxEvents
  /\ jobs' = jobs \cup {Job("ingest", e)}
  /\ past' = [past EXCEPT !.came = @ \cup {e}, !.failures = IF e \in past.came THEN @ + 1 ELSE @]
  /\ UNCHANGED <<worker, intakeD1, admitted, episodes>>

FirstStepOf == [ingest |-> "record", triage |-> "decided", memory |-> "mapped"]

\* A delivery; handleIngestBatch reads the channel's policy first.  A second worker
\* on one job is a redelivery.
Take(w, job) ==
  /\ worker[w].pc = "idle" /\ job \in jobs
  /\ worker' = [worker EXCEPT ![w] = [Idle EXCEPT !.pc = FirstStepOf[job.queue], !.event = job.event,
                                               !.policy = channel]]
  /\ LET again == \E v \in Workers : worker[v].event = job.event /\ worker[v].pc # "idle" IN
     /\ again => Fails
     /\ past' = [past EXCEPT !.failures = IF again THEN @ + 1 ELSE @,
                          !.overlapped = IF again THEN @ \cup {job.event} ELSE @]
  /\ UNCHANGED <<jobs, intakeD1, admitted, episodes>>

\* Fault: a message of the batch that threw is acknowledged.
AckAll(w) ==
  jobs' = jobs \ {Job("triage", worker[w].event)}

\* message.retry(), or the batch is delivered again.
Redeliver(w) == UNCHANGED jobs

\* A call throws, or the worker dies; a message between its event record and its
\* jobs is lost, as its next delivery is not a first sighting.
Throw(w) ==
  /\ worker[w].pc # "idle" /\ Fails
  /\ Redeliver(w)
  /\ worker' = [worker EXCEPT ![w] = Idle]
  /\ past' = [past EXCEPT !.failures = @ + 1,
       !.lost = IF worker[w].pc \in {"register", "insert", "send"} THEN @ \cup {worker[w].event} ELSE @]
  /\ UNCHANGED <<intakeD1, admitted, episodes>>

-----------------------------------------------------------------------------
(* Ingest.                                                                 *)

\* recordEvent: the row decides which delivery is the first sighting.
RecordEvent(w) ==
  /\ worker[w].pc = "record"
  /\ IF worker[w].event \in seen
     THEN Ack(w, "ingest") /\ UNCHANGED seen
     ELSE /\ seen' = seen \cup {worker[w].event}
          /\ Goes(w, IF worker[w].policy = "unknown" THEN "register" ELSE "insert")
          /\ UNCHANGED jobs
  /\ UNCHANGED <<messages, channel, decision, run, shadow, mapped, admitted, episodes, past>>

\* registerChannel: live, with a derived slug, unless Slack does not say what the
\* channel is.
RegisterChannel(w) ==
  /\ worker[w].pc = "register"
  /\ channel' \in IF channel = "unknown" THEN {"live", "unknown"} ELSE {channel}
  /\ channel' = "unknown" => Fails
  /\ past' = [past EXCEPT !.failures = IF channel' = "unknown" THEN @ + 1 ELSE @]
  /\ worker' = [worker EXCEPT ![w].pc = "insert", ![w].policy = channel']
  /\ UNCHANGED <<jobs, seen, messages, decision, run, shadow, mapped, admitted, episodes>>

InsertMessage(w) ==
  /\ worker[w].pc = "insert"
  /\ messages' = messages \cup {worker[w].event}
  /\ Goes(w, "send")
  /\ UNCHANGED <<jobs, seen, channel, decision, run, shadow, mapped, admitted, episodes, past>>

\* The jobs the message calls for; a send that throws is swallowed.
SendJobs(w) ==
  /\ worker[w].pc = "send"
  /\ LET e == worker[w].event
         wanted == {Job("memory", e)} \cup
                   IF Outcome(e) = "ingested" /\ ShouldTriage(worker[w].policy)
                   THEN {Job("triage", e)} ELSE {} IN
     \E sent \in SUBSET wanted :
       /\ sent # wanted => Fails
       /\ jobs' = (jobs \cup sent) \ {Job("ingest", e)}
       /\ past' = [past EXCEPT
            !.failures = IF sent # wanted THEN @ + 1 ELSE @,
            !.lost = IF Job("triage", e) \in sent THEN @ ELSE @ \cup {e}]
  /\ worker' = [worker EXCEPT ![w] = Idle]
  /\ UNCHANGED <<intakeD1, admitted, episodes>>

-----------------------------------------------------------------------------
(* Triage.                                                                 *)

\* triageOne: a decision of an earlier delivery stands; a message whose channel is
\* no customer's is left alone.
Decided(w) ==
  /\ worker[w].pc = "decided"
  /\ LET e == worker[w].event IN
     \/ decision[e] = "quiet" /\ Ack(w, "triage") /\ UNCHANGED past
     \/ decision[e] = "wake" /\ Goes(w, "ensure") /\ UNCHANGED <<jobs, past>>
     \/ /\ decision[e] = "none" /\ e \in messages /\ ShouldTriage(channel)
        /\ Goes(w, "owned") /\ UNCHANGED <<jobs, past>>
     \/ /\ decision[e] = "none" /\ (e \notin messages \/ ~ShouldTriage(channel))
        /\ past' = [past EXCEPT !.lost = @ \cup {e}]
        /\ Ack(w, "triage")
  /\ UNCHANGED <<intakeD1, admitted, episodes>>

\* routeToOwnedRun: the thread has a run that is not over.
FindOwned(w) ==
  /\ worker[w].pc = "owned"
  /\ Goes(w, IF run \in Active THEN "ensure" ELSE "judge")
  /\ UNCHANGED <<jobs, intakeD1, admitted, episodes, past>>

\* The model's verdict, or the thread was abandoned by a run that failed.
JudgeMessage(w) ==
  /\ worker[w].pc = "judge"
  /\ \E wake \in {TRUE, run = "failed"} :
       worker' = [worker EXCEPT ![w].pc = "decide", ![w].wake = wake]
  /\ UNCHANGED <<jobs, intakeD1, admitted, episodes, past>>

\* The first decision is kept; the worker goes by its own.
Decide(w) ==
  /\ worker[w].pc = "decide"
  /\ LET e == worker[w].event
         verdict == IF worker[w].wake THEN "wake" ELSE "quiet" IN
     decision' = [decision EXCEPT ![e] = IF @ = "none" THEN verdict ELSE @]
  /\ IF worker[w].wake THEN Goes(w, "ensure") /\ UNCHANGED jobs ELSE Ack(w, "triage")
  /\ UNCHANGED <<seen, messages, channel, run, shadow, mapped, admitted, episodes, past>>

\* ensureSlackRunRowUnderPolicy: the policy is read again on every wake.
ReadPolicy(w) ==
  /\ worker[w].pc = "ensure"
  /\ worker' = [worker EXCEPT ![w].pc = "row", ![w].policy = channel]
  /\ UNCHANGED <<jobs, intakeD1, admitted, episodes, past>>

\* Fault: the row's shadow is what it was created with.
ShadowAtBirth(mode) == shadow' = IF run = "none" THEN ~CanPost(mode) ELSE shadow

\* The statements of createOrGetRunUnderPolicy: shadow is set and never cleared.
RatchetShadow(mode) == shadow' = (shadow \/ ~CanPost(mode))

\* createOrGetRunUnderPolicy, under the policy read before.
EnsureRunRow(w) ==
  /\ worker[w].pc = "row"
  /\ RatchetShadow(worker[w].policy)
  /\ run' = IF run = "none" THEN "idle" ELSE run
  /\ Goes(w, "submit")
  /\ UNCHANGED <<jobs, seen, messages, channel, decision, mapped, admitted, episodes, past>>

\* submitTurn: bindRun, noteInput and runTurn under the key slack:<event>.
SubmitTurn(w) ==
  /\ worker[w].pc = "submit"
  /\ admitted' = admitted \cup {worker[w].event}
  /\ past' = [past EXCEPT !.muted = @ \/ ~CanPost(worker[w].policy)]
  /\ Ack(w, "triage")
  /\ UNCHANGED <<intakeD1, episodes>>

-----------------------------------------------------------------------------
(* The memory of messages.                                                 *)

\* projectOne: the mapping says that the message is remembered.
CheckMapping(w) ==
  /\ worker[w].pc = "mapped"
  /\ LET e == worker[w].event IN
     IF e \in mapped \/ e \notin messages \/ channel = "unknown"
     THEN Ack(w, "memory")
     ELSE Goes(w, "add") /\ UNCHANGED jobs
  /\ UNCHANGED <<intakeD1, admitted, episodes, past>>

AddEpisode(w) ==
  /\ worker[w].pc = "add"
  /\ episodes' = [episodes EXCEPT ![worker[w].event] = @ + 1]
  /\ Goes(w, "map")
  /\ UNCHANGED <<jobs, intakeD1, admitted, past>>

MapEpisode(w) ==
  /\ worker[w].pc = "map"
  /\ mapped' = mapped \cup {worker[w].event}
  /\ Ack(w, "memory")
  /\ UNCHANGED <<seen, messages, channel, decision, run, shadow, admitted, episodes, past>>

-----------------------------------------------------------------------------
(* What others do.                                                         *)

\* A human edits channels.mode; sweepChannelMembership registers a channel.
SetMode(mode) ==
  /\ channel # mode /\ Fails
  /\ channel' = mode
  /\ past' = [past EXCEPT !.failures = @ + 1]
  /\ UNCHANGED <<jobs, worker, seen, messages, decision, run, shadow, mapped, admitted, episodes>>

\* The run's turn ends well or badly (RunTurns).
RunMoves ==
  /\ run \in Active /\ admitted # {}
  /\ run' = "failed"
  /\ UNCHANGED <<jobs, worker, seen, messages, channel, decision, shadow, mapped, admitted,
                 episodes, past>>

-----------------------------------------------------------------------------
(* Specification.                                                          *)

IntakeInit ==
  /\ jobs = {} /\ worker = [w \in Workers |-> Idle]
  /\ seen = {} /\ messages = {} /\ channel = "unknown"
  /\ decision = [e \in Events |-> "none"]
  /\ run = "none" /\ shadow = FALSE /\ admitted = {}
  /\ mapped = {} /\ episodes = [e \in Events |-> 0]
  /\ past = [came |-> {}, lost |-> {}, failures |-> 0, overlapped |-> {}, muted |-> FALSE]

Work(w) ==
  \/ RecordEvent(w) \/ RegisterChannel(w) \/ InsertMessage(w) \/ SendJobs(w)
  \/ Decided(w) \/ FindOwned(w) \/ JudgeMessage(w) \/ Decide(w)
  \/ ReadPolicy(w) \/ EnsureRunRow(w) \/ SubmitTurn(w)
  \/ CheckMapping(w) \/ AddEpisode(w) \/ MapEpisode(w)

IntakeNext ==
  \/ \E e \in Events : Receive(e)
  \/ \E w \in Workers : (\E job \in jobs : Take(w, job)) \/ Work(w) \/ Throw(w)
  \/ \E mode \in {"observe", "live", "internal"} : SetMode(mode)
  \/ RunMoves

IntakeSpec == IntakeInit /\ [][IntakeNext]_intakeVars

\* Workers go on, and while a job waits some job is delivered.
IntakeFairness ==
  /\ \A w \in Workers : WF_intakeVars(Work(w))
  /\ WF_intakeVars(\E w \in Workers : \E job \in jobs : Take(w, job))

-----------------------------------------------------------------------------
(* Properties.                                                             *)

IntakeTypeOK ==
  /\ jobs \subseteq [queue : DOMAIN FirstStepOf, event : Events]
  /\ worker \in [Workers ->
       [pc : {"idle", "record", "register", "insert", "send", "decided", "owned", "judge",
              "decide", "ensure", "row", "submit", "mapped", "add", "map"},
        event : Events \cup {"none"}, policy : {"unknown", "observe", "live", "internal"},
        wake : BOOLEAN]]
  /\ seen \subseteq Events /\ messages \subseteq seen /\ mapped \subseteq messages
  /\ channel \in {"unknown", "observe", "live", "internal"}
  /\ decision \in [Events -> {"none", "wake", "quiet"}]
  /\ run \in Active \cup {"none", "failed", "done"} /\ shadow \in BOOLEAN
  /\ admitted \subseteq Events /\ episodes \in [Events -> Nat]

\* Once a turn was submitted whose wake had read a channel that could not be posted to,
\* the run stays a shadow run, whatever the channel becomes and whichever of two wakes
\* creates the row.
MutedStaysShadow == past.muted => shadow

\* A message that was decided to be quiet wakes nothing, unless two deliveries of its
\* job were at work at once: each then acts on what it saw itself.
QuietWakesNothing ==
  \A e \in Events : decision[e] = "quiet" /\ e \in admitted => e \in past.overlapped

\* Without a failure or a redelivery a message becomes one episode.
OneEpisodePerMessage == past.failures = 0 => \A e \in Events : episodes[e] <= 1

IntakeSafe == MutedStaysShadow /\ QuietWakesNothing /\ OneEpisodePerMessage

\* A customer's message is decided or routed to the run of its thread in the end,
\* unless it was lost between its event record and its job, or its channel is no
\* customer's: retries make up for everything else.
EveryMessageDecided ==
  \A e \in Customers :
    e \in past.came ~> decision[e] = "quiet" \/ e \in admitted \/ e \in past.lost
=============================================================================
