---------------------------- MODULE MemoryOutbox ----------------------------
(***************************************************************************)
(* One finished turn's episode on its way to the memory vendor (Zep).      *)
(*                                                                         *)
(* The run's Durable Object writes an outbox row and sends a job; queue    *)
(* consumers claim the row under a token and a lease, ask Zep for an       *)
(* episode, and write back under that token; a cron sweep sends the job    *)
(* again while the row is due.  Zep has no idempotency key.                *)
(*                                                                         *)
(* A claim raises the attempt counter in the UPDATE that draws its random  *)
(* token, so the attempt's number stands for the token, and for the uuid   *)
(* of the episode which that claim may add.  Every statement names its row *)
(* by id, so one row is enough.                                            *)
(***************************************************************************)
EXTENDS Naturals, FiniteSets

CONSTANTS
  Consumers,    \* queue consumers that may be at work at once
  MaxFailures   \* bound: lost calls, crashes and overrun leases

ASSUME FailuresAssumption == MaxFailures \in Nat

VARIABLES
  state,      \* D1: agent_memory_outbox.state, or "absent"
  token,      \* D1: claim_token, 0 for null
  attempts,   \* D1: attempts
  uuid,       \* D1: episode_uuid, 0 for null
  waiting,    \* D1: the lease or the backoff has not run out yet
  sources,    \* D1: episodes with rows in memory_episode_sources
  parses,     \* D1: episode_json is well formed (this build can read it)
  inflight,   \* requests to graph.add that may still take effect
  zep,        \* Zep: the episodes that exist
  queued,     \* a job for the row is in the queue
  consumer,   \* what each consumer is doing
  handoff,    \* RunAgent: between the row and the send
  reported,   \* a possible duplicate was logged
  failures

d1 == <<state, token, attempts, uuid, waiting, sources, parses>>
vendor == <<inflight, zep>>
vars == <<d1, vendor, queued, consumer, handoff, reported, failures>>

States == {"absent", "pending", "projecting", "projected", "retry", "failed"}
PCs == {"idle", "poison", "add", "answer", "retry", "record", "finish"}

Free == [pc |-> "idle", attempt |-> 0, episode |-> 0]
At(c, pc) == consumer[c].pc = pc
Goto(c, pc) == consumer' = [consumer EXCEPT ![c].pc = pc]
Return(c) == consumer' = [consumer EXCEPT ![c] = Free]
Lapse == failures < MaxFailures /\ failures' = failures + 1

-----------------------------------------------------------------------------
(* The handoff at the end of a turn.                                       *)

\* ensureOutboxRow: ON CONFLICT DO NOTHING, so a repeated turn end adds nothing.
EnsureRow ==
  /\ handoff = "idle"
  /\ handoff' = "send"
  /\ state' = IF state = "absent" THEN "pending" ELSE state
  /\ UNCHANGED <<token, attempts, uuid, waiting, sources, parses, vendor, queued,
                 consumer, reported, failures>>

SendJob ==
  /\ handoff = "send"
  /\ handoff' = "idle"
  /\ queued' = TRUE
  /\ UNCHANGED <<d1, vendor, consumer, reported, failures>>

\* The send throws (rememberTurn swallows it), or the object is evicted.
SendFails ==
  /\ handoff = "send"
  /\ handoff' = "idle"
  /\ Lapse
  /\ UNCHANGED <<d1, vendor, queued, consumer, reported>>

-----------------------------------------------------------------------------
(* The claim.                                                              *)

\* Fault: a row being projected is claimed whatever its lease.
ClaimableAlways ==
  \/ state \in {"pending", "retry"} /\ ~waiting
  \/ state = "projecting"

\* claimOutboxRow's WHERE.
Claimable == state \in {"pending", "retry", "projecting"} /\ ~waiting

\* Fault: the sweep forgets the rows whose claimant died.
DueUnclaimed == state \in {"pending", "retry"} /\ ~waiting

\* listDueOutboxRows
Due == state \in {"pending", "retry", "projecting"} /\ ~waiting

\* sweepMemoryOutbox, for this row.
Sweep ==
  /\ Due
  /\ queued' = TRUE
  /\ UNCHANGED <<d1, vendor, consumer, handoff, reported, failures>>

\* What a fresh claim does first.
FirstStep == IF ~parses THEN "poison" ELSE IF uuid # 0 THEN "finish" ELSE "add"

\* Fault: the uuid that an earlier attempt recorded is not looked at.
ClaimForgetting(c) ==
  /\ At(c, "idle") /\ queued
  /\ Claimable
  /\ state' = "projecting" /\ waiting' = TRUE
  /\ attempts' = attempts + 1 /\ token' = attempts + 1
  /\ consumer' = [consumer EXCEPT ![c] =
       [pc |-> IF parses THEN "add" ELSE "poison", attempt |-> attempts + 1, episode |-> 0]]
  /\ queued' \in BOOLEAN
  /\ UNCHANGED <<uuid, sources, parses, vendor, handoff, reported, failures>>

\* claimOutboxRow, and the uuid to resume from if an earlier attempt left one.
\* The queue may deliver the job again.
Claim(c) ==
  /\ At(c, "idle") /\ queued
  /\ Claimable
  /\ state' = "projecting" /\ waiting' = TRUE
  /\ attempts' = attempts + 1 /\ token' = attempts + 1
  /\ consumer' = [consumer EXCEPT ![c] =
       [pc |-> FirstStep, attempt |-> attempts + 1, episode |-> uuid]]
  /\ queued' \in BOOLEAN
  /\ UNCHANGED <<uuid, sources, parses, vendor, handoff, reported, failures>>

\* not_claimable: the job is acknowledged.
Ignore(c) ==
  /\ At(c, "idle") /\ queued
  /\ ~Claimable
  /\ queued' = FALSE
  /\ UNCHANGED <<d1, vendor, consumer, handoff, reported, failures>>

\* The queue gives up on a job: it is in the dead-letter queue.
LoseJob ==
  /\ queued
  /\ queued' = FALSE
  /\ Lapse
  /\ UNCHANGED <<d1, vendor, consumer, handoff, reported>>

Held == \E c \in Consumers : consumer[c].attempt = token

BackoffEnds ==
  /\ state = "retry" /\ waiting
  /\ waiting' = FALSE
  /\ UNCHANGED <<state, token, attempts, uuid, sources, parses, vendor, queued, consumer,
                 handoff, reported, failures>>

LeaseExpires ==
  /\ state = "projecting" /\ waiting
  /\ ~Held
  /\ waiting' = FALSE
  /\ UNCHANGED <<state, token, attempts, uuid, sources, parses, vendor, queued, consumer,
                 handoff, reported, failures>>

\* The claimant is alive, but slower than its lease.
LeaseOverrun ==
  /\ state = "projecting" /\ waiting
  /\ Held
  /\ waiting' = FALSE
  /\ Lapse
  /\ UNCHANGED <<state, token, attempts, uuid, sources, parses, vendor, queued, consumer,
                 handoff, reported>>

-----------------------------------------------------------------------------
(* The projection.                                                         *)

\* addEpisode sends one request, without a retry of its own.
Add(c) ==
  /\ At(c, "add")
  /\ inflight' = inflight \cup {consumer[c].attempt}
  /\ Goto(c, "answer")
  /\ UNCHANGED <<d1, zep, queued, handoff, reported, failures>>

\* The request takes effect, perhaps long after its sender gave up or died.
Land(a) ==
  /\ a \in inflight
  /\ inflight' = inflight \ {a}
  /\ zep' = zep \cup {a}
  /\ UNCHANGED <<d1, queued, consumer, handoff, reported, failures>>

\* Fault: only the third attempt is taken for a possible duplicate.
AnsweredSilently(c) ==
  /\ At(c, "answer") /\ consumer[c].attempt \in zep
  /\ consumer' = [consumer EXCEPT ![c].pc = "record", ![c].episode = consumer[c].attempt]
  /\ reported' = (reported \/ consumer[c].attempt > 2)
  /\ UNCHANGED <<d1, vendor, queued, handoff, failures>>

\* Zep answers with the uuid; a repeated attempt is logged.
Answered(c) ==
  /\ At(c, "answer") /\ consumer[c].attempt \in zep
  /\ consumer' = [consumer EXCEPT ![c].pc = "record", ![c].episode = consumer[c].attempt]
  /\ reported' = (reported \/ consumer[c].attempt > 1)
  /\ UNCHANGED <<d1, vendor, queued, handoff, failures>>

\* ensureGraph throws before the request, or the request is refused or timed out.
AddThrows(c) ==
  /\ At(c, "add") \/ At(c, "answer")
  /\ Goto(c, "retry")
  /\ Lapse
  /\ UNCHANGED <<d1, vendor, queued, handoff, reported>>

\* fencedToClaim
Owns(c) == state = "projecting" /\ token = consumer[c].attempt

\* retryOutboxRow
Retry(c) ==
  /\ At(c, "retry")
  /\ IF Owns(c)
       THEN state' = "retry" /\ token' = 0 /\ waiting' = TRUE
       ELSE UNCHANGED <<state, token, waiting>>
  /\ Return(c)
  /\ UNCHANGED <<attempts, uuid, sources, parses, vendor, queued, handoff, reported, failures>>

\* poisonOutboxRow
Poison(c) ==
  /\ At(c, "poison")
  /\ IF Owns(c)
       THEN state' = "failed" /\ token' = 0 /\ waiting' = FALSE
       ELSE UNCHANGED <<state, token, waiting>>
  /\ Return(c)
  /\ UNCHANGED <<attempts, uuid, sources, parses, vendor, queued, handoff, reported, failures>>

\* Fault: the uuid is written without the fence.
RecordUnfenced(c) ==
  /\ At(c, "record")
  /\ uuid' = consumer[c].episode
  /\ IF Owns(c) THEN Goto(c, "finish") ELSE Return(c)
  /\ UNCHANGED <<state, token, attempts, waiting, sources, parses, vendor, queued, handoff,
                 reported, failures>>

\* recordEpisodeUuid: a stale claimant stops here.
Record(c) ==
  /\ At(c, "record")
  /\ IF Owns(c)
       THEN uuid' = consumer[c].episode /\ Goto(c, "finish")
       ELSE UNCHANGED uuid /\ Return(c)
  /\ UNCHANGED <<state, token, attempts, waiting, sources, parses, vendor, queued, handoff,
                 reported, failures>>

\* finishProjection: the provenance rows and the completion are one batch.
Finish(c) ==
  /\ At(c, "finish")
  /\ IF Owns(c)
       THEN /\ sources' = sources \cup {consumer[c].episode}
            /\ uuid' = consumer[c].episode
            /\ state' = "projected" /\ token' = 0 /\ waiting' = FALSE
       ELSE UNCHANGED <<sources, uuid, state, token, waiting>>
  /\ Return(c)
  /\ UNCHANGED <<attempts, parses, vendor, queued, handoff, reported, failures>>

\* The isolate is evicted, or a D1 call throws: the job may be delivered again.
Die(c) ==
  /\ ~At(c, "idle")
  /\ Return(c)
  /\ queued' \in {queued, TRUE}
  /\ Lapse
  /\ UNCHANGED <<d1, vendor, handoff, reported>>

-----------------------------------------------------------------------------
Init ==
  /\ state = "absent" /\ token = 0 /\ attempts = 0 /\ uuid = 0 /\ waiting = FALSE
  /\ sources = {} /\ parses \in BOOLEAN
  /\ inflight = {} /\ zep = {}
  /\ queued = FALSE
  /\ consumer = [c \in Consumers |-> Free]
  /\ handoff = "idle"
  /\ reported = FALSE
  /\ failures = 0

Deliver(c) == Claim(c) \/ Ignore(c)

Write(c) == Retry(c) \/ Poison(c) \/ Record(c) \/ Finish(c)

Step(c) == Add(c) \/ Answered(c) \/ Write(c)

Handoff == EnsureRow \/ SendJob \/ SendFails

Time == BackoffEnds \/ LeaseExpires

Next ==
  \/ Handoff \/ Sweep \/ LoseJob \/ Time \/ LeaseOverrun
  \/ \E c \in Consumers : Deliver(c) \/ Step(c) \/ AddThrows(c) \/ Die(c)
  \/ \E a \in inflight : Land(a)

Spec == Init /\ [][Next]_vars

\* The cron fires every minute, the queue delivers, time passes, claimants run
\* on, and Zep answers once it has stopped failing (MaxFailures).
Fairness ==
  /\ WF_vars(Sweep)
  /\ WF_vars(Time)
  /\ WF_vars(\E a \in inflight : Land(a))
  /\ WF_vars(\E c \in Consumers : Deliver(c))
  /\ \A c \in Consumers : WF_vars(Step(c))

FairSpec == Spec /\ Fairness

-----------------------------------------------------------------------------
(* Properties.                                                             *)

TypeOK ==
  /\ state \in States
  /\ token \in Nat /\ attempts \in Nat /\ uuid \in Nat
  /\ waiting \in BOOLEAN /\ parses \in BOOLEAN
  /\ sources \subseteq Nat /\ inflight \subseteq Nat /\ zep \subseteq Nat
  /\ queued \in BOOLEAN
  /\ consumer \in [Consumers -> [pc : PCs, attempt : Nat, episode : Nat]]
  /\ handoff \in {"idle", "send"}
  /\ reported \in BOOLEAN
  /\ failures \in Nat

\* D1 stays exact: whatever late claimants do, there is provenance for the
\* recorded episode only, and a projected row has a real episode and its
\* provenance (recordEpisodeUuid, finishProjection).
ProvenanceExact ==
  /\ sources \subseteq {uuid}
  /\ uuid # 0 => uuid \in zep
  /\ state = "projected" => uuid # 0 /\ uuid \in sources

\* Once an attempt recorded its episode, later attempts resume from it, late
\* answers do not replace it, and a repeated handoff does not undo it.
EpisodeFinal ==
  [][/\ uuid # 0 => uuid' = uuid
     /\ state \in {"projected", "failed"} => state' = state]_vars

\* A second physical episode is never hidden once the row names one of them
\* (duplicateEpisodeRisk, "Reported, never hidden").
DuplicatesReported ==
  uuid # 0 => \A a, b \in zep : a # b => reported

\* Repeated jobs, sweeps and consumers do not add a second episode: that takes
\* a lost call, a crash or an overrun lease (claimOutboxRow).
OneEpisodeWithoutFailure ==
  failures = 0 => \A a, b \in zep \cup inflight : a = b

\* The row ends projected, or failed if it is malformed, although jobs are
\* lost and claimants die (memory/sweeper.ts).
EpisodeDelivered ==
  state = "pending" ~> state = IF parses THEN "projected" ELSE "failed"
=============================================================================
