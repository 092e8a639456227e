# Formal models of the AI firefighter worker

These modules specify the part of the repository that must not go wrong: the Cloudflare Worker in
`src/apps/worker`, which reads Slack, wakes an agent run, lets the agent's programs act on the outside
world, asks humans before a customer sees anything, and remembers what happened; and the pages of
`src/apps/dashboard` and `src/apps/web` on which humans answer it. TLC checks small instances; TLAPS
proves the safety properties of these modules for every value of the constants.

Paths below are relative to `src/apps/worker/src`, or to `src/apps` where they begin with `dashboard` or `web`.

## 1. Inventory

| Component | State it keeps | Operations | What is hard | What makes it correct |
|---|---|---|---|---|
| Approvals (`approval/`, `api/approvals.ts`) | D1 `approvals`: decision, delivery, shadow, resolution mark | escalate, decide, withdraw, deliver, sweep | clicks, sweeps, programs and alarms race on one row; invocations die between a Slack post and its record | one verdict, one post at most, truthful delivery, no click lost |
| Run agent (`run/agent.ts`, `run/wake.ts`) | Durable Object: `openApprovalId`, `inputRevision`, turns, schedules | wake, noteInput, submit, turn hooks, park, expire, steer, cancel | turns superseded while they run, eviction, alarms | a stale turn acts no more, parking ends |
| Effect ledger (`capabilities/effects.ts`) | D1 `codemode_effects` | runEffect | retries of a program, isolates that die holding a reservation | an effect takes place once at most, rows tell the truth, calls return |
| External writes (`capabilities/namespaces`, `linear/`, `slack/gateway.ts`) | none of their own | reply, file, pull request, issue, update | lost answers, inexact lookups | errors are classified by what they prove |
| Memory outbox (`memory/`, `run/agent-memory.ts`) | D1 `agent_memory_outbox`, `memory_episode_sources` | handoff, claim, project, sweep | leases that run out under a live claimant, no idempotency key upstream | D1 exact, duplicates reported, delivery in the end |
| Ingest and triage (`ingest/`, `triage/`, `run/wake.ts`) | D1 `events_seen`, `messages`, `triage_decisions`, `runs` | consume, register, decide, wake | redelivery and crashes between two statements, policies that change meanwhile | no message undecided, a muted run stays muted |
| Status, steering, spend (`run/agent-*.ts`, `run/repository.ts`) | D1 `runs`, the steer queue, the projection queue | project, steer, stop, bill | projections lost or late, steers replayed, recovery | the row agrees with the object, an input is shown once, spending is bounded |
| Nudges (`notify/`) | D1 nudge columns | claim, send, record, release, rewrite | alarm against overlapping sweeps, ambiguous posts | no page after a confirmed one, no dead link |
| Program execution (`capabilities/connector.ts`, `executor.ts`, `execution.ts`, `write-guard.ts`) | the context of one execution | build, count, guard, dispose | parallel first calls, programs that outlive their turn | one budget, no stale write, no write of a muted run |
| Sandbox (`sandbox/`) | a container, maps of an isolate, D1 `runs` | boot, relaunch, tear down, sweep | boot against teardown, sweeps, evictions | commands meet a provisioned machine, nothing is left up |
| Recording (`sandbox/record.ts`, `harness/record.cjs`) | a process, its log, R2 | start, poll, publish | polls race, calls fail, browsers hang | a proof given out stays, recordings end |
| Git (`sandbox/diff.ts`, `git/`) | R2 patches, a branch, its pull requests | capture, apply, push, open | hunk arithmetic, requests that fail half way, two calls on one branch | what is merged is the fix and nothing else |
| Access (`access/`) | maps of an isolate: keys, unknown key ids | verify, load, remember | callers share a load, keys are published and withdrawn meanwhile | no token of a key withdrawn long ago, no refusal of one published long ago |
| OAuth and identity (`oauth/`, `identity/`, `db/identities.ts`) | signed state, D1 `identities` | start, callback, speaker, token | two consents of one person, a rotated secret, a read in two statements | nobody speaks with another's token |
| Channels and scope (`channels/`, `api/channels.ts`, `run/scope.ts`, `supabase/`) | D1 `channels`, the references of an execution | register, edit, resolve, find, recall, cite, select | registrations against edits, references that outlive their execution | edits stand, a run reads its own customer only |
| Approvals pages (`dashboard/src/approvals`, `web/lib/hooks`, `web/lib/store`) | what one browser knows better than the list it polls | poll, decide, note, reconcile | lists older than a decision, countdowns, cards that vanish | no decision twice, truthful notes, decided cards leave |
| Runs pages (`web/lib/api/chat.ts`, `web/lib/hooks/use-runs-page.ts`, `api/runs.ts`) | ids of questions, pages | ask, retry, page | lost answers, rows that move while pages are read | one run per question, one list |
| Readers of messages (`run/agent-voice.ts`, `api/eval.ts`) | a memo per isolate | sample a voice, score decisions | messages that land late, consents during the day | what was read once is read again |
| Read capabilities, other routes, the rest of the evaluation and the applications | none, or one row per request | reads and rendering | | |

The components interact as follows. A Slack event is stored by ingest and decided by triage, which
wakes a run (`run/wake.ts`) by an RPC into its Durable Object. The turn's program calls capabilities;
writes go through the effect ledger. `approval.escalate` inserts a card and parks the run; a PATCH of
the dashboard decides it, the notifier posts it to Slack and starts a resolution turn. Every finished
turn hands one episode to the memory outbox. A cron runs five sweeps each minute, each in the same
handler but independent of the others.

`PROJECT.json` lists every component with its status, and every hazard at the line where it bites.

## 2. Modules

| Module | Models |
|---|---|
| `ApprovalGate` | what the approval subsystem promises: one verdict per card, one card waiting, one post after an allowing verdict |
| `Approvals` | one run, its cards, Worker invocations, capability calls, turns and expiry alarms; implements `ApprovalGate` |
| `OnceOnly` | what the ledger promises: an effect takes place while nobody was told how it ended, once at most, and what is told is so |
| `EffectLedger` | calls of `runEffect` on shared rows, and what each write can do upstream; implements `OnceOnly` |
| `MemoryOutbox` | one finished turn's episode, from the outbox row to Zep |
| `RunTurns` | one run's object: turns, steers, stops, recovery, the bill, and the projection of its status |
| `Execution` | one program of a turn, its contexts, its calls and their guards, into the turns that follow |
| `Intake` | the messages of one thread through the three queues: ingest, triage, message memory |
| `Nudges` | the page for one card, and its rewriting |
| `Sandbox` | the container of one run |
| `Recording` | one browser recording in it |
| `Patch` | the unified diff of one file, applied |
| `PullRequest` | from the working tree of a run to the pull request |
| `AccessKeys` | the signing keys one isolate holds, and the tokens it verifies |
| `Connections` | the accounts fire-fighters connect, and who speaks with which token |
| `CustomerScope` | a channel's policy, and what executions read of which customer |
| `ApprovalQueue` | the open approvals in one browser: rows, list, local notes, PATCH |
| `DashboardQueue`, `WebQueue` | the same as the dashboard and as the web application show it |
| `Composer` | a question asked in a browser, up to the run it opens |
| `RunsPage` | the paged list of runs, read while they move |
| `MessageReaders` | the message log, read for an engineer's voice and for the triage score |
| `ApprovalsProofs`, `EffectsProofs` (`EffectLedger`, `Execution`, `PullRequest`, `Patch`), `MemoryProofs` (`MemoryOutbox`, `Intake`, `CustomerScope`), `RunTurnsProofs`, `NudgesProofs`, `CapabilitiesProofs` (`Sandbox`, `Recording`), `PagesProofs` (`ApprovalQueue`, `DashboardQueue`, `WebQueue`, `Composer`, `RunsPage`, `MessageReaders`), `ReachProofs` (`AccessKeys`, `Connections`) | theorems |
| `MCApprovals`, `MCNudges`, `MCRunTurns`, `MCEffectLedger`, `MCEffects`, `MCCapabilities`, `MCMemoryOutbox` | small instances for TLC |
| `MCFix`, `MCQueues`, `MCReach`, `MCViews` | the fix on its way (`PullRequest`, `Patch`), the pages of either application (`DashboardQueue`, `WebQueue`), access and identity (`AccessKeys`, `Connections`), and what is looked at again later (`Composer`, `RunsPage`, `MessageReaders`), each as one specification; `MCEffects` includes all four, `MCRunTurns` the second |

Most runs check several components side by side: a variable `part`, chosen at the start, says which of
them moves. They share no variables, so nothing is lost. A component that does not move stays in an idle initial
state, in which nothing that fairness names is enabled.

In each of them an action is one statement of D1, one request upstream or one RPC, because those are the
points where the code awaits and another actor can run. Definitions marked *Fault* are plausible bugs of
the definition that follows them; no specification uses them. They measure the properties: each property
of a passing run fails when its fault replaces the definition.

### Approvals

- `card[c]` is the row. `HoldsSlot` is the predicate of the partial unique index
  `idx_approvals_one_open`. `Conclude` is the conditional UPDATE shared by approve, edit, reject and
  withdraw; `SetDelivery` the one behind every delivery transition.
- `job[w]` is a Worker invocation: a PATCH (`Decide`), one row of a sweep (`Sweep`), or a triage wake
  (`Wake`). All three end in the same `noteInput` and `submit` steps; the first two go through `notify`
  and `deliverApproval` (`ReadCard`, `Suppress`, `Claim`, `Doubt`, `Send`, `Settle`, `Unpark`,
  `NoteInput`, `Submit`, `Mark`).
- `call[k]` is a capability call of the program: escalate (`Escalate`, `InsertCard`, `Park`, `Arm`) or
  withdraw (`Withdraw`, `Retract`). A program that exceeds its wall time leaves its calls running, so
  `EndProgram` does not stop them.
- `current` replaces the counter `inputRevision`: it is the set of turns and invocations that hold the
  newest value. A turn is stale exactly when it is not in the set, so no bound on the counter is needed.
- `Evict` restarts the Durable Object: durable state stays, the running turn is recovered, calls die,
  and an alarm handler that had begun runs again.
- `Abandon` is an invocation that dies, or a call of it that throws, between any two steps. Redelivery of
  a wake is unlimited: `Wake` may start again at any time.
- An expiry alarm may fire at any time after it is set; that covers every clock.
- Left out: `lastApprovalId`, and the branch `no_pinned_thread`, which `open` makes unreachable. The nudge is
  in `Nudges`, the status and steering in `RunTurns`.

### EffectLedger

- `row[e]` is the ledger row of the effect with key `e`; `performed[e]` counts what happened upstream.
- `Kind[e]` is the capability. It determines which outcomes a request can have (`Outcomes`), whether
  Linear's client takes a thrown fetch for a refusal (`TrustsThrownFetch`), whether a reconcile lookup
  exists (`Reconcilable`) and which performed effects satisfy it (`Answers`: a lookup by branch may be
  answered by another pull request).
- `caller[k]` is a call of `runEffect` with its remaining polls. `Crash` stands for an evicted isolate
  and for a D1 statement that throws: the row stays as it is.
- `OnceOnly` keeps the row (`told`) and `performed`, and drops the calls. Its exceptions are the code's: Linear's
  updates may repeat, what Linear's client reports as failed may have happened, and a lookup by branch may confirm
  what another effect did (`Repeatable`, `Trusting`, and what is not `Exact`).
- Left out: the branch for results that cannot be encoded (the capabilities return plain objects), and a
  conflict on `args_hash` under a different key.

### MemoryOutbox

- A claim raises `attempts` in the UPDATE that draws its random token, so the attempt's number stands for
  the token and for the uuid of the one episode that claim can add.
- `waiting` is the future `lease_expires_at` or `next_attempt_at`. A lease may run out under a live
  claimant (`LeaseOverrun`): the create call of `ensureGraph` has no time limit of ours, and D1 may be slow.
- `inflight` holds requests that may take effect after their sender gave up or died.
- A malformed `episode_json` (`~parses`) is never written by this build, but handled for rows of another.
- Left out: the page limit of the sweep. The message job of the same queue (`projectOne`) is in `Intake`.

### RunTurns

- The variables are grouped as the code keeps them: what the object's SQLite holds, what only its memory
  holds, and D1. `Evict` loses the memory; `Interrupted`, `Recover` and `Exhausted` are Think's recovery.
- `turn.pc` walks through the hooks: `BeginTurn`, `BeforeStep`, the tool call (`Refuses`, `RunProgram`,
  `Escalate`), `StepEnd`, `Respond`, `Finish`. Between two hooks any other call into the object may run.
- `projections` is the queue `setStatus` fills; one projection is one action, as this queue is the only
  writer of `runs.status`.
- A card is only what parks and unparks the run. `Resolve` and the two steps of the expiry alarm do it.
- A step costs `StepCost`, its estimate is `Estimate`; both stand for nano-dollars.

### Execution

- `contexts` are the contexts ever built for the execution and `memo` is the entry of the map. A context
  is `building` while its D1 reads are under way; all calls that came meanwhile wait for that one.
- A call goes through `Invoke`, `Built`, `Enter` (count, budget), `AssertFresh`, `Permit` (the write guard: a
  policy of the channel that may be any, then `runs.shadow`), `Perform`. The audit rows are left out, as nothing
  reads them back.
- `Abandon` is the wall-time limit: the program goes on, and so does what it asked for.

### Intake

- A worker is an invocation of a queue consumer, with a step for every await. A job stays in its queue until
  it is acknowledged, so a second worker may take it: that is the redelivery.
- A wake reads the policy (`ReadPolicy`), writes the run row under it (`EnsureRunRow`) and submits (`SubmitTurn`);
  the channel may change between the three.
- `past.lost` remembers the messages lost between the event record and their jobs; see section 3.
- The model's verdict, an abandoned thread and a vendor failure are choices of `JudgeMessage`.

### Nudges

- A sender is the alarm or an invocation of the sweep. Two sweeps may overlap: ten rows of two requests with
  eight seconds each outlast the minute.
- `messages` are the posts asked for. An ambiguous one may have landed or land later.
- `blurred` and `lost` are history: that something happened after which the rewriting, or the page itself,
  is not promised.

### Sandbox, Recording

- `machine.process` is what `getProcess("provision")` would show; `Tick` lets it become wedged or late.
  `machine.made` counts containers, so that a gateway's cached `ready` can name one that is gone.
- `flight` is `inflightBoots` of the isolate of the object. The sweep runs in another isolate and has none.
- `unprojected` is the queue of status projections with the sweeps that passed since each status was set:
  `updated_at` becomes that time, so a projection that waited too long puts a row out of the window at once.
- `history` says what the sweep cannot make good: `used`, a call reached the container after the last destroy
  of a run that is over; `kept`, the sweep's own destroy failed; `missed`, a projection was lost or too late;
  `cut`, a teardown fell into a boot.
- The harness runs from launch through close and transcode to its exit; `WallClock` is its own timer. A
  script that never yields blocks that timer too and is not modelled.

### Patch, PullRequest

- An edit is a sequence of kept, removed and added lines; git's hunks are cut from it with one line of
  context instead of three. The text of a line is its place in the edit, so a side of the edit is a sequence of
  places, and counting them (`Before`) gives the numbers of a hunk's header. `fetched` is the base, or a file
  that differs from it. `at` is the line of the edit that `applyHunks` is at, and its `cursor`.
- A commit is a parent and a tree of two files. Every request of `openPR` succeeds, is refused, or is lost
  before or after it took effect. `calm` holds the last push while nobody came between.

### AccessKeys, Connections, CustomerScope

- `AccessKeys` is the verifier of one isolate. `load` is `inflight`; a call that finds it joins it
  (`Call`), and looks for its key when it arrives (`Arrive`). `Publish` and `Retire` are the issuer's. A
  token stands for its key id: signatures and claims are not modelled.
- `Connections` follows a consent from the signed state (`Start`, `Verified`) through the exchange of the
  code to `upsertIdentity`, and a reader from `listConnected` through `pickSpeaker` to the opening of the
  token, each read a step of its own. A sealed token carries the key it was sealed with, so `Rotate` shuts it.
  A callback that is repeated after it succeeded is left out: the provider refuses the code.
- `CustomerScope` has the rows of `channels`, registrations between the read and the insert, PATCH, and
  executions that take their scope in one read. `vouched` is history: the slug a human had set.

### ApprovalQueue, DashboardQueue, WebQueue

- A render and its effects are one step with the event that caused them. `rows` is the last good list,
  `poll` the request whose answer counts, `local` the layer over the list, `timer` the countdowns.
- `DashboardQueue` adds the question what became of a vanished card (`reconciled`, `asking`) and the name of
  who won (`naming`). `WebQueue` has the overlay store and invalidates the list after a decision.
- The server's side (`Patch`, `OpenList`) is the conditional UPDATE and the page of `listOpen`; the life of a
  card is in `Approvals`.

### Composer, RunsPage, MessageReaders

- `Composer` has the ids a mounted composer gives its questions, each POST on its way, and the worker's two
  writes, the run row and the submission. The worker may die between them.
- `RunsPage` keeps the pages shown and those of the fetch under way, each with the runs it read and the cursor it
  returned, and which runs were written since the first of them was read. Runs move up by `touchRun` and
  `projectRunIndex`; equal times are ordered by id. A page is the set of its runs, as the order is total.
- `MessageReaders` separates the receipt of a message from its landing in `messages`, at most `MaxLag`
  apart. `Grace` is `ENGINEER_VOICE_FREEZE_GRACE_MS`; a message may be in flight for longer, as `run/agent-voice.ts:25`
  grants, and then isolates may differ in that message (`LandedLate`). A voice takes two
  reads, who speaks with which account (`NameSpeaker`) and what that account wrote (`SampleVoice`), between which
  anybody may connect. Two calls that overlap in one isolate are modelled as two isolates.

## 3. Runs

| Run | Instance | Shows |
|---|---|---|
| `approvals` | one card, one wake, two invocations, two calls, one failure; 1.6 M states | types, `PostedAtMostOnce`, `DeliveryIsTruthful`, `ResolutionAfterOutcome`, `MarkedOnlyIfResumed`, `VerdictsFinal`, and the refinement `ImplementsGate` |
| `two_cards` | two cards, one wake, one invocation, two calls, no failure; 2.7 M states | `OneOpenCard`, `ParkedOnRealCard` |
| `approvals_live` | one card, one wake, one invocation, one call, two failures; beside it one card's page, an alarm, two sweeps, two failures; 0.2 M states | `DecisionReachesRun`, `ParkingEnds`, `NudgesSafe`, `PageComes` |
| `turns` | any two of a message, a steer and a card, one failure, one projection waiting; beside it the approvals pages with one click | `InputShownOnce`, `RowIsRight` (types, `RowAgrees`, `SummaryIsOpening`), `TurnSpendBounded`, `EpisodeOfEachTurn`, `AdmittedIsServed`, `DecidedCardsLeave` |
| `effects` | a reply, a pull request and an issue, two callers, one crash; beside them a program with two calls and a budget of one over two turns, two captures and `openPR` calls on one branch, every edit of up to five lines, two calls on rotating keys, two consents with a reader, the approvals pages (two cards, two clicks, one lost request, a list of one), two composers, four runs on pages of one, two isolates with a voice, two scores; 1.6 M states | `OneHolder`, `PerformedAtMostOnce`, `SettledIsTruthful` (`FailedIsUnperformed`, `CompletedIsPerformed`), `ExecutionSafe`, `FixIsCarried`, `CredentialsHold`, `QueuesSafe`, `LaterLooksAgree` |
| `capabilities` | one pull request, three callers, one crash, two polls; two programs with an end of the run or a fault, one with both or with two ends; two polls of a recording with one failure; 0.2 M states | `EveryCallReturns`, `SandboxSafe` (`RunsOnProvisioned`, `StartedTwiceAtMost`, `NothingLeftUp`), `RecordingSafe` (`PublishedStays`, `AnswersAreTrue`), `PollingEnds`, and the refinement `ImplementsOnce` |
| `memory_outbox` | three consumers, three failures; beside it two messages, two workers, one failure or change of policy, and a channel registered and edited twice under two executions; 0.3 M states | `ProvenanceExact`, `DuplicatesReported`, `OneEpisodeWithoutFailure`, `EpisodeFinal`, `EpisodeDelivered`, `IntakeSafe`, `EveryMessageDecided`, `ScopeHolds` (`DecisionsStand`, `TenantKeysAreVouchedFor`, `ReadsStayInScope`) |

Why the bounds are enough. Two invocations are what a double send, a lost claim or a stale check needs;
the second also sweeps what the first left behind. Two cards and two calls are what two escalations in
one program need. Three callers are a holder, a loser of the reclaim and a waiter; three consumers a slow
claimant, its successor and a third that resumes. The failure bounds limit crashes only, never ordinary
steps, and for the modules with proofs those lift all of these bounds for the safety properties. Two inputs
are what a supersession, a steer into a turn and a card under a turn need. Two calls in flight and a third
are what a shared budget, and a call after a disposal, need. Five lines make two hunks, with insertions and
deletions at both ends of a file. Two `openPR` calls are what a forced branch needs; the second also finds
the pull request of the first. Two programs are a boot and one that joins it. In `PollingEnds` the first
program stands for both: no action tells them apart, but for the scenes the first has to itself. Two ends of a
run are a projection that is overtaken by the next.

On the pages, two cards with a list of one keep a waiting card off the list until the older one is decided; two clicks are a
decision and one more during its countdown. Two submissions and a remount are a retry while the first is on
its way. Two consents, and a reader in two steps, are what a wrong pairing needs. Two slugs on one channel are two
customers: one execution may have found the first and another be scoped to the second. One unit of time is
the floor of a cache, the grace or half a day; a message is in flight for two at most, so for longer than the grace.

The passing runs that check liveness use no symmetry.

Five statements in comments are contradicted by what the code does; each has a run whose property is
the statement and which TLC refutes:

| Run | Statement | What happens |
|---|---|---|
| `unparked_by_old_card` | a run is paused until its card is decided | the notifier of an earlier card clears `openApprovalId` whichever card it names |
| `parked_after_decision` | a decision between the INSERT and the parking unparks the run anyway | the run parks after its resolution, on a decided card |
| `replay_makes_stale` | a replay of a wake is a no-op | `noteInput` comes before the refused submission, so the running turn becomes stale |
| `update_twice` | a retry cannot apply a Linear edit twice | a thrown fetch is recorded as a refusal, and the retry applies the edit again |
| `shared_branch` | a lookup returns the recorded outcome or null | a pull request of another effect on the branch answers |

Some properties of the passing runs except a part of the hazard they are about, as the code does otherwise there.
What each excepts, besides what these five runs show:

| property | excepts |
| --- | --- |
| `ExecutionSafe` | a program that outlived its turn |
| `InputShownOnce` | a steer sent again |
| `EveryMessageDecided` | a message lost between its event record and its jobs |
| `QuietWakesNothing` | a message whose deliveries overlapped |
| `DecidedCardsLeave` | a card that a failed PATCH put back to open |
| `QueuesSafe` | the note of the dashboard on a card it could not ask about |
| `LaterLooksAgree` | a run written between the reads of two pages, a message in flight for longer than the grace, an account whose owner consented or reconnected, a decision with a late reply |
| `SandboxSafe` | a boot that a teardown fell into, a container used after the last sweep that could see its run |
| `FixIsCarried` | a commit between the two commands of a capture |
| `RecordingSafe` | two puts of one video at once |

What else the models show of the code, without a run of its own; where a property would meet it, the property
names the exception.

- Approvals: a sweep may record a posted card as `suppressed` when `runs.shadow` is set during the send
  (`approval/notifier.ts:185`). A `reserved` ledger row whose holder died is never resolved by the sweep that
  `migrations/0005_codemode_effects.sql:39` names. A crash between parking and
  its alarm (`approval/port.ts:123`), or between unparking and the withdrawal of the row (`approval/port.ts:154`),
  leaves a card only a human ends.
- Nudges: a card decided between the sender's read and its claim is still paged, with a button nobody
  rewrites; the claim does not ask for a pending card. A sender that dies between claim and post silences the
  card: no sweep sees it again. A duplicate page after an ambiguous post keeps its button on one of the two.
- Turns: a stopped turn ends as `failed`. A steer after the last `beforeStep` waits for a turn that nothing
  starts; one consumed by a step that dies is not shown; one sent twice after it was shown may be shown
  twice, as it is neither queued nor a message of the session. An expiry between the last step and the end of a
  turn leaves the row `failed` while the object is idle. Recovery compares the bill of the whole run with the ceiling of one turn.
- Execution: `#turnRevision` is null between turns, so a program that outlived its turn is fresh again then,
  though `capabilities/execution.ts` says that it stops at its next call; later it is fresh or stale by the
  revision of another turn. Its first call after the disposal builds a new context, with a
  new budget and the record and call ids of the turn that runs by then. A context whose building threw stays
  in the memo until the disposal.
- Intake: a crash between the event record and the jobs loses the message, although
  `docs/superpowers/plans/phase-04-ingest-pipeline.md:5` has every message land in D1, and so does a send to the
  triage queue that throws. Two deliveries of a triage job each act on their own verdict.
- Sandbox: a teardown that falls into a boot may start provisioning over; the settlement of a forgotten boot
  removes the entry of a newer one. A gateway's cached `ready` outlives its container. A sweep that read its
  rows may destroy the container of a run that came back. `setStatus` calls the cron sweep the backstop of a
  projection that never lands (`run/agent.ts:883`), but none of the five sweeps writes a status: the run stays live
  in D1 and its container, if the object's own teardown failed, is nobody's. A projection that lands more
  than fifteen minutes late leaves it unswept as well.
- Recording: of two polls that publish at once, the one whose put fails deletes what the other gave out.
- Pages: when the dashboard cannot learn what became of a vanished card it notes it as withdrawn, although
  `dashboard/src/approvals/use-approvals.ts:10` says that it never invents a decision. In the web application
  a card whose PATCH failed stays open in the overlay after it was decided elsewhere
  (`web/lib/store/approvals-overlay.ts:88`). A composer gives a question its id for good, so the same question
  asked again joins the old run.
- Access, identity, scope: of two consents of one person the older may finish last and replace the newer
  token. A consent for another account between the two reads of `identity/user-token.ts:57` pairs that account's
  token with the id of the former; the id is only recorded. A secret that rotates during a callback seals a row
  that no longer opens. A scope keeps a slug, and that a human vouched for it, after a PATCH cleared it.
- Readers: a speaker who connects again during the day is left out by an isolate that starts cold, while a
  warm one keeps him (`run/agent-voice.ts:147`). A reply that lands later than its day changes a score that
  counted as ripe (`api/eval.ts:151`), a query without the grace that the voice has. The query for what the
  human said (`api/eval.ts:205`) has no condition on the sender.
- Git: the capture reads HEAD and the diff in two commands, so a commit in between drops a part of the fix
  from the pull request; a second capture of the same bytes overwrites the base of the first. Two calls at
  once on a branch may mix the commit of one with the title of the other.

## 4. Fairness

- `Approvals`: weak fairness of invocations, calls and alarms that have begun, and of the turn queue.
  Strong fairness of `Sweep` per card: the cron fires every minute in an invocation of its own, so a due
  row is swept again and again even if the modelled pool is often busy. Nobody has to click, escalate or
  write, and a new invocation is never promised.
- `EffectLedger`: weak fairness of each call that has begun; a crashed call takes no further step.
- `MemoryOutbox`: weak fairness of the sweep, the queue, time, claimants at work, and of Zep. Failures are
  bounded, so Zep answers in the end; without that no projection could be promised.
- `RunTurns`: the turn under way, the projections, an expiry and an alarm that began, and each submission that
  noted its input. Nobody has to write, steer, stop or decide.
- `Intake`: each worker at work, and a job is taken in the end while a worker is idle: the queue delivers.
- `Nudges`: a sender at work, and the sweep of the cron. Nobody has to decide, and the alarm need not fire.
- `Sandbox`: time passes, calls to the container return, and a program told `provisioning` polls again. That
  last one is up to the model; `PollingEnds` says what polling leads to.
- `Recording`: the harness's wall clock, and the exit it forces. Neither browser nor script is fair.
- `ApprovalQueue`: requests are answered, countdowns run out, and a poll is answered before the next one
  again and again (strong fairness, as each poll of the dashboard replaces the one before). Nobody has to click.
- `Execution`, `Patch`, `PullRequest` and the other modules of the applications promise no liveness.

## 5. Proofs

The theorems hold for any sets of cards, wakes, invocations, calls, effects, consumers, messages, steers, events,
channels, executions, programs and polls, and for any bounds. Every listed theorem whose name a run's property
carries says of all instances what the run checks on one. Each proof has one inductive invariant (`Inv`, or
`LedgerInv`, `IntakeInv`, `SandboxInv`, `KeysInv` and the like); below is what it adds to
the property, and why the property needs it.

- `ApprovalsProofs`: type correctness (`TypeCorrect`), `OneOpenCardAlways`, `AtMostOncePosted`,
  `TruthfulDelivery`, `ResolutionInOrder`, `MarkedAfterResolution`, `ParkedOnCard`, `FinalVerdicts`, and `Refinement`
  to `ApprovalGate`. The inductive invariant relates each row to the invocations at work on it: an invocation
  between the claim and the settlement is alone there (`OneSender`), nothing was posted before its send, and its
  card is past `none`; an invocation past delivery works on a row with an outcome (`JobInv`). None of the
  properties is inductive alone: nothing in `PostedAtMostOnce` forbids two invocations that both hold a claim.
- `EffectsProofs`, the ledger: `OneHolderAlways`, `AtMostOncePerformed`, `TruthfulRows`, `SettledRowsFinal`. The
  invariant adds that an absent row has done nothing, that the holder of a reservation starts from an effect
  that did not take place, and that the outcome it carries is what its request did (`RowInv`, `CallerInv`).
  `OnceOnlyRefined`: under that invariant every step of a call is one of `OnceOnly`, or a stutter (`LedgerSteps`): a
  request is sent only by the holder of a reserved row, and a row is settled only by it or by a lookup of what was in
  doubt, so no late call performs or takes back an effect of which somebody was told an outcome.
  `SettledIsFinal` has no run of its own: `OnceOnly` allows no step that breaks it.
- `EffectsProofs`, the program: `SafeExecution`. `BudgetInv` counts: bodies that ran and calls past the count are no
  more than the calls the contexts let in, and there is one context more than disposals at most. `TurnInv`: while the
  program runs its turn does, so a call that came late is stale when the guard asks. `ShadowInv`: a call
  made in shadow never reaches its write.
- `EffectsProofs`, the fix: `CarriedFix`. `PullInv` says what a call may rely on at each request. The working
  tree is a commit with some of the run's edits in it (`TreeOK`), the stored patch changes nothing else and, unless
  HEAD moved, all of it (`PatchOK`), its base is a commit that the base branch has from the comparison on
  (`BaseOK`), so the commit adds the fix to one (`CommitOK`); a call that failed has written nothing (`LeftOK`), and
  while nobody came between, the branch is the call's own (`CalmOK`). `PatchInv` is about the line of the edit: the
  cursor is behind the old lines so far (`LineInv`), those that were shown were found there (`MatchInv`), of the
  base the result is the new side so far (`ResultInv`), and the last new line that was shown decided on the last
  newline (`NewlineInv`). A side is defined by counting, not by recursion over the lines, so that no induction is
  needed: each place of a side is that of the least line with that count, and the naturals are well-founded.
- `MemoryProofs`, the outbox: `ExactProvenance`, `ReportedDuplicates`, `OneEpisode`, `FinalEpisode`. The newest
  attempt holds the token; a consumer still busy with Zep after an episode was recorded is older than that
  episode, so the fence stops it; nothing newer than the recorded episode was ever asked of Zep.
- `RunTurnsProofs`: `ShownOnce`, `RowRight`, `SpendBounded`, `EpisodeRemembered`. Five invariants over the
  types. `ShownInv`: an input is in one place of the queue at most, and a steer that was sent once is spliced or
  routed to a turn of its own, never both. `TrailInv`: there is a sequence of statuses, one for each waiting
  projection, that leads from the row to the object by legal steps, but for the one step after an expiry
  that the row refuses. `SummaryInv`: the first summary in the queue is the first question, or the row has it.
  `SpendInv`: an attempt that goes on is below the ceiling, and what was paid is on the bill. `EpisodeInv`: the
  turn the object remembers is the one that runs.
- `NudgesProofs`: `SafeNudges`. Whoever posts holds the claim and is alone (`ClaimInv`); while nothing is
  blurred, every post is confirmed and is the one the row names or is about to name (`LinkInv`).
- `MemoryProofs`, the channels: `SafeIntake`, `IntakeTypeCorrect`, `SafeScope`, `ScopeTypeCorrect`. Of intake: D1's rows come in
  order (`Ordered`), a message is in one worker's hands unless deliveries overlapped (`Single`), what was
  admitted has no job left that could decide it (`TriageInv`), and without a failure an episode that was added
  is mapped or is about to be (`EpisodeInv`); a wake that read a muted channel and is about to submit has marked
  the row (`MutedInv`). Of scope: an unregistered channel was not edited (`PolicyInv`), a
  scope that may spend its slug took it from a human (`TrustInv`), and what was recalled or read was the run's
  own or shown to this execution (`ReadsInv`).
- `CapabilitiesProofs`: `SafeSandbox`, `SandboxTypeCorrect`, `SafeRecording`, `RecordingTypeCorrect`. Of the container:
  one boot at a time looks at it and what it saw is still so, and a container about to be provisioned anew is
  ready to nobody (`BootInv`); provisioning starts where there is no process, or on the one relaunch (`StartsInv`);
  a container left up is one the sweep is at or gets at yet (`LeftInv`). Of the recording: the log has the
  one result of the harness or nothing (`LogInv`), and a poll past the log works with that result, of a process that
  exited (`PollInv`).
- `PagesProofs`: `SafeQueues`, for either application. An unborn card is named nowhere (`BornInv`); the rows of a list
  were open or are decided, and a decision never changes (`ListInv`); an answer on its way says what D1 said when it
  was given, and only the winner's says that it won (`AnswerInv`); a card with a request of ours is shown as being
  decided, so that no second click finds it open (`RequestInv`); a countdown runs for a note only (`TimerInv`), and a
  note is true of the row, or is the dashboard's note of a card it learned nothing of (`NoteInv`). None is inductive
  without the others: a note is written from an answer that was read at another time.
- `PagesProofs`, what is looked at again: `LaterLooks`. Of the composer: a question goes with a key in a composer, on its way
  or in the history (`GoesWith`), and of those each question has one key and each key one question, as an id
  that is minted is above all of its teammate (`IdsInv`); a run was opened with a question that came to it
  (`OpeningInv`). Of the list: a row never moves above what a page showed of it but by a write (`NotAbove`), nothing
  shown is below the last cursor (`Within`), and what was not written is shown exactly if it is not below it
  (`WholeBut`). From these a page read later sorts after the pages before it: it has only runs below their cursor,
  and a run that was on one of them has not come down. That a full page has a last run, and a part of a finite
  list fewer, is proved from well-foundedness and cardinalities. Of the readers: no message is in flight
  for longer than the lag (`LandedInTime`), and the samples of a voice are those that had landed when its window began,
  and some that landed late (`VoiceHolds`); an account that is frozen stays, and the speaker differs only after a consent
  (`ConnectedAgain`); a score knows the replies that landed before it (`ScoresHold`).
- `ReachProofs`: `Credentials`. A verdict speaks of a document that may be as old as the fetch, the cache and the
  time a call has waited, so the invariant bounds each: a load is no older than `Patience`, its waiters came
  after it or before it by no more (`LoadInv`), the cache no older than its floor when it is trusted (`CacheInv`), those
  who resume go in the order of the queue (`QueueInv`, `ResumedInv`), and a remembered miss was a miss of a document
  (`MemoryInv`). Of the connections: an answer of a provider came in time (`AnswersInTime`), every row is the grant of
  one exchange (`RowsAreGrants`), what the reader saw is backed by a row that is never taken away
  (`ReaderIsBacked`). Who speaks first is the least index of the roster, which exists as the naturals are well-founded.

The types of `Execution`, `Intake`, `CustomerScope`, `Nudges`, `Sandbox` and `Recording` are proved rather than run, but
where a run's property includes them; the other type invariants are checked with their runs.

The assumptions are the named ASSUMEs of the modules, which TLC evaluates for each instance: identifiers of
different sorts differ (`IdsAssumption`, `TurnsAssumption`), a null is none of the values it stands beside
(`NoneAssumption`, `NilAssumption`, `NotYetAssumption`, `UnsetAssumption`, `ProgramsAssumption`), each effect has a kind and lookups
answer with effects (`KindAssumption`, `AnswersAssumption`), a channel's name has one slug (`DerivedAssumption`), and
bounds, prices and windows are natural numbers (`FailuresAssumption`, `BoundsAssumption`, `LimitAssumption`,
`InFlightAssumption`, `LinesAssumption`, `ScenesAssumption`, `WindowAssumption`, `QueueAssumption`, `KeysAssumption`, `ComposerAssumption`,
`PageAssumption`). The roster names everybody once (`ConnectionsAssumption`, `ReadersAssumption`), and nobody
has left it and is on it. None restricts how many there are.

Model-checked only:

- every liveness property (the prover has no rule for fairness and ENABLED), and the runs of section 3 that
  refute a statement.

Every safety invariant and action property of a passing run has a theorem.

## 6. Not modelled, and the plan

Of the modelled components, these parts are left out:

- the pages of the sweeps (ten cards, ten nudges, fifty rows of runs, the page of the outbox): each module has
  one or two rows, so a page is never full. A page of rows that always throw starves the rows behind it;
- prompts, the digest of a thread, recall, the layout of blocks, and the bounding of results and logs: text;
- the session tree of Think, beyond which messages are in it; the router; path checks, binary files and
  renames of patches; the upload of files;
- of access, the signature and the claims of a token; of OAuth, the requests to the providers beyond their
  outcome; of channels, the parsing of a slug and the backfill;
- of the dashboard API, counters, artifacts, proofs and effects: single reads. Of the evaluation, precision,
  recall and tells: arithmetic on what `MessageReaders` selects;
- of the applications, rendering, the transcript of a run, the demo fixtures and the component library.

Without a model, as they are requests that change no state of the system: the clients of LangSmith, Better Stack
and Supabase beyond the customer they read for, the content of memory and its ranking, the schemas shown to
the model.

These, with the generated type declarations, the tests and the styles, are the larger part of the
repository's lines.
