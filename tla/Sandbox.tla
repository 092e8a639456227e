------------------------------- MODULE Sandbox -------------------------------
(***************************************************************************)
(* The one container of a run (sandbox/lifecycle.ts, sandbox/gateway.ts):   *)
(* how it is provisioned by a process with a fixed id, how the run's        *)
(* programs poll and use it, and how it is destroyed, by the run's object   *)
(* when the run ends and by the cron sweep after that.                      *)
(***************************************************************************)
EXTENDS Naturals, Sequences

CONSTANTS
  Programs,  \* executions of run_code, each with its own gateway
  Scenes,    \* bound: the programs that run, how often the run ends (coming back between
             \* its ends), and how many calls to the container fail or the object is evicted
  Window     \* sweeps while runs.updated_at is inside SWEEP_WINDOW_MS

VARIABLES
  machine,    \* the container: is it up, and its process "provision"
  program,    \* what each program's capability call is doing
  flight,     \* inflightBoots: the program whose boot the others join
  relaunched, \* relaunchedRuns
  over,       \* the run has a terminal status, in the object
  ending,     \* the object is between setStatus and the end of its teardown
  unprojected,\* the queued projections of the status: is it terminal, and sweeps since
  rowOver,    \* runs.status is terminal
  sweep,      \* the cron handler: "none", or about to destroy the container
  sweeps,     \* of a terminal row: sweeps since runs.updated_at
  scene,      \* a member of Scenes
  history     \* faults, and what the properties ask for

sandboxVars == <<machine, program, flight, relaunched, over, ending, unprojected, rowOver, sweep,
                 sweeps, scene, history>>

\* The end of the run and its row.
endVars == <<over, ending, unprojected, rowOver, sweep, sweeps>>

NoProgram == "none"

ASSUME ProgramsAssumption == NoProgram \notin Programs
ASSUME ScenesAssumption == Scenes \subseteq [programs : SUBSET Programs, ends : Nat, faults : Nat]
ASSUME WindowAssumption == Window \in Nat

\* The process "provision": silent and stepping are young; wedged is silent past
\* WEDGED_AFTER_MS, late is not done by PROVISION_DEADLINE_MS.
Running == {"silent", "wedged", "stepping", "late"}
Processes == Running \cup {"absent", "completed", "failed"}

Asleep(n) == [up |-> FALSE, process |-> "absent", made |-> n]

IdleProgram == [pc |-> "idle", joined |-> NoProgram, seen |-> "none", answer |-> "provisioning",
                ready |-> 0]

\* Its boot has looked at the container and is not over.
UnderWay(p) == program[p].pc \in {"report", "start"}

Fault ==
  /\ history.faults < scene.faults
  /\ history' = [history EXCEPT !.faults = @ + 1]

\* Any call wakes the container.
Touch == [machine EXCEPT !.up = TRUE]
Used == [history EXCEPT !.used = @ \/ over]

\* No teardown fell into a boot, no call failed and the object never restarted.
Undisturbed == ~history.cut /\ history.faults = 0

-----------------------------------------------------------------------------
(* Booting.                                                                *)

\* Fault: every boot is one of its own.
NoSingleFlight(p) == TRUE

\* boot finds no flight to join.
Leads(p) == flight = NoProgram

\* boot, called by sandbox.boot or by assertReady of any other capability.
Boot(p) ==
  /\ p \in scene.programs
  /\ program[p].pc = "idle" /\ program[p].answer # "ready"
  /\ \/ /\ Leads(p)
        /\ flight' = p
        /\ program' = [program EXCEPT ![p].pc = "ask"]
     \/ /\ ~Leads(p)
        /\ UNCHANGED flight
        /\ program' = [program EXCEPT ![p].pc = "join", ![p].joined = flight]
  /\ UNCHANGED <<machine, relaunched, endVars, history, scene>>

\* Fault: a process that printed something may take for ever.
NoDeadline(process) ==
  CASE process = "completed" -> "ready"
    [] process = "wedged" -> "wedged"
    [] process \in Running -> "provisioning"
    [] OTHER -> "failed"

\* report
Report(process) ==
  CASE process = "completed" -> "ready"
    [] process = "wedged" -> "wedged"
    [] process \in {"silent", "stepping"} -> "provisioning"
    [] OTHER -> "failed"

\* bootOnce: getProcess, and a report on what it found.
Ask(p) ==
  /\ program[p].pc = "ask"
  /\ machine' = Touch
  /\ program' = [program EXCEPT ![p] =
       IF machine.process = "absent" THEN [@ EXCEPT !.pc = "start"]
       ELSE [@ EXCEPT !.pc = "report", !.seen = Report(machine.process)]]
  /\ history' = Used
  /\ UNCHANGED <<flight, relaunched, endVars, scene>>

\* A flight ends: it and those who joined it have its answer (a gateway remembers
\* "ready", and for which container), and whatever flight is in the map is removed.
Settle(p, answer) ==
  /\ flight' = NoProgram
  /\ program' = [q \in Programs |->
       IF q # p /\ program[q].joined # p THEN program[q]
       ELSE [IdleProgram EXCEPT !.answer = answer,
                             !.ready = IF answer = "ready" THEN machine.made ELSE 0]]

\* Fault: the relaunch is not remembered.
RelaunchAgain == UNCHANGED relaunched

SpendRelaunch == relaunched' = TRUE

\* bootOnce: a wedged process is relaunched, the first time.
Judge(p) ==
  /\ program[p].pc = "report"
  /\ \/ /\ program[p].seen = "wedged" /\ ~relaunched
        /\ SpendRelaunch
        /\ program' = [program EXCEPT ![p].pc = "start"]
        /\ UNCHANGED flight
     \/ /\ program[p].seen # "wedged" \/ relaunched
        /\ Settle(p, IF program[p].seen = "wedged" THEN "failed" ELSE program[p].seen)
        /\ UNCHANGED relaunched
  /\ UNCHANGED <<machine, endVars, history, scene>>

\* startProvisioning: killAllProcesses, then startProcess under the fixed id.
Start(p) ==
  /\ program[p].pc = "start"
  /\ machine' = [Touch EXCEPT !.process = "silent"]
  /\ Settle(p, "provisioning")
  /\ history' = [Used EXCEPT !.starts = IF Undisturbed THEN @ + 1 ELSE 0]
  /\ UNCHANGED <<relaunched, endVars, scene>>

\* A call to the container throws: the boot rejects.
BootFails(p) ==
  /\ program[p].pc \in {"ask", "report", "start"}
  /\ Fault
  /\ Settle(p, "provisioning")
  /\ UNCHANGED <<machine, relaunched, endVars, scene>>

\* exec, spawn, readFile, writeFile, preview, diff, record: what assertReady lets
\* through.
Use(p) ==
  /\ program[p].pc = "idle" /\ program[p].answer = "ready"
  /\ machine' = Touch
  /\ history' = Used
  /\ UNCHANGED <<program, flight, relaunched, endVars, scene>>

-----------------------------------------------------------------------------
(* provision.sh and the clock.                                             *)

\* It prints its first STEP; later it is done, or a step failed.
Provision ==
  /\ machine.up
  /\ \/ /\ machine.process \in {"silent", "wedged"}
        /\ machine' = [machine EXCEPT !.process = "stepping"]
     \/ /\ machine.process \in {"stepping", "late"}
        /\ \E end \in {"completed", "failed"} : machine' = [machine EXCEPT !.process = end]
  /\ UNCHANGED <<program, flight, relaunched, endVars, history, scene>>

Tick ==
  /\ machine.process \in {"silent", "stepping"}
  /\ machine' = [machine EXCEPT !.process = IF @ = "silent" THEN "wedged" ELSE "late"]
  /\ UNCHANGED <<program, flight, relaunched, endVars, history, scene>>

-----------------------------------------------------------------------------
(* The end of the run.                                                     *)

\* onChatResponse, onExhausted or approvalExpired: the status is set, its projection
\* queued unless the status was that already, and the container is torn down.
RunEnds ==
  /\ ending = "no"
  /\ history.ends < scene.ends
  /\ over' = TRUE
  /\ unprojected' = IF over THEN unprojected ELSE Append(unprojected, [over |-> TRUE, age |-> 0])
  /\ ending' = "teardown"
  /\ history' = [history EXCEPT !.ends = @ + 1]
  /\ UNCHANGED <<machine, program, flight, relaunched, rowOver, sweep, sweeps, scene>>

\* applyStatusProjection: what the row says already is not written again; updated_at
\* becomes the time the status was set, which may be past the window by now.
ProjectStatus ==
  /\ unprojected # <<>>
  /\ LET head == Head(unprojected)
         age == IF head.over = rowOver THEN sweeps ELSE head.age
     IN /\ rowOver' = head.over
        /\ sweeps' = IF head.over THEN age ELSE 0
        /\ history' = [history EXCEPT !.missed = @ \/ (head.over /\ age >= Window)]
  /\ unprojected' = Tail(unprojected)
  /\ UNCHANGED <<machine, program, flight, relaunched, over, ending, sweep, scene>>

\* The queue gives a projection up after five attempts.
LoseProjection ==
  /\ unprojected # <<>>
  /\ unprojected' = Tail(unprojected)
  /\ history.faults < scene.faults
  /\ history' = [history EXCEPT !.faults = @ + 1, !.missed = TRUE]
  /\ UNCHANGED <<machine, program, flight, relaunched, over, ending, rowOver, sweep, sweeps, scene>>

\* teardown, first line: a boot in flight is forgotten, not stopped.
Forget ==
  /\ ending = "teardown"
  /\ flight' = NoProgram
  /\ history' = [history EXCEPT !.cut = @ \/ flight # NoProgram]
  /\ ending' = "destroy"
  /\ UNCHANGED <<machine, program, relaunched, over, unprojected, rowOver, sweep, sweeps, scene>>

\* destroy; a failure is only warned about.
Destroy ==
  /\ machine' = Asleep(machine.made + 1)
  /\ history' = [history EXCEPT !.used = FALSE, !.kept = FALSE, !.starts = 0,
                              !.cut = @ \/ \E p \in Programs : UnderWay(p)]

EndDestroys ==
  /\ ending = "destroy"
  /\ Destroy \/ (Fault /\ UNCHANGED machine)
  /\ ending' = "no"
  /\ UNCHANGED <<program, flight, relaunched, over, unprojected, rowOver, sweep, sweeps, scene>>

\* A new turn of a run that had failed; a teardown of approvalExpired may be under way.
Revive ==
  /\ over /\ history.ends < scene.ends
  /\ over' = FALSE
  /\ unprojected' = Append(unprojected, [over |-> FALSE, age |-> 0])
  /\ history' = [history EXCEPT !.used = FALSE, !.kept = FALSE, !.missed = FALSE]
  /\ UNCHANGED <<machine, program, flight, relaunched, ending, rowOver, sweep, sweeps, scene>>

\* Fault: the window is the wrong way round.
OldRows == sweeps >= Window

\* sweepSandboxes selects terminal rows that are young.
Young == sweeps < Window

\* Out of the window all ages are alike.
Older(age) == IF age < Window THEN age + 1 ELSE age

Sweep ==
  /\ sweep = "none"
  /\ sweep' = IF rowOver /\ Young THEN "destroy" ELSE "none"
  /\ sweeps' = IF rowOver THEN Older(sweeps) ELSE sweeps
  /\ unprojected' = [i \in DOMAIN unprojected |-> [unprojected[i] EXCEPT !.age = Older(@)]]
  /\ UNCHANGED <<machine, program, flight, relaunched, over, ending, rowOver, history, scene>>

\* The cron handler's own isolate has no flight to forget.
SweepDestroys ==
  /\ sweep = "destroy"
  /\ \/ Destroy
     \/ /\ history.faults < scene.faults
        /\ history' = [history EXCEPT !.faults = @ + 1, !.kept = TRUE]
        /\ UNCHANGED machine
  /\ sweep' = "none"
  /\ UNCHANGED <<program, flight, relaunched, over, ending, unprojected, rowOver, sweeps, scene>>

\* The object is evicted: its calls, gateways and teardown are gone, and if the
\* isolate goes with it, what it remembered of relaunches.
Restart ==
  /\ Fault
  /\ program' = [p \in Programs |-> IdleProgram]
  /\ flight' = NoProgram
  /\ relaunched' \in {relaunched, FALSE}
  /\ ending' = "no"
  /\ UNCHANGED <<machine, over, unprojected, rowOver, sweep, sweeps, scene>>

-----------------------------------------------------------------------------
(* Specification.                                                          *)

SandboxInit ==
  /\ machine = Asleep(1)
  /\ program = [p \in Programs |-> IdleProgram]
  /\ flight = NoProgram /\ relaunched = FALSE
  /\ over = FALSE /\ ending = "no" /\ unprojected = <<>> /\ rowOver = FALSE
  /\ sweep = "none" /\ sweeps = 0
  /\ scene \in Scenes
  /\ history = [faults |-> 0, ends |-> 0, starts |-> 0, used |-> FALSE, cut |-> FALSE,
                kept |-> FALSE, missed |-> FALSE]

Booting(p) == Ask(p) \/ Judge(p) \/ Start(p)

SandboxNext ==
  \/ \E p \in Programs : Boot(p) \/ Booting(p) \/ BootFails(p) \/ Use(p)
  \/ Provision \/ Tick
  \/ RunEnds \/ ProjectStatus \/ LoseProjection \/ Forget \/ EndDestroys \/ Revive
  \/ Sweep \/ SweepDestroys
  \/ Restart

SandboxSpec == SandboxInit /\ [][SandboxNext]_sandboxVars

\* Time passes and calls return.  That a program told "provisioning" polls again is
\* the model's doing, and what PollingEnds supposes.
SandboxFairness ==
  /\ WF_sandboxVars(Tick)
  /\ \A p \in Programs : WF_sandboxVars(Boot(p)) /\ WF_sandboxVars(Booting(p))

-----------------------------------------------------------------------------
(* Properties.                                                             *)

SandboxTypeOK ==
  /\ machine \in [up : BOOLEAN, process : Processes, made : Nat \ {0}]
  /\ program \in [Programs -> [pc : {"idle", "join", "ask", "report", "start"},
                               joined : Programs \cup {NoProgram},
                               seen : {"none", "provisioning", "ready", "wedged", "failed"},
                               ready : Nat, answer : {"provisioning", "ready", "failed"}]]
  /\ flight \in Programs \cup {NoProgram}
  /\ relaunched \in BOOLEAN /\ over \in BOOLEAN /\ rowOver \in BOOLEAN
  /\ ending \in {"no", "teardown", "destroy"} /\ sweep \in {"none", "destroy"}
  /\ sweeps \in Nat /\ unprojected \in Seq([over : BOOLEAN, age : Nat])

\* A program that was told the machine is ready runs its commands on a machine that
\* is provisioned, unless that machine has been destroyed since (the gateway does
\* not ask again), or a teardown fell into a boot, which may start provisioning
\* over.
RunsOnProvisioned ==
  \A p \in Programs :
    program[p].ready = machine.made /\ ~history.cut => machine.process = "completed"

\* Polls of several programs start provisioning once, and once more when it is
\* wedged: unless a teardown fell into one of them or the object restarted.
StartedTwiceAtMost == Undisturbed => history.starts <= 2

\* Whatever the object's own teardown missed, a container is not left up past the
\* sweep's window by a run that is over and whose row says so, unless the sweep's
\* destroy failed, a call of the run's reached the container after the last one, or
\* the projection was lost or so late that the row was out of the window by then.
NothingLeftUp ==
  over /\ rowOver /\ unprojected = <<>> /\ sweeps >= Window /\ sweep = "none" =>
    ~machine.up \/ history.used \/ history.kept \/ history.missed

SandboxSafe == RunsOnProvisioned /\ StartedTwiceAtMost /\ NothingLeftUp

\* A run whose model polls hears that the machine is ready or that it failed:
\* silence and stalling both have their ends.
HearsInTheEnd(p) == program[p].pc # "idle" ~> program[p].answer \in {"ready", "failed"}
=============================================================================
