------------------------------ MODULE Recording ------------------------------
(***************************************************************************)
(* One browser recording: the harness that runs the script in the container *)
(* (sandbox/harness/record.cjs), and the polls of a program that read its   *)
(* RESULT line and publish the video (sandbox/record.ts).                   *)
(***************************************************************************)
EXTENDS Naturals

CONSTANTS
  Polls,             \* polls of the recording; a program may have several in flight
  RecordingFailures  \* bound: calls to the container or to R2 that fail

VARIABLES
  harness,  \* the process: its step, its verdict so far, and whether it has emitted
  log,      \* the last RESULT line in the process's log, NoResult before
  destroyed,\* the container was torn down
  poll,     \* what each poll is doing
  bucket,   \* R2 holds the proof
  trace     \* failures, and what the properties ask for

recordingVars == <<harness, log, destroyed, poll, bucket, trace>>

Videos == {"ok", "empty"}
NoResult == [state |-> "none", video |-> "none"]
IdlePoll == [pc |-> "idle", seen |-> NoResult, reads |-> 0, answer |-> "none", url |-> FALSE]

Fails == trace.failures < RecordingFailures

-----------------------------------------------------------------------------
(* The harness.                                                            *)

\* startRecording: mkdir, write the script, start the process under the
\* recording's id.
StartRecording ==
  /\ harness.pc = "none"
  /\ harness' = [harness EXCEPT !.pc = "launch"]
  /\ UNCHANGED <<log, destroyed, poll, bucket, trace>>

\* emit: only the first result is written; the process then has two seconds.
Emit(h, result) ==
  IF h.emitted THEN h ELSE [h EXCEPT !.result = result, !.emitted = TRUE]

Result(state, video) == [state |-> state, video |-> video]

\* main: no Chromium in the image's cache.
NoBrowser ==
  /\ harness.pc = "launch" /\ ~destroyed
  /\ harness' = [Emit(harness, Result("failed", "none")) EXCEPT !.pc = "over"]
  /\ UNCHANGED <<log, destroyed, poll, bucket, trace>>

\* main: the script ends, throws, or its own timer rejects first.
ScriptEnds ==
  /\ harness.pc = "launch" /\ ~destroyed
  /\ \E state \in {"passed", "failed"} :
       harness' = [harness EXCEPT !.pc = "closing", !.state = state]
  /\ UNCHANGED <<log, destroyed, poll, bucket, trace>>

\* context.close and browser.close
Close ==
  /\ harness.pc = "closing" /\ ~destroyed
  /\ harness' = [harness EXCEPT !.pc = "transcode"]
  /\ UNCHANGED <<log, destroyed, poll, bucket, trace>>

\* main: there may be no webm, ffmpeg may fail, and an mp4 over the ceiling is
\* removed; then the result.
Transcode ==
  /\ harness.pc = "transcode" /\ ~destroyed
  /\ \E video \in Videos \cup {"none"} :
       harness' = [Emit(harness, Result(harness.state, video)) EXCEPT !.pc = "over"]
  /\ UNCHANGED <<log, destroyed, poll, bucket, trace>>

\* Fault: the wall clock is cleared with the script's own timer.
ScriptOnly == {"launch"}

\* The steps the wall clock bounds: script, close and transcode.
Watched == {"launch", "closing", "transcode"}

\* The wall clock: whatever hangs, a result without a video is written, and main
\* goes on until the process exits.
WallClock ==
  /\ harness.pc \in Watched /\ ~harness.emitted /\ ~destroyed
  /\ harness' = Emit(harness, Result(IF harness.pc = "launch" THEN "failed" ELSE harness.state,
                                  "none"))
  /\ UNCHANGED <<log, destroyed, poll, bucket, trace>>

\* The process ends after its result, or is killed before it.
Exit ==
  /\ harness.pc \notin {"none", "exited"} /\ ~destroyed
  /\ harness.emitted \/ Fails
  /\ harness' = [harness EXCEPT !.pc = "exited"]
  /\ trace' = IF harness.emitted THEN trace ELSE [trace EXCEPT !.failures = @ + 1]
  /\ UNCHANGED <<log, destroyed, poll, bucket>>

\* stdout reaches the log, maybe after the exit is known.
Flush ==
  /\ ~destroyed
  /\ harness.emitted /\ log # harness.result
  /\ log' = harness.result
  /\ UNCHANGED <<harness, destroyed, poll, bucket, trace>>

\* The run's container is torn down.
Destroyed ==
  /\ ~destroyed /\ harness.pc # "none"
  /\ destroyed' = TRUE
  /\ UNCHANGED <<harness, log, poll, bucket, trace>>

-----------------------------------------------------------------------------
(* A poll.                                                                 *)

Step(p, record) == poll' = [poll EXCEPT ![p] = record]

Answer(p, state, url) ==
  Step(p, [IdlePoll EXCEPT !.pc = "answered", !.answer = state, !.url = url])

\* checkRecording: getProcess.  A container that was torn down knows no process.
CheckRecording(p) ==
  /\ poll[p].pc \in {"idle", "answered"} /\ harness.pc # "none"
  /\ IF destroyed THEN Answer(p, "failed", FALSE)
     ELSE IF harness.pc # "exited" THEN Answer(p, "running", FALSE)
     ELSE Step(p, [IdlePoll EXCEPT !.pc = "read"])
  /\ UNCHANGED <<harness, log, destroyed, bucket, trace>>

\* The log of a process that has exited is read again when a clean exit shows no
\* result; a second time without one is a failure.
ReadLog(p) ==
  /\ poll[p].pc = "read"
  /\ IF destroyed THEN Answer(p, "error", FALSE)
     ELSE IF log # NoResult
     THEN IF log.video = "none" THEN Answer(p, log.state, FALSE)
          ELSE Step(p, [poll[p] EXCEPT !.pc = "head", !.seen = log])
     ELSE IF harness.emitted /\ poll[p].reads = 0
     THEN Step(p, [poll[p] EXCEPT !.reads = 1])
     ELSE Answer(p, "failed", FALSE)
  /\ UNCHANGED <<harness, log, destroyed, bucket, trace>>

\* publish: the object is already there.
HeadObject(p) ==
  /\ poll[p].pc = "head"
  /\ IF bucket THEN Answer(p, poll[p].seen.state, TRUE)
     ELSE Step(p, [poll[p] EXCEPT !.pc = "video"])
  /\ UNCHANGED <<harness, log, destroyed, bucket, trace>>

\* publish: readBinary, and the refusals before a byte is sent.
ReadVideo(p) ==
  /\ poll[p].pc = "video" /\ ~destroyed
  /\ IF poll[p].seen.video = "empty" THEN Answer(p, poll[p].seen.state, FALSE)
     ELSE Step(p, [poll[p] EXCEPT !.pc = "put"])
  /\ UNCHANGED <<harness, log, destroyed, bucket, trace>>

Put(p) ==
  /\ poll[p].pc = "put" /\ ~destroyed
  /\ bucket' = TRUE
  /\ Answer(p, poll[p].seen.state, TRUE)
  /\ trace' = [trace EXCEPT !.published = TRUE]
  /\ UNCHANGED <<harness, log, destroyed>>

\* Fault: whatever failed, the object is deleted.
DeletesAlways(p) == TRUE

\* publish deletes only after it has begun to write.
Deletes(p) == poll[p].pc = "put"

\* publish: head, readBinary or put throws, as a read from a container that is gone
\* does; the verdict is answered without a URL.
PublishFails(p) ==
  /\ poll[p].pc \in {"head", "video", "put"}
  /\ LET gone == destroyed /\ poll[p].pc # "head" IN
     /\ gone \/ Fails
     /\ trace' = [trace EXCEPT !.failures = IF gone THEN @ ELSE @ + 1,
                            !.overlap = @ \/ (bucket /\ poll[p].pc = "put")]
  /\ bucket' = (bucket /\ ~Deletes(p))
  /\ Answer(p, poll[p].seen.state, FALSE)
  /\ UNCHANGED <<harness, log, destroyed>>

-----------------------------------------------------------------------------
(* Specification.                                                          *)

RecordingInit ==
  /\ harness = [pc |-> "none", state |-> "failed", emitted |-> FALSE, result |-> NoResult]
  /\ log = NoResult
  /\ destroyed = FALSE
  /\ poll = [p \in Polls |-> IdlePoll]
  /\ bucket = FALSE
  /\ trace = [failures |-> 0, published |-> FALSE, overlap |-> FALSE]

Harness == NoBrowser \/ ScriptEnds \/ Close \/ Transcode \/ WallClock \/ Exit \/ Flush

RecordingNext ==
  \/ StartRecording
  \/ Harness
  \/ Destroyed
  \/ \E p \in Polls :
       CheckRecording(p) \/ ReadLog(p) \/ HeadObject(p) \/ ReadVideo(p) \/ Put(p) \/ PublishFails(p)

RecordingSpec == RecordingInit /\ [][RecordingNext]_recordingVars

\* The wall clock fires and a process that has emitted exits; the script, the
\* browser and ffmpeg may hang, and nobody has to poll.
RecordingFairness == WF_recordingVars(WallClock) /\ WF_recordingVars(Exit /\ harness.emitted)

-----------------------------------------------------------------------------
(* Properties.                                                             *)

RecordingTypeOK ==
  /\ harness.pc \in {"none", "launch", "closing", "transcode", "over", "exited"}
  /\ harness.state \in {"passed", "failed"} /\ harness.emitted \in BOOLEAN
  /\ {log, harness.result} \subseteq
       [state : {"none", "passed", "failed"}, video : Videos \cup {"none"}]
  /\ poll \in [Polls -> [pc : {"idle", "read", "head", "video", "put", "answered"},
                         seen : [state : {"none", "passed", "failed"}, video : Videos \cup {"none"}],
                         reads : 0..1, url : BOOLEAN,
                         answer : {"none", "running", "passed", "failed", "error"}]]
  /\ destroyed \in BOOLEAN /\ bucket \in BOOLEAN

\* A proof whose URL was given out stays in the bucket, whatever later polls meet; the
\* only thing that removes it is a second poll whose own put, begun before the first
\* one published, fails.
PublishedStays == trace.published /\ ~trace.overlap => bucket

\* What a poll says is what the harness found: nobody is told that a script passed which
\* did not, nor given a URL while the recording runs or for a video without a byte.
AnswersAreTrue ==
  \A p \in Polls :
    /\ poll[p].answer = "passed" => harness.pc = "exited" /\ harness.result.state = "passed"
    /\ poll[p].url => harness.pc = "exited" /\ harness.result.video = "ok"

RecordingSafe == PublishedStays /\ AnswersAreTrue

\* A recording that was started reports, exits or loses its container, though the
\* browser, the close or the transcode hang.
RecordingEnds == harness.pc # "none" ~> harness.pc = "exited" \/ destroyed
=============================================================================
