-------------------------- MODULE CapabilitiesProofs --------------------------
(***************************************************************************)
(* The safety properties of Recording, for any number of polls and          *)
(* failures, and those of Sandbox, for any programs, scenes and window.     *)
(***************************************************************************)
EXTENDS Sandbox, Recording, SequenceTheorems, TLAPS

(***************************************************************************)
(* Recording: what has been read from the log of a process that exited is   *)
(* its one result, and only a video with bytes in it reaches the bucket.    *)
(***************************************************************************)
Results == [state : {"none", "passed", "failed"}, video : Videos \cup {"none"}]

HarnessRecords ==
  [pc : {"none", "launch", "closing", "transcode", "over", "exited"},
   state : {"passed", "failed"}, emitted : BOOLEAN, result : Results]

PollRecords ==
  [pc : {"idle", "read", "head", "video", "put", "answered"}, seen : Results, reads : 0..1,
   url : BOOLEAN, answer : {"none", "running", "passed", "failed", "error"}]

RecordingTyped ==
  /\ harness \in HarnessRecords /\ log \in Results /\ destroyed \in BOOLEAN
  /\ poll \in [Polls -> PollRecords] /\ bucket \in BOOLEAN
  /\ trace \in [failures : Nat, published : BOOLEAN, overlap : BOOLEAN]

\* The harness writes one result, and the log has that or nothing yet.
LogInv ==
  /\ ~harness.emitted => harness.result = NoResult
  /\ harness.emitted => harness.result.state # "none"
  /\ log # NoResult => harness.emitted /\ log = harness.result

\* A poll reads the log of a process that exited, and goes on with what it says.
PollInv ==
  /\ \A p \in Polls : poll[p].pc \in {"read", "head", "video", "put"} => harness.pc = "exited"
  /\ \A p \in Polls : poll[p].pc \in {"head", "video", "put"} =>
       log # NoResult /\ poll[p].seen = log /\ log.video # "none"
  /\ \A p \in Polls : poll[p].pc = "put" => log.video = "ok"
  /\ bucket => harness.pc = "exited" /\ log # NoResult /\ log.video = "ok"

RecordingInv == RecordingTyped /\ LogInv /\ PollInv /\ RecordingSafe

\* What every step of the process keeps: the result it emitted, and that it exited.
GoesOn ==
  /\ harness' \in HarnessRecords
  /\ ~harness'.emitted => harness'.result = NoResult
  /\ harness'.emitted => harness'.result.state # "none"
  /\ harness.emitted => harness'.emitted /\ harness'.result = harness.result
  /\ harness.pc = "exited" => harness'.pc = "exited"

LEMMA ResultsTyped ==
  /\ NoResult \in Results /\ NoResult.state = "none"
  /\ \A state \in {"passed", "failed"}, video \in Videos \cup {"none"} :
       Result(state, video) \in Results /\ Result(state, video).state # "none"
BY DEF NoResult, Results, Videos, Result

LEMMA IdlePollTyped ==
  /\ IdlePoll \in PollRecords
  /\ \A pc \in {"read", "answered"} :
       \A state \in {"none", "running", "passed", "failed", "error"}, url \in BOOLEAN :
         [IdlePoll EXCEPT !.pc = pc, !.answer = state, !.url = url] \in PollRecords
  /\ [IdlePoll EXCEPT !.pc = "read"] \in PollRecords
<1>1. NoResult \in Results /\ 0 \in 0..1
  BY ResultsTyped
<1> HIDE DEF NoResult
<1> QED BY <1>1 DEF IdlePoll, PollRecords

LEMMA EmitGoesOn ==
  ASSUME NEW h \in HarnessRecords, ~h.emitted => h.result = NoResult, NEW r \in Results,
         h.emitted => h.result.state # "none", r.state # "none"
  PROVE  /\ Emit(h, r) \in HarnessRecords /\ Emit(h, r).emitted
         /\ Emit(h, r).result.state # "none"
         /\ h.emitted => Emit(h, r).result = h.result
         /\ Emit(h, r).pc = h.pc /\ Emit(h, r).state = h.state
BY DEF Emit, HarnessRecords

LEMMA HarnessGoesOn ==
  ASSUME RecordingInv, NoBrowser \/ ScriptEnds \/ Close \/ Transcode \/ WallClock \/ Exit
  PROVE  GoesOn /\ trace' \in [failures : Nat, published : BOOLEAN, overlap : BOOLEAN]
         /\ trace'.published = trace.published /\ trace'.overlap = trace.overlap
         /\ UNCHANGED <<log, destroyed, poll, bucket>>
<1> USE ResultsTyped
<1>1. /\ harness \in HarnessRecords /\ (~harness.emitted => harness.result = NoResult)
      /\ harness.emitted => harness.result.state # "none"
  BY DEF RecordingInv, RecordingTyped, LogInv
<1>2. trace \in [failures : Nat, published : BOOLEAN, overlap : BOOLEAN]
  BY DEF RecordingInv, RecordingTyped
<1>3. CASE NoBrowser
  <2> DEFINE h == Emit(harness, Result("failed", "none"))
  <2>1. h \in HarnessRecords /\ h.emitted /\ h.result.state # "none" /\ (harness.emitted => h.result = harness.result)
    BY <1>1, EmitGoesOn
  <2>2. harness' = [h EXCEPT !.pc = "over"] /\ harness.pc = "launch"
        /\ UNCHANGED <<log, destroyed, poll, bucket, trace>>
    BY <1>3 DEF NoBrowser
  <2> HIDE DEF h
  <2> QED BY <1>1, <1>2, <2>1, <2>2 DEF GoesOn, HarnessRecords
<1>4. CASE ScriptEnds
  BY <1>1, <1>2, <1>4 DEF ScriptEnds, GoesOn, HarnessRecords
<1>5. CASE Close
  BY <1>1, <1>2, <1>5 DEF Close, GoesOn, HarnessRecords
<1>6. CASE Transcode
  <2>1. PICK video \in Videos \cup {"none"} :
          harness' = [Emit(harness, Result(harness.state, video)) EXCEPT !.pc = "over"]
    BY <1>6 DEF Transcode
  <2> DEFINE h == Emit(harness, Result(harness.state, video))
  <2>2. /\ harness.state \in {"passed", "failed"} /\ Result(harness.state, video) \in Results
        /\ Result(harness.state, video).state # "none"
    BY <1>1 DEF HarnessRecords
  <2>3. h \in HarnessRecords /\ h.emitted /\ h.result.state # "none" /\ (harness.emitted => h.result = harness.result)
    BY <1>1, <2>2, EmitGoesOn
  <2>4. harness' = [h EXCEPT !.pc = "over"] /\ harness.pc = "transcode"
        /\ UNCHANGED <<log, destroyed, poll, bucket, trace>>
    BY <1>6, <2>1 DEF Transcode
  <2> HIDE DEF h
  <2> QED BY <1>1, <1>2, <2>3, <2>4 DEF GoesOn, HarnessRecords
<1>7. CASE WallClock
  <2> DEFINE state == IF harness.pc = "launch" THEN "failed" ELSE harness.state
  <2>1. state \in {"passed", "failed"}
    BY <1>1 DEF HarnessRecords
  <2>2. harness' = Emit(harness, Result(state, "none"))
        /\ UNCHANGED <<log, destroyed, poll, bucket, trace>>
    BY <1>7 DEF WallClock
  <2> HIDE DEF state
  <2>3. Result(state, "none") \in Results /\ Result(state, "none").state # "none"
    BY <2>1
  <2> QED BY <1>1, <1>2, <2>2, <2>3, EmitGoesOn DEF GoesOn
<1>8. CASE Exit
  <2>1. harness' = [harness EXCEPT !.pc = "exited"] /\ UNCHANGED <<log, destroyed, poll, bucket>>
    BY <1>8 DEF Exit
  <2>2. trace' \in [failures : Nat, published : BOOLEAN, overlap : BOOLEAN]
        /\ trace'.published = trace.published /\ trace'.overlap = trace.overlap
    BY <1>2, <1>8 DEF Exit
  <2> QED BY <1>1, <2>1, <2>2 DEF GoesOn, HarnessRecords
<1> QED BY <1>3, <1>4, <1>5, <1>6, <1>7, <1>8

\* Whatever the process does next, what the polls know of it stays true.
LEMMA GoingOnKeepsInv ==
  ASSUME RecordingInv, GoesOn,
         trace' \in [failures : Nat, published : BOOLEAN, overlap : BOOLEAN],
         trace'.published = trace.published, trace'.overlap = trace.overlap,
         UNCHANGED <<log, poll, bucket>>, destroyed' \in BOOLEAN
  PROVE  RecordingInv'
<1>1. RecordingTyped'
  BY DEF RecordingInv, RecordingTyped, GoesOn
<1>2. LogInv'
  BY DEF RecordingInv, LogInv, GoesOn
<1>3. PollInv'
  BY DEF RecordingInv, PollInv, GoesOn
<1>4. PublishedStays'
  BY DEF RecordingInv, RecordingSafe, PublishedStays
<1>5. AnswersAreTrue'
  <2>1. harness.result.state = "passed" \/ harness.result.video = "ok" => harness.emitted
    BY DEF RecordingInv, LogInv, NoResult
  <2> QED BY <2>1 DEF RecordingInv, RecordingSafe, AnswersAreTrue, GoesOn
<1> QED BY <1>1, <1>2, <1>3, <1>4, <1>5 DEF RecordingInv, RecordingSafe

LEMMA FlushKeepsInv ==
  ASSUME RecordingInv, Flush
  PROVE  RecordingInv'
<1>1. log = NoResult /\ log' = harness.result /\ harness.emitted
      /\ UNCHANGED <<harness, destroyed, poll, bucket, trace>>
  BY DEF RecordingInv, LogInv, Flush
<1>2. RecordingTyped'
  BY <1>1 DEF RecordingInv, RecordingTyped, HarnessRecords
<1>3. LogInv'
  BY <1>1 DEF RecordingInv, LogInv
<1>4. PollInv'
  BY <1>1 DEF RecordingInv, PollInv
<1>5. RecordingSafe'
  BY <1>1 DEF RecordingInv, RecordingSafe, PublishedStays, AnswersAreTrue
<1> QED BY <1>2, <1>3, <1>4, <1>5 DEF RecordingInv

-----------------------------------------------------------------------------
(* A poll.                                                                 *)

LEMMA StepTyped ==
  ASSUME RecordingTyped, NEW p \in Polls, NEW r \in PollRecords, Step(p, r)
  PROVE  /\ poll' \in [Polls -> PollRecords] /\ poll'[p] = r
         /\ \A q \in Polls : q # p => poll'[q] = poll[q]
BY DEF RecordingTyped, Step

LEMMA AnswerTyped ==
  ASSUME RecordingTyped, NEW p \in Polls, NEW url \in BOOLEAN,
         NEW state \in {"none", "running", "passed", "failed", "error"}, Answer(p, state, url)
  PROVE  /\ poll' \in [Polls -> PollRecords]
         /\ poll'[p].pc = "answered" /\ poll'[p].answer = state /\ poll'[p].url = url
         /\ \A q \in Polls : q # p => poll'[q] = poll[q]
<1> DEFINE r == [IdlePoll EXCEPT !.pc = "answered", !.answer = state, !.url = url]
<1>1. r \in PollRecords /\ r.pc = "answered" /\ r.answer = state /\ r.url = url
  BY IdlePollTyped DEF IdlePoll
<1>2. Step(p, r)
  BY DEF Answer
<1> HIDE DEF r
<1> QED BY <1>1, <1>2, StepTyped

\* A poll that goes on says nothing, one that answers says the truth; nothing else moves.
LEMMA PollKeepsInv ==
  ASSUME RecordingInv, NEW p \in Polls,
         poll' \in [Polls -> PollRecords], \A q \in Polls : q # p => poll'[q] = poll[q],
         poll'[p].pc \in {"read", "head", "video", "put"} => harness.pc = "exited",
         poll'[p].pc \in {"head", "video", "put"} =>
           log # NoResult /\ poll'[p].seen = log /\ log.video # "none",
         poll'[p].pc = "put" => log.video = "ok",
         poll'[p].answer = "passed" => harness.pc = "exited" /\ harness.result.state = "passed",
         poll'[p].url => harness.pc = "exited" /\ harness.result.video = "ok",
         UNCHANGED <<harness, log, destroyed, bucket, trace>>
  PROVE  RecordingInv'
<1>1. RecordingTyped' /\ LogInv'
  BY DEF RecordingInv, RecordingTyped, LogInv
<1>2. PollInv'
  BY DEF RecordingInv, PollInv
<1>3. RecordingSafe'
  BY DEF RecordingInv, RecordingSafe, PublishedStays, AnswersAreTrue
<1> QED BY <1>1, <1>2, <1>3 DEF RecordingInv

LEMMA ReadKeepsInv ==
  ASSUME RecordingInv, NEW p \in Polls,
         CheckRecording(p) \/ ReadLog(p) \/ HeadObject(p) \/ ReadVideo(p)
  PROVE  RecordingInv'
<1> USE DEF RecordingInv, PollInv, LogInv
<1>1. poll[p] \in PollRecords /\ log \in Results
      /\ log.state \in {"none", "passed", "failed"} /\ log.video \in {"ok", "empty", "none"}
  BY DEF RecordingTyped, Results, Videos
<1>2. UNCHANGED <<harness, log, destroyed, bucket, trace>>
  BY DEF CheckRecording, ReadLog, HeadObject, ReadVideo
<1>3. CASE \E state \in {"running", "failed", "error"} : Answer(p, state, FALSE)
  BY <1>2, <1>3, AnswerTyped, PollKeepsInv
<1>4. ASSUME harness.pc = "exited", log # NoResult, NEW url \in BOOLEAN, url => log.video = "ok",
             Answer(p, log.state, url)
      PROVE  RecordingInv'
  BY <1>1, <1>2, <1>4, AnswerTyped, PollKeepsInv
<1>5. CASE CheckRecording(p)
  <2>1. CASE destroyed \/ harness.pc # "exited"
    BY <1>3, <1>5, <2>1 DEF CheckRecording
  <2>2. CASE ~destroyed /\ harness.pc = "exited"
    <3> DEFINE r == [IdlePoll EXCEPT !.pc = "read"]
    <3>1. r \in PollRecords /\ r.pc = "read" /\ r.answer = "none" /\ ~r.url
      BY IdlePollTyped DEF IdlePoll
    <3>2. Step(p, r)
      BY <1>5, <2>2 DEF CheckRecording
    <3> HIDE DEF r
    <3> QED BY <1>2, <2>2, <3>1, <3>2, StepTyped, PollKeepsInv
  <2> QED BY <2>1, <2>2
<1>6. CASE ReadLog(p)
  <2>0. harness.pc = "exited"
    BY <1>6 DEF ReadLog
  <2>1. CASE destroyed \/ (log = NoResult /\ ~(harness.emitted /\ poll[p].reads = 0))
    BY <1>3, <1>6, <2>1 DEF ReadLog
  <2>2. CASE ~destroyed /\ log # NoResult /\ log.video = "none"
    BY <1>4, <1>6, <2>0, <2>2 DEF ReadLog
  <2>3. CASE ~destroyed /\ log # NoResult /\ log.video # "none"
    <3> DEFINE r == [poll[p] EXCEPT !.pc = "head", !.seen = log]
    <3>1. /\ r \in PollRecords /\ r.pc = "head" /\ r.seen = log
          /\ r.answer = poll[p].answer /\ r.url = poll[p].url
      BY <1>1 DEF PollRecords
    <3>2. Step(p, r)
      BY <1>6, <2>3 DEF ReadLog
    <3> HIDE DEF r
    <3> QED BY <1>2, <2>0, <2>3, <3>1, <3>2, StepTyped, PollKeepsInv
               DEF RecordingSafe, AnswersAreTrue
  <2>4. CASE ~destroyed /\ log = NoResult /\ harness.emitted /\ poll[p].reads = 0
    <3> DEFINE r == [poll[p] EXCEPT !.reads = 1]
    <3>1. /\ r \in PollRecords /\ r.pc = "read"
          /\ r.answer = poll[p].answer /\ r.url = poll[p].url
      BY <1>1, <1>6 DEF PollRecords, ReadLog
    <3>2. Step(p, r)
      BY <1>6, <2>4 DEF ReadLog
    <3> HIDE DEF r
    <3> QED BY <1>2, <2>0, <2>4, <3>1, <3>2, StepTyped, PollKeepsInv
               DEF RecordingSafe, AnswersAreTrue
  <2> QED BY <2>1, <2>2, <2>3, <2>4 DEF RecordingTyped
<1>7. CASE HeadObject(p)
  <2>0. harness.pc = "exited" /\ log # NoResult /\ poll[p].seen = log /\ log.video # "none"
    BY <1>7 DEF HeadObject
  <2>1. CASE bucket
    BY <1>4, <1>7, <2>0, <2>1 DEF HeadObject
  <2>2. CASE ~bucket
    <3> DEFINE r == [poll[p] EXCEPT !.pc = "video"]
    <3>1. /\ r \in PollRecords /\ r.pc = "video" /\ r.seen = log
          /\ r.answer = poll[p].answer /\ r.url = poll[p].url
      BY <1>1, <2>0 DEF PollRecords
    <3>2. Step(p, r)
      BY <1>7, <2>2 DEF HeadObject
    <3> HIDE DEF r
    <3> QED BY <1>2, <2>0, <3>1, <3>2, StepTyped, PollKeepsInv DEF RecordingSafe, AnswersAreTrue
  <2> QED BY <2>1, <2>2
<1>8. CASE ReadVideo(p)
  <2>0. harness.pc = "exited" /\ log # NoResult /\ poll[p].seen = log /\ log.video # "none"
    BY <1>8 DEF ReadVideo
  <2>1. CASE log.video = "empty"
    BY <1>4, <1>8, <2>0, <2>1 DEF ReadVideo
  <2>2. CASE log.video # "empty"
    <3> DEFINE r == [poll[p] EXCEPT !.pc = "put"]
    <3>1. /\ r \in PollRecords /\ r.pc = "put" /\ r.seen = log
          /\ r.answer = poll[p].answer /\ r.url = poll[p].url
      BY <1>1, <2>0 DEF PollRecords
    <3>2. Step(p, r)
      BY <1>8, <2>0, <2>2 DEF ReadVideo
    <3>3. log.video = "ok"
      BY <1>1, <1>8, <2>0, <2>2 DEF ReadVideo
    <3> HIDE DEF r
    <3> QED BY <1>2, <2>0, <3>1, <3>2, <3>3, StepTyped, PollKeepsInv
               DEF RecordingSafe, AnswersAreTrue
  <2> QED BY <2>1, <2>2
<1> QED BY <1>5, <1>6, <1>7, <1>8

LEMMA PublishKeepsInv ==
  ASSUME RecordingInv, NEW p \in Polls, Put(p) \/ PublishFails(p)
  PROVE  RecordingInv'
<1> USE DEF RecordingInv, PollInv
<1>1. /\ poll[p].pc \in {"head", "video", "put"}
      /\ harness.pc = "exited" /\ log # NoResult /\ poll[p].seen = log
      /\ harness.emitted /\ log = harness.result
      /\ UNCHANGED <<harness, log, destroyed>>
  BY DEF Put, PublishFails, LogInv
<1>2. log.state \in {"none", "passed", "failed", "error", "running"}
      /\ trace \in [failures : Nat, published : BOOLEAN, overlap : BOOLEAN]
  BY DEF RecordingTyped, Results
<1>3. LogInv'
  BY <1>1 DEF LogInv
<1>4. log.state \in {"running", "passed", "failed", "error"}
  BY <1>1, <1>2 DEF LogInv
<1>5. CASE Put(p)
  <2>1. Answer(p, log.state, TRUE) /\ bucket' = TRUE /\ poll[p].pc = "put"
        /\ trace' = [trace EXCEPT !.published = TRUE]
    BY <1>1, <1>5 DEF Put
  <2>2. RecordingTyped'
    BY <1>1, <1>2, <1>4, <2>1, AnswerTyped DEF RecordingTyped
  <2>3. PollInv'
    BY <1>1, <1>4, <2>1, AnswerTyped
  <2>4. RecordingSafe'
    BY <1>1, <1>4, <2>1, AnswerTyped DEF RecordingSafe, PublishedStays, AnswersAreTrue
  <2> QED BY <1>3, <2>2, <2>3, <2>4
<1>6. CASE PublishFails(p)
  <2> DEFINE gone == destroyed /\ poll[p].pc # "head"
  <2>1. /\ Answer(p, log.state, FALSE) /\ bucket' = (bucket /\ ~(poll[p].pc = "put"))
        /\ trace' = [trace EXCEPT !.failures = IF gone THEN @ ELSE @ + 1,
                            !.overlap = @ \/ (bucket /\ poll[p].pc = "put")]
    BY <1>1, <1>6 DEF PublishFails, Deletes
  <2>2. /\ trace' \in [failures : Nat, published : BOOLEAN, overlap : BOOLEAN]
        /\ trace'.published = trace.published
        /\ trace'.overlap = (trace.overlap \/ (bucket /\ poll[p].pc = "put"))
    <3> DEFINE n == IF gone THEN trace.failures ELSE trace.failures + 1
               o == trace.overlap \/ (bucket /\ poll[p].pc = "put")
    <3>1. n \in Nat /\ o \in BOOLEAN
      BY <1>2
    <3>2. trace' = [trace EXCEPT !.failures = n, !.overlap = o]
      BY <2>1
    <3>3. trace'.overlap = o
      BY <1>2, <3>2
    <3> HIDE DEF n, o
    <3>4. trace' \in [failures : Nat, published : BOOLEAN, overlap : BOOLEAN]
          /\ trace'.published = trace.published
      BY <1>2, <3>1, <3>2
    <3> QED BY <3>3, <3>4 DEF o
  <2>3. RecordingTyped'
    BY <1>1, <1>2, <1>4, <2>1, <2>2, AnswerTyped DEF RecordingTyped
  <2>4. PollInv'
    BY <1>1, <1>4, <2>1, AnswerTyped
  <2>5. PublishedStays'
    BY <2>1, <2>2 DEF RecordingSafe, PublishedStays
  <2>6. AnswersAreTrue'
    BY <1>1, <1>4, <2>1, AnswerTyped DEF RecordingSafe, AnswersAreTrue
  <2> QED BY <1>3, <2>3, <2>4, <2>5, <2>6 DEF RecordingSafe
<1> QED BY <1>5, <1>6

-----------------------------------------------------------------------------
LEMMA RecordingInitEstablishesInv ==
  ASSUME RecordingInit
  PROVE  RecordingInv
<1>1. RecordingTyped
  <2>1. harness \in HarnessRecords
    BY ResultsTyped DEF RecordingInit, HarnessRecords
  <2> QED BY <2>1, ResultsTyped, IdlePollTyped DEF RecordingInit, RecordingTyped
<1>2. LogInv /\ PollInv
  BY DEF RecordingInit, LogInv, PollInv, IdlePoll
<1>3. RecordingSafe
  BY DEF RecordingInit, RecordingSafe, PublishedStays, AnswersAreTrue, IdlePoll
<1> QED BY <1>1, <1>2, <1>3 DEF RecordingInv

LEMMA RecordingStepKeepsInv ==
  ASSUME RecordingInv, [RecordingNext]_recordingVars
  PROVE  RecordingInv'
<1>1. trace \in [failures : Nat, published : BOOLEAN, overlap : BOOLEAN] /\ destroyed \in BOOLEAN
  BY DEF RecordingInv, RecordingTyped
<1>2. CASE StartRecording
  <2>1. GoesOn /\ UNCHANGED <<log, destroyed, poll, bucket, trace>>
    BY <1>2 DEF StartRecording, GoesOn, RecordingInv, RecordingTyped, LogInv, HarnessRecords
  <2> QED BY <1>1, <2>1, GoingOnKeepsInv
<1>3. CASE Harness
  <2>1. CASE Flush
    BY <2>1, FlushKeepsInv
  <2>2. CASE ~Flush
    <3>1. NoBrowser \/ ScriptEnds \/ Close \/ Transcode \/ WallClock \/ Exit
      BY <1>3, <2>2 DEF Harness
    <3> QED BY <1>1, <3>1, HarnessGoesOn, GoingOnKeepsInv
  <2> QED BY <2>1, <2>2
<1>4. CASE Destroyed \/ UNCHANGED recordingVars
  <2>1. GoesOn /\ destroyed' \in BOOLEAN /\ UNCHANGED <<log, poll, bucket, trace>>
    BY <1>1, <1>4
       DEF Destroyed, recordingVars, GoesOn, RecordingInv, RecordingTyped, LogInv
  <2> QED BY <1>1, <2>1, GoingOnKeepsInv
<1>5. ASSUME NEW p \in Polls,
             \/ CheckRecording(p) \/ ReadLog(p) \/ HeadObject(p) \/ ReadVideo(p)
             \/ Put(p) \/ PublishFails(p)
      PROVE  RecordingInv'
  BY <1>5, ReadKeepsInv, PublishKeepsInv
<1> QED BY <1>2, <1>3, <1>4, <1>5 DEF RecordingNext

\* The inductive invariant of a recording holds in every state.
THEOREM RecordingInvariance == RecordingSpec => []RecordingInv
BY RecordingInitEstablishesInv, RecordingStepKeepsInv, PTL DEF RecordingSpec

\* Every record of a recording keeps its shape (record.ts, harness/record.cjs).
THEOREM RecordingTypeCorrect == RecordingSpec => []RecordingTypeOK
<1>1. RecordingInv => RecordingTypeOK
  BY DEF RecordingInv, RecordingTyped, RecordingTypeOK, HarnessRecords, PollRecords, Results
<1> QED BY <1>1, RecordingInvariance, PTL

\* Nobody is told that a script passed which did not, or given the URL of a video that is not
\* there, and a published video is gone only after a second poll's own upload failed over it
\* (record.ts checkRecording and publish), however many polls there are and whatever fails.
THEOREM SafeRecording == RecordingSpec => []RecordingSafe
<1>1. RecordingInv => RecordingSafe
  BY DEF RecordingInv
<1> QED BY <1>1, RecordingInvariance, PTL

(***************************************************************************)
(* Sandbox.                                                                *)
(***************************************************************************)
MachineRecords == [up : BOOLEAN, process : Processes, made : Nat \ {0}]

ProgramRecords ==
  [pc : {"idle", "join", "ask", "report", "start"}, joined : Programs \cup {NoProgram},
   seen : {"none", "provisioning", "ready", "wedged", "failed"}, ready : Nat,
   answer : {"provisioning", "ready", "failed"}]

HistoryRecords ==
  [faults : Nat, ends : Nat, starts : Nat, used : BOOLEAN, cut : BOOLEAN, kept : BOOLEAN,
   missed : BOOLEAN]

Projections == [over : BOOLEAN, age : Nat]

SandboxTyped ==
  /\ machine \in MachineRecords
  /\ program \in [Programs -> ProgramRecords]
  /\ flight \in Programs \cup {NoProgram}
  /\ relaunched \in BOOLEAN /\ over \in BOOLEAN /\ rowOver \in BOOLEAN
  /\ ending \in {"no", "teardown", "destroy"} /\ sweep \in {"none", "destroy"}
  /\ sweeps \in Nat /\ unprojected \in Seq(Projections)
  /\ history \in HistoryRecords
  /\ \A p \in Programs : program[p].ready <= machine.made
  /\ \A p \in Programs : program[p].pc = "report" => program[p].seen # "none"

\* One boot at a time looks at the container, what it has seen of it is still so, and the
\* container that it is about to kill the processes of is nobody's: unless a teardown fell
\* into a boot.
BootInv ==
  ~history.cut =>
    /\ \A p \in Programs : program[p].pc \in {"ask", "report", "start"} => flight = p
    /\ \A p \in Programs : program[p].pc = "report" /\ program[p].seen = "ready" =>
         machine.process = "completed"
    /\ \A p \in Programs :
         program[p].pc = "start" \/ (program[p].pc = "report" /\ program[p].seen = "wedged") =>
           \A q \in Programs : program[q].ready # machine.made
    /\ RunsOnProvisioned

\* Provisioning starts in a container without a process, or on the one relaunch.
StartsInv ==
  Undisturbed =>
    /\ machine.process = "absent" => history.starts = 0
    /\ history.starts <= (IF relaunched THEN 2 ELSE 1)
    /\ \A p \in Programs : program[p].pc = "start" =>
         machine.process = "absent" \/ (relaunched /\ history.starts <= 1)

\* A container that a run left up is one the sweep is at, or gets at yet.
LeftInv ==
  /\ over /\ rowOver /\ unprojected = <<>> /\ machine.up
  /\ ~history.used /\ ~history.kept /\ ~history.missed
  => sweep = "destroy" \/ sweeps < Window

SandboxInv == SandboxTyped /\ BootInv /\ StartsInv /\ LeftInv

-----------------------------------------------------------------------------
(* What the operators of Sandbox return.                                   *)

LEMMA IdleProgramTyped ==
  /\ IdleProgram \in ProgramRecords /\ IdleProgram.pc = "idle" /\ IdleProgram.ready = 0
  /\ \A answer \in {"provisioning", "ready", "failed"}, n \in Nat :
       /\ [IdleProgram EXCEPT !.answer = answer, !.ready = n] \in ProgramRecords
       /\ [IdleProgram EXCEPT !.answer = answer, !.ready = n].pc = "idle"
       /\ [IdleProgram EXCEPT !.answer = answer, !.ready = n].ready = n
BY DEF IdleProgram, ProgramRecords

LEMMA TouchTyped ==
  ASSUME machine \in MachineRecords
  PROVE  /\ Touch \in MachineRecords
         /\ Touch.process = machine.process /\ Touch.made = machine.made
BY DEF Touch, MachineRecords

LEMMA UsedTyped ==
  ASSUME history \in HistoryRecords, over \in BOOLEAN
  PROVE  /\ Used \in HistoryRecords
         /\ Used.faults = history.faults /\ Used.ends = history.ends
         /\ Used.starts = history.starts /\ Used.cut = history.cut
         /\ Used.kept = history.kept /\ Used.missed = history.missed
         /\ over => Used.used
<1> DEFINE used == history.used \/ over
<1>1. used \in BOOLEAN /\ (over => used)
  BY DEF HistoryRecords
<1>2. Used = [history EXCEPT !.used = used]
  BY DEF Used
<1> HIDE DEF used
<1> QED BY <1>1, <1>2 DEF HistoryRecords

LEMMA FaultCounts ==
  ASSUME history \in HistoryRecords, Fault
  PROVE  /\ history' \in HistoryRecords /\ history'.faults # 0
         /\ history'.ends = history.ends /\ history'.starts = history.starts
         /\ history'.cut = history.cut /\ history'.used = history.used
         /\ history'.kept = history.kept /\ history'.missed = history.missed
BY DEF Fault, HistoryRecords

LEMMA DestroyCounts ==
  ASSUME SandboxTyped, Destroy
  PROVE  /\ machine' \in MachineRecords /\ ~machine'.up
         /\ machine'.process = "absent" /\ machine'.made = machine.made + 1
         /\ history' \in HistoryRecords /\ history'.starts = 0
         /\ history'.faults = history.faults /\ history'.missed = history.missed
         /\ history.cut \/ (\E p \in Programs : UnderWay(p)) => history'.cut
<1> DEFINE cut == history.cut \/ \E p \in Programs : UnderWay(p)
<1>1. machine' \in MachineRecords /\ ~machine'.up
      /\ machine'.process = "absent" /\ machine'.made = machine.made + 1
  BY DEF Destroy, Asleep, SandboxTyped, MachineRecords, Processes, Running
<1>2. cut \in BOOLEAN /\ history \in HistoryRecords
  BY DEF SandboxTyped, HistoryRecords
<1>3. history' = [history EXCEPT !.used = FALSE, !.kept = FALSE, !.starts = 0, !.cut = cut]
  BY DEF Destroy
<1>4. history'.cut = cut
  BY <1>2, <1>3 DEF HistoryRecords
<1> HIDE DEF cut
<1>5. /\ history' \in HistoryRecords /\ history'.starts = 0
      /\ history'.faults = history.faults /\ history'.missed = history.missed
  BY <1>2, <1>3 DEF HistoryRecords
<1> QED BY <1>1, <1>4, <1>5 DEF cut

\* The boot that is over and those that joined it are idle again; of the others nothing changes.
LEMMA SettleTyped ==
  ASSUME SandboxTyped, NEW p \in Programs, NEW answer \in {"provisioning", "ready", "failed"},
         Settle(p, answer)
  PROVE  /\ program' \in [Programs -> ProgramRecords] /\ flight' = NoProgram
         /\ program'[p].pc = "idle"
         /\ \A q \in Programs : program'[q].ready <= machine.made
         /\ \A q \in Programs :
              \/ program'[q] = program[q]
              \/ /\ program'[q].pc = "idle"
                 /\ program'[q].ready = IF answer = "ready" THEN machine.made ELSE 0
<1> DEFINE n == IF answer = "ready" THEN machine.made ELSE 0
<1>1. n \in Nat /\ n <= machine.made
  BY DEF SandboxTyped, MachineRecords
<1> HIDE DEF n
<1> DEFINE r == [IdleProgram EXCEPT !.answer = answer, !.ready = n]
<1>2. r \in ProgramRecords /\ r.pc = "idle" /\ r.ready = n
  BY <1>1, IdleProgramTyped
<1>3. flight' = NoProgram
      /\ program' = [q \in Programs |->
           IF q # p /\ program[q].joined # p THEN program[q] ELSE r]
  BY DEF Settle, n
<1> HIDE DEF r
<1>4. program' \in [Programs -> ProgramRecords]
  BY <1>2, <1>3 DEF SandboxTyped
<1>5. \A q \in Programs : program'[q] = program[q] \/ program'[q] = r
  BY <1>3
<1>6. program'[p] = r
  BY <1>3
<1>7. \A q \in Programs : program'[q].ready <= machine.made
  BY <1>1, <1>2, <1>5 DEF SandboxTyped
<1> QED BY <1>2, <1>3, <1>4, <1>5, <1>6, <1>7 DEF n

\* A program that goes on keeps what it knows of the container.
LEMMA GoesTo ==
  ASSUME SandboxTyped, NEW p \in Programs, NEW r \in ProgramRecords, r.ready = program[p].ready,
         program' = [program EXCEPT ![p] = r]
  PROVE  /\ program' \in [Programs -> ProgramRecords] /\ program'[p] = r
         /\ \A q \in Programs : q # p => program'[q] = program[q]
         /\ \A q \in Programs : program'[q].ready = program[q].ready
BY DEF SandboxTyped

LEMMA AgedTyped ==
  ASSUME SandboxTyped,
         unprojected' = [i \in DOMAIN unprojected |-> [unprojected[i] EXCEPT !.age = Older(@)]]
  PROVE  unprojected' \in Seq(Projections) /\ (unprojected' = <<>> => unprojected = <<>>)
<1>1. unprojected \in Seq(Projections) /\ Len(unprojected) \in Nat
      /\ DOMAIN unprojected = 1..Len(unprojected)
  BY LenProperties DEF SandboxTyped
<1>2. \A i \in 1..Len(unprojected) :
        [unprojected[i] EXCEPT !.age = Older(@)] \in Projections
  <2>1. \A n \in Nat : Older(n) \in Nat
    BY DEF Older
  <2> SUFFICES ASSUME NEW i \in 1..Len(unprojected)
               PROVE  [unprojected[i] EXCEPT !.age = Older(@)] \in Projections
    OBVIOUS
  <2>2. unprojected[i] \in Projections
    BY <1>1, ElementOfSeq
  <2>3. Older(unprojected[i].age) \in Nat
    BY <2>1, <2>2 DEF Projections
  <2> QED BY <2>2, <2>3 DEF Projections
<1>3. unprojected' \in [1..Len(unprojected) -> Projections]
  BY <1>1, <1>2
<1>4. unprojected' \in Seq(Projections) /\ Len(unprojected') = Len(unprojected)
  BY <1>1, <1>3
<1>5. unprojected' = <<>> => unprojected = <<>>
  BY <1>1, <1>4, EmptySeq
<1> QED BY <1>4, <1>5

-----------------------------------------------------------------------------
(* Booting.                                                                *)

\* A call reaches the container: used, if the run is over.
LEMMA CallKeepsLeft ==
  ASSUME SandboxInv, UNCHANGED endVars, over => history'.used
  PROVE  LeftInv'
BY DEF LeftInv, endVars

LEMMA BootKeepsInv ==
  ASSUME SandboxInv, NEW p \in Programs, Boot(p)
  PROVE  SandboxInv'
<1>1. SandboxTyped /\ program[p] \in ProgramRecords /\ program[p].pc = "idle"
      /\ UNCHANGED <<machine, relaunched, endVars, history>>
  BY DEF SandboxInv, SandboxTyped, Boot
<1>2. PICK r \in ProgramRecords :
        /\ program' = [program EXCEPT ![p] = r] /\ r.ready = program[p].ready
        /\ \/ r.pc = "ask" /\ flight = NoProgram /\ flight' = p
           \/ r.pc = "join" /\ flight' = flight
  <2>1. CASE Leads(p) /\ flight' = p /\ program' = [program EXCEPT ![p].pc = "ask"]
    <3> DEFINE r == [program[p] EXCEPT !.pc = "ask"]
    <3>1. r \in ProgramRecords /\ r.pc = "ask" /\ r.ready = program[p].ready
      BY <1>1 DEF ProgramRecords
    <3> QED BY <2>1, <3>1 DEF Leads
  <2>2. CASE UNCHANGED flight
             /\ program' = [program EXCEPT ![p].pc = "join", ![p].joined = flight]
    <3> DEFINE r == [program[p] EXCEPT !.pc = "join", !.joined = flight]
    <3>1. r \in ProgramRecords /\ r.pc = "join" /\ r.ready = program[p].ready
      BY <1>1 DEF ProgramRecords, SandboxTyped
    <3>2. program' = [program EXCEPT ![p] = r]
      BY <1>1, <2>2 DEF SandboxTyped
    <3> QED BY <2>2, <3>1, <3>2
  <2> QED BY <2>1, <2>2 DEF Boot
<1>3. /\ program' \in [Programs -> ProgramRecords] /\ program'[p] = r
      /\ \A q \in Programs : q # p => program'[q] = program[q]
      /\ \A q \in Programs : program'[q].ready = program[q].ready
  BY <1>1, <1>2, GoesTo
<1>4. SandboxTyped'
  BY <1>1, <1>2, <1>3 DEF SandboxTyped, endVars
<1>5. BootInv'
  <2> SUFFICES ASSUME ~history.cut PROVE BootInv'
    BY <1>1 DEF BootInv
  <2>1. \A q \in Programs : program'[q].pc \in {"ask", "report", "start"} => flight' = q
    BY <1>2, <1>3, ProgramsAssumption DEF SandboxInv, BootInv
  <2> QED BY <1>1, <1>2, <1>3, <2>1 DEF SandboxInv, BootInv, RunsOnProvisioned
<1>6. StartsInv'
  BY <1>1, <1>2, <1>3 DEF SandboxInv, StartsInv, Undisturbed
<1>7. LeftInv'
  BY <1>1 DEF SandboxInv, LeftInv, endVars
<1> QED BY <1>4, <1>5, <1>6, <1>7 DEF SandboxInv

LEMMA AskKeepsInv ==
  ASSUME SandboxInv, NEW p \in Programs, Ask(p)
  PROVE  SandboxInv'
<1>1. SandboxTyped /\ program[p] \in ProgramRecords /\ program[p].pc = "ask"
      /\ machine' = Touch /\ history' = Used
      /\ UNCHANGED <<flight, relaunched, endVars>>
  BY DEF SandboxInv, SandboxTyped, Ask
<1>2. /\ machine' \in MachineRecords
      /\ machine'.process = machine.process /\ machine'.made = machine.made
  BY <1>1, TouchTyped DEF SandboxTyped
<1>3. /\ history' \in HistoryRecords /\ (over => history'.used)
      /\ history'.faults = history.faults /\ history'.starts = history.starts
      /\ history'.cut = history.cut
  BY <1>1, UsedTyped DEF SandboxTyped
<1>4. PICK r \in ProgramRecords :
        /\ program' = [program EXCEPT ![p] = r] /\ r.ready = program[p].ready
        /\ \/ r.pc = "start" /\ machine.process = "absent"
           \/ r.pc = "report" /\ r.seen = Report(machine.process) /\ r.seen # "none"
  <2>1. CASE machine.process = "absent"
    <3> DEFINE r == [program[p] EXCEPT !.pc = "start"]
    <3>1. r \in ProgramRecords /\ r.pc = "start" /\ r.ready = program[p].ready
      BY <1>1 DEF ProgramRecords
    <3> QED BY <2>1, <3>1 DEF Ask
  <2>2. CASE machine.process # "absent"
    <3> DEFINE r == [program[p] EXCEPT !.pc = "report", !.seen = Report(machine.process)]
    <3>1. Report(machine.process) \in {"provisioning", "ready", "wedged", "failed"}
      BY DEF Report
    <3>2. r \in ProgramRecords /\ r.pc = "report" /\ r.ready = program[p].ready
          /\ r.seen = Report(machine.process) /\ r.seen # "none"
      BY <1>1, <3>1 DEF ProgramRecords
    <3>3. program' = [program EXCEPT ![p] = r]
      BY <2>2 DEF Ask
    <3> QED BY <3>2, <3>3
  <2> QED BY <2>1, <2>2
<1>5. /\ program' \in [Programs -> ProgramRecords] /\ program'[p] = r
      /\ \A q \in Programs : q # p => program'[q] = program[q]
      /\ \A q \in Programs : program'[q].ready = program[q].ready
  BY <1>1, <1>4, GoesTo
<1>6. SandboxTyped'
  BY <1>1, <1>2, <1>3, <1>4, <1>5 DEF SandboxTyped, endVars
<1>7. BootInv'
  <2> SUFFICES ASSUME ~history.cut PROVE BootInv'
    BY <1>3 DEF BootInv
  <2>1. \A q \in Programs : program'[q].pc \in {"ask", "report", "start"} => flight' = q
    BY <1>1, <1>5 DEF SandboxInv, BootInv
  <2>2. r.pc = "report" /\ r.seen = "ready" => machine.process = "completed"
    BY <1>4 DEF Report
  <2>3. r.pc = "start" \/ (r.pc = "report" /\ r.seen = "wedged") => machine.process # "completed"
    BY <1>4 DEF Report
  <2>4. machine.process # "completed" => \A q \in Programs : program[q].ready # machine.made
    BY DEF SandboxInv, BootInv, RunsOnProvisioned
  <2>5. RunsOnProvisioned'
    BY <1>2, <1>3, <1>5 DEF SandboxInv, BootInv, RunsOnProvisioned
  <2>6. \A q \in Programs : program'[q].pc = "report" /\ program'[q].seen = "ready" =>
          machine'.process = "completed"
    BY <1>2, <1>5, <2>2 DEF SandboxInv, BootInv
  <2>7. \A q \in Programs :
          program'[q].pc = "start" \/ (program'[q].pc = "report" /\ program'[q].seen = "wedged") =>
            \A t \in Programs : program'[t].ready # machine'.made
    BY <1>2, <1>5, <2>3, <2>4 DEF SandboxInv, BootInv
  <2> QED BY <2>1, <2>5, <2>6, <2>7 DEF BootInv
<1>8. StartsInv'
  BY <1>1, <1>2, <1>3, <1>4, <1>5 DEF SandboxInv, StartsInv, Undisturbed
<1>9. LeftInv'
  BY <1>1, <1>3, CallKeepsLeft
<1> QED BY <1>6, <1>7, <1>8, <1>9 DEF SandboxInv

\* A boot is over: those it settles are idle, and ready only with a container that is
\* provisioned.  The container stays.
LEMMA SettleKeepsBoot ==
  ASSUME SandboxInv, NEW p \in Programs, NEW answer \in {"provisioning", "ready", "failed"},
         Settle(p, answer), program[p].pc \in {"ask", "report", "start"},
         answer = "ready" => program[p].pc = "report" /\ program[p].seen = "ready",
         UNCHANGED machine, history'.cut = history.cut
  PROVE  BootInv'
<1> SUFFICES ASSUME ~history.cut PROVE BootInv'
  BY DEF BootInv
<1>1. SandboxTyped
  BY DEF SandboxInv
<1>2. /\ program' \in [Programs -> ProgramRecords] /\ program'[p].pc = "idle"
      /\ \A q \in Programs :
           \/ program'[q] = program[q]
           \/ /\ program'[q].pc = "idle"
              /\ program'[q].ready = IF answer = "ready" THEN machine.made ELSE 0
  BY <1>1, SettleTyped
<1>3. \A q \in Programs : program'[q].pc \notin {"ask", "report", "start"}
  BY <1>2 DEF SandboxInv, BootInv
<1>4. machine.made # 0
  BY <1>1 DEF SandboxTyped, MachineRecords
<1>5. RunsOnProvisioned'
  BY <1>2, <1>4 DEF SandboxInv, BootInv, RunsOnProvisioned
<1> QED BY <1>3, <1>5 DEF BootInv

LEMMA JudgeKeepsInv ==
  ASSUME SandboxInv, NEW p \in Programs, Judge(p)
  PROVE  SandboxInv'
<1>1. SandboxTyped /\ program[p] \in ProgramRecords /\ program[p].pc = "report"
      /\ UNCHANGED <<machine, endVars, history>>
  BY DEF SandboxInv, SandboxTyped, Judge
<1>2. LeftInv'
  BY <1>1 DEF SandboxInv, LeftInv, endVars
<1>3. CASE /\ program[p].seen = "wedged" /\ ~relaunched
           /\ SpendRelaunch
           /\ program' = [program EXCEPT ![p].pc = "start"]
           /\ UNCHANGED flight
  <2> DEFINE r == [program[p] EXCEPT !.pc = "start"]
  <2>1. r \in ProgramRecords /\ r.pc = "start" /\ r.ready = program[p].ready
    BY <1>1 DEF ProgramRecords
  <2>2. program' = [program EXCEPT ![p] = r]
    BY <1>3
  <2> HIDE DEF r
  <2>3. /\ program' \in [Programs -> ProgramRecords] /\ program'[p] = r
        /\ \A q \in Programs : q # p => program'[q] = program[q]
        /\ \A q \in Programs : program'[q].ready = program[q].ready
    BY <1>1, <2>1, <2>2, GoesTo
  <2>4. SandboxTyped'
    BY <1>1, <1>3, <2>3 DEF SandboxTyped, endVars, SpendRelaunch
  <2>5. BootInv'
    BY <1>1, <1>3, <2>1, <2>3 DEF SandboxInv, BootInv, RunsOnProvisioned
  <2>6. StartsInv'
    <3> SUFFICES ASSUME Undisturbed PROVE StartsInv'
      BY <1>1 DEF StartsInv, Undisturbed
    <3>1. history.starts <= 1 /\ relaunched' = TRUE /\ history.starts \in Nat
      BY <1>1, <1>3 DEF SandboxInv, StartsInv, SpendRelaunch, SandboxTyped, HistoryRecords
    <3> QED BY <1>1, <1>3, <3>1 DEF SandboxInv, StartsInv, Undisturbed
  <2> QED BY <1>2, <2>4, <2>5, <2>6 DEF SandboxInv
<1>4. CASE /\ Settle(p, IF program[p].seen = "wedged" THEN "failed" ELSE program[p].seen)
           /\ UNCHANGED relaunched
  <2> DEFINE answer == IF program[p].seen = "wedged" THEN "failed" ELSE program[p].seen
  <2>1. answer \in {"provisioning", "ready", "failed"}
        /\ (answer = "ready" => program[p].seen = "ready") /\ Settle(p, answer)
    BY <1>1, <1>4 DEF ProgramRecords, SandboxTyped
  <2> HIDE DEF answer
  <2>2. /\ program' \in [Programs -> ProgramRecords] /\ flight' = NoProgram
        /\ \A q \in Programs : program'[q].ready <= machine.made
        /\ \A q \in Programs : program'[q] = program[q] \/ program'[q].pc = "idle"
    BY <1>1, <2>1, SettleTyped
  <2>3. SandboxTyped'
    BY <1>1, <1>4, <2>2 DEF SandboxTyped, endVars
  <2>4. BootInv'
    BY <1>1, <2>1, SettleKeepsBoot
  <2>5. StartsInv'
    BY <1>1, <1>4, <2>2 DEF SandboxInv, StartsInv, Undisturbed
  <2> QED BY <1>2, <2>3, <2>4, <2>5 DEF SandboxInv
<1> QED BY <1>1, <1>3, <1>4 DEF Judge

LEMMA StartKeepsInv ==
  ASSUME SandboxInv, NEW p \in Programs, Start(p)
  PROVE  SandboxInv'
<1> DEFINE m == Touch
           u == Used
           n == IF Undisturbed THEN history.starts + 1 ELSE 0
<1>1. SandboxTyped /\ program[p].pc = "start" /\ machine \in MachineRecords
      /\ history \in HistoryRecords /\ over \in BOOLEAN
      /\ Settle(p, "provisioning") /\ UNCHANGED <<relaunched, endVars>>
  BY DEF SandboxInv, SandboxTyped, Start
<1>2. /\ m \in MachineRecords /\ m.made = machine.made
      /\ u \in HistoryRecords /\ u.faults = history.faults /\ u.starts = history.starts
      /\ u.cut = history.cut /\ (over => u.used) /\ n \in Nat
  BY <1>1, TouchTyped, UsedTyped DEF HistoryRecords
<1>3. machine' = [m EXCEPT !.process = "silent"] /\ history' = [u EXCEPT !.starts = n]
  <2>1. Used.starts = history.starts
    BY <1>1, UsedTyped
  <2>2. history' = [Used EXCEPT !.starts = IF Undisturbed THEN Used.starts + 1 ELSE 0]
    BY DEF Start
  <2> QED BY <2>1, <2>2 DEF Start
<1>4. "silent" \in Processes
  BY DEF Processes, Running
<1> HIDE DEF m, u, n
<1>5. /\ machine' \in MachineRecords /\ machine'.process = "silent"
      /\ machine'.made = machine.made
  BY <1>2, <1>3, <1>4 DEF MachineRecords
<1>6. /\ history' \in HistoryRecords /\ history'.faults = history.faults
      /\ history'.cut = history.cut /\ history'.starts = n /\ (over => history'.used)
  BY <1>2, <1>3 DEF HistoryRecords
<1>7. /\ program' \in [Programs -> ProgramRecords] /\ flight' = NoProgram
      /\ program'[p].pc = "idle"
      /\ \A q \in Programs : program'[q].ready <= machine.made
      /\ \A q \in Programs : \/ program'[q] = program[q]
                             \/ program'[q].pc = "idle" /\ program'[q].ready = 0
  BY <1>1, SettleTyped
<1>8. SandboxTyped'
  BY <1>1, <1>5, <1>6, <1>7 DEF SandboxTyped, endVars
<1>9. ~history.cut => \A q \in Programs : program'[q].pc \notin {"ask", "report", "start"}
  BY <1>1, <1>7 DEF SandboxInv, BootInv
<1>10. BootInv'
  <2> SUFFICES ASSUME ~history.cut PROVE BootInv'
    BY <1>6 DEF BootInv
  <2>1. \A q \in Programs : program[q].ready # machine.made
    BY <1>1 DEF SandboxInv, BootInv
  <2>2. machine.made # 0
    BY <1>1 DEF MachineRecords
  <2>3. RunsOnProvisioned'
    BY <1>5, <1>7, <2>1, <2>2 DEF RunsOnProvisioned
  <2> QED BY <1>9, <2>3 DEF BootInv
<1>11. StartsInv'
  <2> SUFFICES ASSUME Undisturbed PROVE StartsInv'
    BY <1>6 DEF StartsInv, Undisturbed
  <2>1. history'.starts = history.starts + 1 /\ history.starts \in Nat
    BY <1>1, <1>6 DEF n, HistoryRecords
  <2>2. history.starts + 1 <= IF relaunched THEN 2 ELSE 1
    BY <1>1, <2>1 DEF SandboxInv, StartsInv, SandboxTyped
  <2> QED BY <1>1, <1>5, <1>9, <2>1, <2>2 DEF StartsInv, Undisturbed
<1>12. LeftInv'
  BY <1>1, <1>6, CallKeepsLeft
<1> QED BY <1>8, <1>10, <1>11, <1>12 DEF SandboxInv

LEMMA FailsKeepsInv ==
  ASSUME SandboxInv, NEW p \in Programs, BootFails(p)
  PROVE  SandboxInv'
<1>1. SandboxTyped /\ program[p].pc \in {"ask", "report", "start"}
      /\ Settle(p, "provisioning") /\ UNCHANGED <<machine, relaunched, endVars>>
  BY DEF SandboxInv, BootFails
<1>2. /\ history' \in HistoryRecords /\ history'.faults # 0 /\ history'.cut = history.cut
      /\ history'.used = history.used /\ history'.kept = history.kept
      /\ history'.missed = history.missed
  BY <1>1, FaultCounts DEF BootFails, SandboxTyped
<1>3. /\ program' \in [Programs -> ProgramRecords] /\ flight' = NoProgram
      /\ \A q \in Programs : program'[q].ready <= machine.made
      /\ \A q \in Programs : program'[q] = program[q] \/ program'[q].pc = "idle"
  BY <1>1, SettleTyped
<1>4. SandboxTyped'
  BY <1>1, <1>2, <1>3 DEF SandboxTyped, endVars
<1>5. BootInv'
  BY <1>1, <1>2, SettleKeepsBoot
<1>6. StartsInv'
  BY <1>2 DEF StartsInv, Undisturbed
<1>7. LeftInv'
  BY <1>1, <1>2 DEF SandboxInv, LeftInv, endVars
<1> QED BY <1>4, <1>5, <1>6, <1>7 DEF SandboxInv

LEMMA UseKeepsInv ==
  ASSUME SandboxInv, NEW p \in Programs, Use(p)
  PROVE  SandboxInv'
<1>1. SandboxTyped /\ machine' = Touch /\ history' = Used
      /\ UNCHANGED <<program, flight, relaunched, endVars>>
  BY DEF SandboxInv, Use
<1>2. /\ machine' \in MachineRecords
      /\ machine'.process = machine.process /\ machine'.made = machine.made
  BY <1>1, TouchTyped DEF SandboxTyped
<1>3. /\ history' \in HistoryRecords /\ (over => history'.used)
      /\ history'.faults = history.faults /\ history'.starts = history.starts
      /\ history'.cut = history.cut
  BY <1>1, UsedTyped DEF SandboxTyped
<1>4. SandboxTyped'
  BY <1>1, <1>2, <1>3 DEF SandboxTyped, endVars
<1>5. BootInv'
  BY <1>1, <1>2, <1>3 DEF SandboxInv, BootInv, RunsOnProvisioned
<1>6. StartsInv'
  BY <1>1, <1>2, <1>3 DEF SandboxInv, StartsInv, Undisturbed
<1>7. LeftInv'
  BY <1>1, <1>3, CallKeepsLeft
<1> QED BY <1>4, <1>5, <1>6, <1>7 DEF SandboxInv

\* Only a process that runs gets on, and none gets back to where it never was.
LEMMA ProcessKeepsInv ==
  ASSUME SandboxInv, Provision \/ Tick
  PROVE  SandboxInv'
<1>1. SandboxTyped /\ machine \in MachineRecords /\ machine.process \in Running
      /\ UNCHANGED <<program, flight, relaunched, endVars, history>>
  BY DEF SandboxInv, SandboxTyped, Provision, Tick, Running
<1>2. /\ machine' \in MachineRecords /\ machine'.process # "absent"
      /\ machine'.made = machine.made /\ machine'.up = machine.up
  BY <1>1 DEF Provision, Tick, MachineRecords, Processes, Running
<1>3. SandboxTyped'
  BY <1>1, <1>2 DEF SandboxTyped, endVars
<1>4. BootInv'
  <2>1. machine.process # "completed"
    BY <1>1 DEF Running
  <2> QED BY <1>1, <1>2, <2>1 DEF SandboxInv, BootInv, RunsOnProvisioned
<1>5. StartsInv'
  <2>1. machine.process # "absent"
    BY <1>1 DEF Running
  <2> QED BY <1>1, <1>2, <2>1 DEF SandboxInv, StartsInv, Undisturbed
<1>6. LeftInv'
  BY <1>1, <1>2 DEF SandboxInv, LeftInv, endVars
<1> QED BY <1>3, <1>4, <1>5, <1>6 DEF SandboxInv

-----------------------------------------------------------------------------
(* The end of the run.                                                     *)

\* The status, its row and the sweep do not touch the container or a boot.
LEMMA EndsKeepBoot ==
  ASSUME SandboxInv, UNCHANGED <<machine, program, flight, relaunched>>,
         history'.cut = history.cut, history'.starts = history.starts,
         history'.faults = history.faults \/ history'.faults # 0
  PROVE  BootInv' /\ StartsInv'
<1>1. BootInv'
  BY DEF SandboxInv, BootInv, RunsOnProvisioned
<1>2. StartsInv'
  BY DEF SandboxInv, StartsInv, Undisturbed
<1> QED BY <1>1, <1>2

LEMMA RunEndsKeepsInv ==
  ASSUME SandboxInv, RunEnds
  PROVE  SandboxInv'
<1>1. SandboxTyped /\ history \in HistoryRecords
      /\ UNCHANGED <<machine, program, flight, relaunched, rowOver, sweep, sweeps>>
      /\ over' = TRUE /\ ending' = "teardown"
  BY DEF SandboxInv, SandboxTyped, RunEnds
<1>2. /\ history' \in HistoryRecords
      /\ history'.cut = history.cut /\ history'.starts = history.starts
      /\ history'.faults = history.faults /\ history'.used = history.used
      /\ history'.kept = history.kept /\ history'.missed = history.missed
  BY <1>1 DEF RunEnds, HistoryRecords
<1>3. /\ unprojected' \in Seq(Projections)
      /\ unprojected' = <<>> => over /\ unprojected = <<>>
  <2>1. CASE over
    BY <1>1, <2>1 DEF RunEnds, SandboxTyped
  <2>2. CASE ~over
    <3>1. [over |-> TRUE, age |-> 0] \in Projections /\ unprojected \in Seq(Projections)
      BY <1>1 DEF Projections, SandboxTyped
    <3>2. unprojected' = Append(unprojected, [over |-> TRUE, age |-> 0])
      BY <2>2 DEF RunEnds
    <3>3. unprojected' \in Seq(Projections) /\ Len(unprojected') # 0
      BY <3>1, <3>2, AppendProperties, LenProperties
    <3> QED BY <3>3, EmptySeq
  <2> QED BY <2>1, <2>2
<1>4. SandboxTyped'
  BY <1>1, <1>2, <1>3 DEF SandboxTyped
<1>5. LeftInv'
  BY <1>1, <1>2, <1>3 DEF SandboxInv, LeftInv
<1> QED BY <1>1, <1>2, <1>4, <1>5, EndsKeepBoot DEF SandboxInv

LEMMA ReviveKeepsInv ==
  ASSUME SandboxInv, Revive
  PROVE  SandboxInv'
<1>1. SandboxTyped /\ history \in HistoryRecords
      /\ UNCHANGED <<machine, program, flight, relaunched, ending, rowOver, sweep, sweeps>>
      /\ over' = FALSE /\ unprojected' = Append(unprojected, [over |-> FALSE, age |-> 0])
  BY DEF SandboxInv, SandboxTyped, Revive
<1>2. /\ history' \in HistoryRecords
      /\ history'.cut = history.cut /\ history'.starts = history.starts
      /\ history'.faults = history.faults
  BY <1>1 DEF Revive, HistoryRecords
<1>3. unprojected' \in Seq(Projections)
  <2>1. [over |-> FALSE, age |-> 0] \in Projections /\ unprojected \in Seq(Projections)
    BY <1>1 DEF Projections, SandboxTyped
  <2> QED BY <1>1, <2>1, AppendProperties
<1>4. SandboxTyped'
  BY <1>1, <1>2, <1>3 DEF SandboxTyped
<1>5. LeftInv'
  BY <1>1 DEF LeftInv
<1> QED BY <1>1, <1>2, <1>4, <1>5, EndsKeepBoot DEF SandboxInv

LEMMA ProjectKeepsInv ==
  ASSUME SandboxInv, ProjectStatus
  PROVE  SandboxInv'
<1> DEFINE head == Head(unprojected)
           age == IF head.over = rowOver THEN sweeps ELSE head.age
           missed == history.missed \/ (head.over /\ age >= Window)
<1>1. SandboxTyped /\ history \in HistoryRecords
      /\ UNCHANGED <<machine, program, flight, relaunched, over, ending, sweep>>
      /\ unprojected # <<>> /\ unprojected' = Tail(unprojected)
      /\ rowOver' = head.over /\ sweeps' = (IF head.over THEN age ELSE 0)
      /\ history' = [history EXCEPT !.missed = missed]
  BY DEF SandboxInv, SandboxTyped, ProjectStatus
<1>2. head \in Projections /\ Tail(unprojected) \in Seq(Projections)
  BY <1>1, HeadTailProperties DEF SandboxTyped
<1>3. head.over \in BOOLEAN /\ age \in Nat /\ missed \in BOOLEAN
      /\ (head.over /\ ~missed => age < Window)
  BY <1>1, <1>2, WindowAssumption DEF Projections, SandboxTyped, HistoryRecords
<1> HIDE DEF head, age
<1>4. history'.missed = missed
  BY <1>1 DEF HistoryRecords
<1>5. head.over /\ ~history'.missed => sweeps' < Window
  BY <1>1, <1>3, <1>4
<1> HIDE DEF missed
<1>6. /\ history' \in HistoryRecords
      /\ history'.cut = history.cut /\ history'.starts = history.starts
      /\ history'.faults = history.faults
  BY <1>1, <1>3 DEF HistoryRecords
<1>7. SandboxTyped'
  BY <1>1, <1>2, <1>3, <1>6 DEF SandboxTyped
<1>8. LeftInv'
  BY <1>1, <1>5 DEF LeftInv
<1> QED BY <1>1, <1>6, <1>7, <1>8, EndsKeepBoot DEF SandboxInv

LEMMA LoseKeepsInv ==
  ASSUME SandboxInv, LoseProjection
  PROVE  SandboxInv'
<1>1. SandboxTyped /\ history \in HistoryRecords
      /\ UNCHANGED <<machine, program, flight, relaunched, over, ending, rowOver, sweep, sweeps>>
      /\ unprojected # <<>> /\ unprojected' = Tail(unprojected)
  BY DEF SandboxInv, SandboxTyped, LoseProjection
<1>2. /\ history' \in HistoryRecords /\ history'.missed
      /\ history'.cut = history.cut /\ history'.starts = history.starts
      /\ history'.faults # 0
  <2> DEFINE n == history.faults + 1
  <2>1. n \in Nat /\ n # 0
    BY <1>1 DEF HistoryRecords
  <2>2. history' = [history EXCEPT !.faults = n, !.missed = TRUE]
    BY DEF LoseProjection
  <2> HIDE DEF n
  <2> QED BY <1>1, <2>1, <2>2 DEF HistoryRecords
<1>3. unprojected' \in Seq(Projections)
  BY <1>1, HeadTailProperties DEF SandboxTyped
<1>4. SandboxTyped'
  BY <1>1, <1>2, <1>3 DEF SandboxTyped
<1>5. LeftInv'
  BY <1>2 DEF LeftInv
<1> QED BY <1>1, <1>2, <1>4, <1>5, EndsKeepBoot DEF SandboxInv

LEMMA ForgetKeepsInv ==
  ASSUME SandboxInv, Forget
  PROVE  SandboxInv'
<1> DEFINE cut == history.cut \/ flight # NoProgram
<1>1. SandboxTyped /\ history \in HistoryRecords
      /\ UNCHANGED <<machine, program, relaunched, over, unprojected, rowOver, sweep, sweeps>>
      /\ flight' = NoProgram /\ ending' = "destroy"
      /\ history' = [history EXCEPT !.cut = cut]
  BY DEF SandboxInv, SandboxTyped, Forget
<1>2. cut \in BOOLEAN
  BY <1>1 DEF HistoryRecords
<1>3. ~history'.cut => ~history.cut /\ flight = NoProgram
  BY <1>1 DEF HistoryRecords
<1> HIDE DEF cut
<1>4. /\ history' \in HistoryRecords
      /\ history'.starts = history.starts /\ history'.faults = history.faults
      /\ history'.used = history.used /\ history'.kept = history.kept
      /\ history'.missed = history.missed
  BY <1>1, <1>2 DEF HistoryRecords
<1>5. SandboxTyped'
  BY <1>1, <1>4 DEF SandboxTyped
<1>6. BootInv'
  BY <1>1, <1>3 DEF SandboxInv, BootInv, RunsOnProvisioned
<1>7. StartsInv'
  BY <1>1, <1>3, <1>4 DEF SandboxInv, StartsInv, Undisturbed
<1>8. LeftInv'
  BY <1>1, <1>4 DEF SandboxInv, LeftInv
<1> QED BY <1>5, <1>6, <1>7, <1>8 DEF SandboxInv

\* Whoever destroys the container: it is a new one that nobody knows to be ready, and a boot
\* that was under way is cut.
LEMMA DestroyKeepsInv ==
  ASSUME SandboxInv, Destroy,
         UNCHANGED <<program, flight, relaunched, over, unprojected, rowOver, sweeps>>,
         ending' \in {"no", "teardown", "destroy"}, sweep' \in {"none", "destroy"}
  PROVE  SandboxInv'
<1>1. SandboxTyped /\ machine \in MachineRecords
  BY DEF SandboxInv, SandboxTyped
<1>2. /\ machine' \in MachineRecords /\ ~machine'.up
      /\ machine'.process = "absent" /\ machine'.made = machine.made + 1
      /\ history' \in HistoryRecords /\ history'.starts = 0
      /\ history'.faults = history.faults /\ history'.missed = history.missed
      /\ history.cut \/ (\E p \in Programs : UnderWay(p)) => history'.cut
  BY <1>1, DestroyCounts
<1>3. \A p \in Programs :
        program[p].ready \in Nat /\ program[p].ready <= machine.made /\ machine.made \in Nat
  BY <1>1 DEF SandboxTyped, ProgramRecords, MachineRecords
<1>4. SandboxTyped'
  BY <1>1, <1>2, <1>3 DEF SandboxTyped
<1>5. BootInv'
  <2> SUFFICES ASSUME ~history'.cut PROVE BootInv'
    BY DEF BootInv
  <2>1. ~history.cut /\ \A p \in Programs : program'[p].pc \notin {"report", "start"}
    BY <1>2 DEF UnderWay
  <2>2. \A p \in Programs : program'[p].ready # machine'.made
    BY <1>2, <1>3
  <2> QED BY <2>1, <2>2 DEF SandboxInv, BootInv, RunsOnProvisioned
<1>6. StartsInv'
  BY <1>1, <1>2 DEF StartsInv, SandboxTyped
<1>7. LeftInv'
  BY <1>2 DEF LeftInv
<1> QED BY <1>4, <1>5, <1>6, <1>7 DEF SandboxInv

LEMMA EndDestroysKeepsInv ==
  ASSUME SandboxInv, EndDestroys
  PROVE  SandboxInv'
<1>1. SandboxTyped /\ history \in HistoryRecords /\ ending' = "no"
      /\ UNCHANGED <<program, flight, relaunched, over, unprojected, rowOver, sweep, sweeps>>
  BY DEF SandboxInv, SandboxTyped, EndDestroys
<1>2. CASE Destroy
  BY <1>1, <1>2, DestroyKeepsInv DEF SandboxTyped
<1>3. CASE Fault /\ UNCHANGED machine
  <2>1. /\ history' \in HistoryRecords /\ history'.faults # 0
        /\ history'.cut = history.cut /\ history'.starts = history.starts
        /\ history'.used = history.used
        /\ history'.kept = history.kept /\ history'.missed = history.missed
    BY <1>1, <1>3, FaultCounts
  <2>2. SandboxTyped'
    BY <1>1, <1>3, <2>1 DEF SandboxTyped
  <2>3. LeftInv'
    BY <1>1, <1>3, <2>1 DEF SandboxInv, LeftInv
  <2> QED BY <1>1, <1>3, <2>1, <2>2, <2>3, EndsKeepBoot DEF SandboxInv
<1> QED BY <1>2, <1>3 DEF EndDestroys

LEMMA SweepKeepsInv ==
  ASSUME SandboxInv, Sweep
  PROVE  SandboxInv'
<1>1. SandboxTyped
      /\ UNCHANGED <<machine, program, flight, relaunched, over, ending, rowOver, history>>
      /\ sweep = "none" /\ sweep' = (IF rowOver /\ Young THEN "destroy" ELSE "none")
      /\ sweeps' = (IF rowOver THEN Older(sweeps) ELSE sweeps)
  BY DEF SandboxInv, Sweep
<1>2. unprojected' \in Seq(Projections) /\ (unprojected' = <<>> => unprojected = <<>>)
  BY <1>1, AgedTyped DEF Sweep
<1>3. sweeps' \in Nat
  BY <1>1 DEF SandboxTyped, Older
<1>4. SandboxTyped'
  BY <1>1, <1>2, <1>3 DEF SandboxTyped
<1>5. LeftInv'
  BY <1>1, <1>2 DEF SandboxInv, LeftInv, Young
<1> QED BY <1>1, <1>4, <1>5, EndsKeepBoot DEF SandboxInv

LEMMA SweepDestroysKeepsInv ==
  ASSUME SandboxInv, SweepDestroys
  PROVE  SandboxInv'
<1>1. SandboxTyped /\ history \in HistoryRecords /\ sweep' = "none"
      /\ UNCHANGED <<program, flight, relaunched, over, ending, unprojected, rowOver, sweeps>>
  BY DEF SandboxInv, SandboxTyped, SweepDestroys
<1>2. CASE Destroy
  BY <1>1, <1>2, DestroyKeepsInv DEF SandboxTyped
<1>3. CASE /\ history' = [history EXCEPT !.faults = @ + 1, !.kept = TRUE]
           /\ UNCHANGED machine
  <2>1. /\ history' \in HistoryRecords /\ history'.faults # 0 /\ history'.kept
        /\ history'.cut = history.cut /\ history'.starts = history.starts
    <3> DEFINE n == history.faults + 1
    <3>1. n \in Nat /\ n # 0
      BY <1>1 DEF HistoryRecords
    <3>2. history' = [history EXCEPT !.faults = n, !.kept = TRUE]
      BY <1>3
    <3> HIDE DEF n
    <3> QED BY <1>1, <3>1, <3>2 DEF HistoryRecords
  <2>2. SandboxTyped'
    BY <1>1, <1>3, <2>1 DEF SandboxTyped
  <2>3. LeftInv'
    BY <2>1 DEF LeftInv
  <2> QED BY <1>1, <1>3, <2>1, <2>2, <2>3, EndsKeepBoot DEF SandboxInv
<1> QED BY <1>2, <1>3 DEF SweepDestroys

LEMMA RestartKeepsInv ==
  ASSUME SandboxInv, Restart
  PROVE  SandboxInv'
<1>1. SandboxTyped
      /\ UNCHANGED <<machine, over, unprojected, rowOver, sweep, sweeps>>
      /\ program' = [p \in Programs |-> IdleProgram] /\ flight' = NoProgram
      /\ relaunched' \in BOOLEAN /\ ending' = "no"
  BY DEF SandboxInv, SandboxTyped, Restart
<1>2. /\ history' \in HistoryRecords /\ history'.faults # 0
      /\ history'.used = history.used
      /\ history'.kept = history.kept /\ history'.missed = history.missed
  BY <1>1, FaultCounts DEF Restart, SandboxTyped
<1>3. /\ program' \in [Programs -> ProgramRecords]
      /\ \A p \in Programs : program'[p].pc = "idle" /\ program'[p].ready = 0
  BY <1>1, IdleProgramTyped
<1>4. machine.made \in Nat /\ machine.made # 0
  BY <1>1 DEF SandboxTyped, MachineRecords
<1>5. SandboxTyped'
  BY <1>1, <1>2, <1>3, <1>4 DEF SandboxTyped
<1>6. BootInv'
  BY <1>1, <1>3, <1>4 DEF BootInv, RunsOnProvisioned
<1>7. StartsInv'
  BY <1>2 DEF StartsInv, Undisturbed
<1>8. LeftInv'
  BY <1>1, <1>2 DEF SandboxInv, LeftInv
<1> QED BY <1>5, <1>6, <1>7, <1>8 DEF SandboxInv

-----------------------------------------------------------------------------
LEMMA SandboxInitEstablishesInv ==
  ASSUME SandboxInit
  PROVE  SandboxInv
<1>1. machine \in MachineRecords /\ machine.made = 1 /\ machine.process = "absent" /\ ~machine.up
  BY DEF SandboxInit, Asleep, MachineRecords, Processes, Running
<1>2. /\ program \in [Programs -> ProgramRecords]
      /\ \A p \in Programs : program[p].pc = "idle" /\ program[p].ready = 0
  BY IdleProgramTyped DEF SandboxInit
<1>3. history \in HistoryRecords /\ history.starts = 0
  BY DEF SandboxInit, HistoryRecords
<1>4. unprojected \in Seq(Projections)
  BY EmptySeq DEF SandboxInit
<1>5. SandboxTyped
  <2>1. /\ flight \in Programs \cup {NoProgram} /\ relaunched \in BOOLEAN /\ over \in BOOLEAN
        /\ rowOver \in BOOLEAN /\ ending = "no" /\ sweep = "none" /\ sweeps \in Nat
    BY DEF SandboxInit
  <2>2. \A p \in Programs : program[p].ready <= machine.made
    <3> SUFFICES ASSUME NEW p \in Programs PROVE program[p].ready <= machine.made
      OBVIOUS
    <3>1. program[p].ready = 0 /\ machine.made = 1
      BY <1>1, <1>2
    <3> QED BY <3>1
  <2>3. \A p \in Programs : program[p].pc = "report" => program[p].seen # "none"
    BY <1>2
  <2> QED BY <1>1, <1>2, <1>3, <1>4, <2>1, <2>2, <2>3 DEF SandboxTyped
<1>6. BootInv
  BY <1>1, <1>2 DEF BootInv, RunsOnProvisioned
<1>7. StartsInv
  BY <1>1, <1>2, <1>3 DEF SandboxInit, StartsInv
<1>8. LeftInv
  BY DEF SandboxInit, LeftInv
<1> QED BY <1>5, <1>6, <1>7, <1>8 DEF SandboxInv

LEMMA SandboxStepKeepsInv ==
  ASSUME SandboxInv, [SandboxNext]_sandboxVars
  PROVE  SandboxInv'
<1>1. ASSUME NEW p \in Programs, Boot(p) \/ Booting(p) \/ BootFails(p) \/ Use(p)
      PROVE  SandboxInv'
  BY <1>1, BootKeepsInv, AskKeepsInv, JudgeKeepsInv, StartKeepsInv, FailsKeepsInv, UseKeepsInv
     DEF Booting
<1>2. CASE \/ Provision \/ Tick \/ RunEnds \/ ProjectStatus \/ LoseProjection \/ Forget
           \/ EndDestroys \/ Revive \/ Sweep \/ SweepDestroys \/ Restart
  BY <1>2, ProcessKeepsInv, RunEndsKeepsInv, ProjectKeepsInv, LoseKeepsInv, ForgetKeepsInv,
     EndDestroysKeepsInv, ReviveKeepsInv, SweepKeepsInv, SweepDestroysKeepsInv, RestartKeepsInv
<1>3. CASE UNCHANGED sandboxVars
  <2>1. SandboxTyped' /\ LeftInv'
    BY <1>3 DEF SandboxInv, sandboxVars, SandboxTyped, LeftInv
  <2> QED BY <1>3, <2>1, EndsKeepBoot DEF SandboxInv, sandboxVars
<1> QED BY <1>1, <1>2, <1>3 DEF SandboxNext

\* The inductive invariant of the container holds in every state.
THEOREM SandboxInvariance == SandboxSpec => []SandboxInv
BY SandboxInitEstablishesInv, SandboxStepKeepsInv, PTL DEF SandboxSpec

\* Every record of the container's life keeps its shape (lifecycle.ts, gateway.ts).
THEOREM SandboxTypeCorrect == SandboxSpec => []SandboxTypeOK
<1>1. SandboxInv => SandboxTypeOK
  BY DEF SandboxInv, SandboxTyped, SandboxTypeOK, MachineRecords, ProgramRecords, Projections
<1> QED BY <1>1, SandboxInvariance, PTL

\* Whatever programs poll at once, whenever the run ends and comes back, and however wide the
\* sweep's window: ready is said of a provisioned container, it is provisioned twice at most,
\* and the sweep leaves none up that is not accounted for (lifecycle.ts boot, sweepSandboxes,
\* agent.ts #teardownSandbox).
THEOREM SafeSandbox == SandboxSpec => []SandboxSafe
<1>1. SandboxInv => RunsOnProvisioned
  BY DEF SandboxInv, BootInv, RunsOnProvisioned
<1>2. SandboxInv => StartedTwiceAtMost
  BY DEF SandboxInv, SandboxTyped, HistoryRecords, StartsInv, StartedTwiceAtMost
<1>3. SandboxInv => NothingLeftUp
  <2> SUFFICES ASSUME SandboxInv, over, rowOver, unprojected = <<>>, sweeps >= Window,
                      sweep = "none", machine.up, ~history.used, ~history.kept
               PROVE  history.missed
    BY DEF NothingLeftUp
  <2>1. sweeps \in Nat /\ Window \in Nat
    BY WindowAssumption DEF SandboxInv, SandboxTyped
  <2> QED BY <2>1 DEF SandboxInv, LeftInv
<1> QED BY <1>1, <1>2, <1>3, SandboxInvariance, PTL DEF SandboxSafe
=============================================================================
