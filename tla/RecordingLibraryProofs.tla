------------------------ MODULE RecordingLibraryProofs ------------------------
(***************************************************************************)
(* Proofs about RecordingLibrary, for any recordings, streams and lectures *)
(* of the server, and any limits of attempts, retries and restarts. A step *)
(* of the library is a step of the artifact pipeline and a step of the     *)
(* upload queue at once (Projection); what either keeps by itself is       *)
(* proved of its own steps. At the end, the library is shown to implement  *)
(* the life of a recording (RecordingLife).                                *)
(***************************************************************************)
EXTENDS RecordingLibrary, SequenceTheorems, TLAPS

ArtifactStep ==
  \/ \E r \in Recordings : \/ LectureCompletes(r) \/ RequestRetry(r)
                           \/ \E why \in {"admin", "system"} : DeleteMedia(r, why)
  \/ TakeCompleted \/ TakeRetry \/ LoseRequests
  \/ \E k \in Streams : Probe(k) \/ SkipStream(k) \/ StartRemux(k)
  \/ ProbeBreaks \/ EnterMerging \/ RemuxEnds \/ RecordOutput \/ AttemptFails \/ BackoffEnds
  \/ MarkReady \/ AnnounceReady
  \/ UNCHANGED artifactVars

Enqueues(r) ==
  /\ \E deliverables \in SUBSET Streams : Enqueue(r, deliverables)
  /\ UNCHANGED <<attempt, remote, cleanup, drain, lecture>>

Cancels(r) == CancelDeleted(r) /\ UNCHANGED <<attempt, part, remote, cleanup, drain, lecture>>

UploadStep ==
  \/ \E r \in Recordings :
       \/ Enqueues(r) \/ Requeue(r) \/ Cancels(r) \/ StartDrain(r) \/ AnswerDeleted(r) \/ AnswerCreated(r)
       \/ \E k \in Streams : \E there : SendPart(r, k, there)
       \/ AnswerSent(r) \/ MarkCompleting(r) \/ MarkDone(r) \/ Fail(r)
  \/ ServerCreates \/ ServerActs \/ RecoverInterrupted
  \/ UNCHANGED uploadVars

(* A phase other than idle works on a recording, a remux on a stream.      *)
Working ==
  /\ pipe.phase # "idle" => pipe.on \in Recordings
  /\ pipe.phase \in {"remuxing", "checking"} => pipe.key \in Streams

LEMMA Projection ==
  ASSUME Working, [Next]_vars
  PROVE  ArtifactStep /\ UploadStep
  <1>1. CASE Announce
    <2>1. pipe.on \in Recordings
      BY <1>1 DEF Announce, AnnounceReady, Working
    <2> QED  BY <1>1, <2>1 DEF Announce, ArtifactStep, UploadStep, Enqueues
  <1>2. ASSUME NEW r \in Recordings,
               \/ CompleteLecture(r) \/ RetryMerge(r) \/ RequeueJob(r) \/ StartUpload(r) \/ UploadAnswer(r) \/ UploadGoesOn(r)
        PROVE  ArtifactStep /\ UploadStep
    BY <1>2 DEF CompleteLecture, RetryMerge, RequeueJob, StartUpload, UploadAnswer, UploadGoesOn, Artifact, Upload,
                ArtifactStep, UploadStep
  <1>3. ASSUME NEW r \in Recordings, AdminDelete(r) \/ DeleteExpired(r) \/ RelievePressure(r) \/ RelieveFurther(r)
        PROVE  ArtifactStep /\ UploadStep
    <2>1. (\E why \in {"admin", "system"} : Delete(r, why)) \/ UNCHANGED <<artifactVars, uploadVars>>
      BY <1>3 DEF AdminDelete, DeleteExpired, RelievePressure, RelieveFurther
    <2> QED  BY <2>1 DEF Delete, ArtifactStep, UploadStep, Cancels
  <1>4. CASE (\E k \in Streams : ProbeAnswer(k)) \/ TakeRequest \/ ProbeLost \/ MergeAnswer \/ MergeGoesOn
    BY <1>4 DEF ProbeAnswer, TakeRequest, ProbeLost, MergeAnswer, MergeGoesOn, Artifact, ArtifactStep, UploadStep
  <1>5. CASE ServerStep \/ PressureRelieved \/ Restart \/ UNCHANGED vars
    BY <1>5 DEF ServerStep, PressureRelieved, Restart, vars, Upload, ArtifactStep, UploadStep
  <1> QED  BY <1>1, <1>2, <1>3, <1>4, <1>5 DEF Next

-----------------------------------------------------------------------------
(* Types of the artifact pipeline                                          *)

PipeType ==
  [on : Recordings \cup {NoRecording}, phase : Phase, todo : SUBSET Streams, good : SUBSET Streams,
   bad : SUBSET Streams, key : Streams \cup {"none"}, input : BOOLEAN, failures : 0..MergeRetries]
RequestType == [kind : {"completed", "retry"}, rec : Recordings]

RowTypes ==
  /\ ended \in [Recordings -> BOOLEAN]
  /\ rec \in [Recordings -> RecordingState]
  /\ merge \in [Recordings -> MergeState]
  /\ segment \in [Recordings -> [Streams -> FileState]]
  /\ output \in [Recordings -> [Streams -> FileState \ {"writing", "missing"}]]
  /\ disk \in [Recordings -> SUBSET ({"segment", "output"} \X Streams)]
  /\ reason \in [Recordings -> {"none", "admin", "system"}]

ArtifactTypes == RowTypes /\ requests \in Seq(RequestType) /\ pipe \in PipeType /\ Working

LEMMA ArtifactTypesAreTypeOK == ArtifactTypes <=> ArtifactTypeOK /\ Working
  BY DEF ArtifactTypes, RowTypes, ArtifactTypeOK, PipeType, RequestType

LEMMA PipeFields ==
  ASSUME ArtifactTypes
  PROVE  /\ pipe \in PipeType /\ pipe.on \in Recordings \cup {NoRecording} /\ pipe.phase \in Phase
         /\ pipe.todo \subseteq Streams /\ pipe.good \subseteq Streams /\ pipe.bad \subseteq Streams
         /\ pipe.key \in Streams \cup {"none"} /\ pipe.input \in BOOLEAN /\ pipe.failures \in 0..MergeRetries
         /\ pipe.phase # "idle" => pipe.on \in Recordings
         /\ pipe.phase \in {"remuxing", "checking"} => pipe.key \in Streams
  BY DEF ArtifactTypes, PipeType, Working

LEMMA AtWorkOnNothing == NoWork \in PipeType /\ NoWork.phase = "idle"
  BY MergeRetriesAssumption DEF NoWork, PipeType, Phase

LEMMA RequestMade ==
  ASSUME ArtifactTypes, NEW r \in Recordings, NEW kind \in {"completed", "retry"},
         requests' = Append(requests, [kind |-> kind, rec |-> r])
  PROVE  requests' \in Seq(RequestType)
  <1>1. [kind |-> kind, rec |-> r] \in RequestType
    BY DEF RequestType
  <1> QED  BY <1>1, AppendProperties DEF ArtifactTypes

LEMMA RequestTaken ==
  ASSUME ArtifactTypes, requests # <<>>
  PROVE  Head(requests).rec \in Recordings /\ Tail(requests) \in Seq(RequestType)
  <1>1. Head(requests) \in RequestType /\ Tail(requests) \in Seq(RequestType)
    BY HeadTailProperties DEF ArtifactTypes
  <1> QED  BY <1>1 DEF RequestType

LEMMA RequestTypes ==
  ASSUME ArtifactTypes, ArtifactStep
  PROVE  requests' \in Seq(RequestType)
  <1>1. requests \in Seq(RequestType) /\ <<>> \in Seq(RequestType)
    BY EmptySeq DEF ArtifactTypes
  <1>2. CASE TakeCompleted \/ TakeRetry
    BY <1>2, RequestTaken DEF TakeCompleted, TakeRetry
  <1>3. CASE \E r \in Recordings : LectureCompletes(r) \/ RequestRetry(r)
    BY <1>3, RequestMade DEF LectureCompletes, RequestRetry
  <1>4. CASE requests' \in {requests, <<>>}
    BY <1>1, <1>4
  <1> QED  BY <1>2, <1>3, <1>4 DEF ArtifactStep, DeleteMedia, LoseRequests, Probe, SkipStream, StartRemux, ProbeBreaks,
              EnterMerging, RemuxEnds, RecordOutput, AttemptFails, BackoffEnds, MarkReady, AnnounceReady, artifactVars

LEMMA BeginTypes ==
  ASSUME NEW r \in Recordings, BeginPipeline(r)
  PROVE  pipe' \in PipeType /\ Working'
  <1>1. Unprobed(r) \subseteq Streams
    BY DEF Unprobed
  <1>2. PICK phase \in {"probing", "probed"} : pipe' = [NoWork EXCEPT !.on = r, !.todo = Unprobed(r), !.phase = phase]
    BY DEF BeginPipeline
  <1>3. pipe' \in PipeType
    BY <1>1, <1>2, AtWorkOnNothing DEF PipeType, Phase
  <1>4. pipe'.on = r /\ pipe'.phase = phase
    BY <1>2 DEF NoWork
  <1> QED  BY <1>2, <1>3, <1>4 DEF Working

LEMMA PipeTypes ==
  ASSUME ArtifactTypes, ArtifactStep
  PROVE  pipe' \in PipeType /\ Working'
  <1>1. pipe \in PipeType
    BY PipeFields
  <1>2. CASE UNCHANGED pipe
    BY <1>1, <1>2 DEF ArtifactTypes, Working
  <1>3. CASE pipe' = NoWork
    BY <1>3, AtWorkOnNothing DEF Working
  <1>4. CASE TakeCompleted \/ TakeRetry
    <2>1. UNCHANGED pipe \/ BeginPipeline(Head(requests).rec)
      BY <1>4 DEF TakeCompleted, TakeRetry
    <2>2. requests # <<>>
      BY <1>4 DEF TakeCompleted, TakeRetry
    <2> QED  BY <1>2, <2>1, <2>2, BeginTypes, RequestTaken
  <1>5. ASSUME NEW k \in Streams, Probe(k) PROVE pipe' \in PipeType /\ Working'
    <2>1. PICK todo \in SUBSET Streams, good \in SUBSET Streams, bad \in SUBSET Streams, phase \in {"probing", "probed"} :
            pipe' = [pipe EXCEPT !.todo = todo, !.good = good, !.bad = bad, !.phase = phase]
      <3>1. PICK playable \in BOOLEAN :
              pipe' = [pipe EXCEPT !.todo = pipe.todo \ {k},
                                   !.good = IF playable THEN pipe.good \cup {k} ELSE pipe.good,
                                   !.bad = IF playable THEN pipe.bad ELSE pipe.bad \cup {k},
                                   !.phase = IF pipe.todo = {k} THEN "probed" ELSE pipe.phase]
        BY <1>5 DEF Probe
      <3>2. /\ pipe.todo \ {k} \in SUBSET Streams
            /\ (IF playable THEN pipe.good \cup {k} ELSE pipe.good) \in SUBSET Streams
            /\ (IF playable THEN pipe.bad ELSE pipe.bad \cup {k}) \in SUBSET Streams
            /\ (IF pipe.todo = {k} THEN "probed" ELSE pipe.phase) \in {"probing", "probed"}
        BY <1>5, PipeFields DEF Probe
      <3> QED  BY <3>1, <3>2
    <2>2. pipe' \in PipeType
      BY <1>1, <2>1 DEF PipeType, Phase
    <2>3. pipe'.on = pipe.on /\ pipe'.phase = phase
      BY <1>1, <2>1 DEF PipeType
    <2> QED  BY <1>5, <2>1, <2>2, <2>3, PipeFields DEF Probe, Working
  <1>6. ASSUME NEW k \in Streams, SkipStream(k) \/ StartRemux(k) PROVE pipe' \in PipeType /\ Working'
    <2>1. CASE SkipStream(k)
      <3>1. pipe' = [pipe EXCEPT !.todo = pipe.todo \ {k}] /\ pipe.todo \ {k} \in SUBSET Streams
        BY <2>1, PipeFields DEF SkipStream
      <3>2. pipe' \in PipeType /\ pipe'.on = pipe.on /\ pipe'.phase = pipe.phase /\ pipe'.key = pipe.key
        BY <1>1, <3>1 DEF PipeType
      <3> QED  BY <3>2 DEF ArtifactTypes, Working
    <2>2. CASE StartRemux(k)
      <3>1. PICK input \in BOOLEAN : pipe' = [pipe EXCEPT !.phase = "remuxing", !.key = k, !.input = input]
        <4>1. (<<"segment", k>> \in disk[pipe.on]) \in BOOLEAN
          OBVIOUS
        <4> QED  BY <2>2, <4>1 DEF StartRemux
      <3>2. pipe' \in PipeType /\ pipe'.on = pipe.on /\ pipe'.key = k
        BY <1>1, <3>1 DEF PipeType, Phase
      <3> QED  BY <2>2, <3>2, PipeFields DEF StartRemux, Working
    <2> QED  BY <1>6, <2>1, <2>2
  <1>7. CASE EnterMerging \/ BackoffEnds
    <2>1. pipe' = [pipe EXCEPT !.phase = "between", !.todo = Streams]
      BY <1>7 DEF EnterMerging, BackoffEnds
    <2>2. pipe' \in PipeType /\ pipe'.on = pipe.on /\ pipe'.phase = "between"
      BY <1>1, <2>1 DEF PipeType, Phase
    <2> QED  BY <1>7, <2>2, PipeFields DEF EnterMerging, BackoffEnds, Working
  <1>8. CASE RemuxEnds \/ MarkReady
    <2>1. PICK phase \in {"checking", "announcing"} :
            pipe' = [pipe EXCEPT !.phase = phase] /\ (phase = "checking" => pipe.phase = "remuxing") /\ pipe.phase # "idle"
      BY <1>8 DEF RemuxEnds, MarkReady
    <2>2. pipe' \in PipeType /\ pipe'.on = pipe.on /\ pipe'.phase = phase /\ pipe'.key = pipe.key
      BY <1>1, <2>1 DEF PipeType, Phase
    <2> QED  BY <2>1, <2>2, PipeFields DEF Working
  <1>9. CASE RecordOutput
    <2>1. pipe' = [pipe EXCEPT !.phase = "between", !.todo = pipe.todo \ {pipe.key}] /\ pipe.todo \ {pipe.key} \in SUBSET Streams
      BY <1>9, PipeFields DEF RecordOutput
    <2>2. pipe' \in PipeType /\ pipe'.on = pipe.on /\ pipe'.phase = "between"
      BY <1>1, <2>1 DEF PipeType, Phase
    <2> QED  BY <1>9, <2>2, PipeFields DEF RecordOutput, Upsert, Working
  <1>10. CASE AttemptFails /\ pipe.failures < MergeRetries
    <2>1. pipe' = [pipe EXCEPT !.phase = "backoff", !.failures = pipe.failures + 1] /\ pipe.failures + 1 \in 0..MergeRetries
      BY <1>10, PipeFields, MergeRetriesAssumption DEF AttemptFails
    <2>2. pipe' \in PipeType /\ pipe'.on = pipe.on /\ pipe'.phase = "backoff"
      BY <1>1, <2>1 DEF PipeType, Phase
    <2> QED  BY <1>10, <2>2, PipeFields DEF AttemptFails, Working
  <1>11. ArtifactStep => \/ UNCHANGED pipe \/ pipe' = NoWork \/ TakeCompleted \/ TakeRetry
                         \/ \E k \in Streams : Probe(k) \/ SkipStream(k) \/ StartRemux(k)
                         \/ EnterMerging \/ BackoffEnds \/ RemuxEnds \/ MarkReady \/ RecordOutput
                         \/ AttemptFails /\ pipe.failures < MergeRetries
    BY DEF ArtifactStep, LectureCompletes, RequestRetry, DeleteMedia, LoseRequests, ProbeBreaks, AttemptFails,
           AnnounceReady, artifactVars
  <1> QED  BY <1>2, <1>3, <1>4, <1>5, <1>6, <1>7, <1>8, <1>9, <1>10, <1>11

LEMMA RowStepTypes ==
  ASSUME ArtifactTypes, ArtifactStep
  PROVE  RowTypes'
  <1>1. RowTypes
    BY DEF ArtifactTypes
  <1>2. CASE UNCHANGED rows
    BY <1>1, <1>2 DEF rows, RowTypes
  <1>3. ASSUME NEW r \in Recordings, LectureCompletes(r) PROVE RowTypes'
    <2>1. disk[r] \cup {<<"segment", k>> : k \in Streams} \subseteq {"segment", "output"} \X Streams
      BY <1>1 DEF RowTypes
    <2>2. disk' \in [Recordings -> SUBSET ({"segment", "output"} \X Streams)]
      BY <1>1, <1>3, <2>1 DEF RowTypes, LectureCompletes
    <2>3. segment' \in [Recordings -> [Streams -> FileState]]
      BY <1>1, <1>3 DEF RowTypes, LectureCompletes, FileState
    <2> QED  BY <1>1, <1>3, <2>2, <2>3 DEF RowTypes, LectureCompletes
  <1>4. ASSUME NEW r \in Recordings, NEW why \in {"admin", "system"}, DeleteMedia(r, why) PROVE RowTypes'
    <2>1. disk' \in [Recordings -> SUBSET ({"segment", "output"} \X Streams)]
      BY <1>1, <1>4 DEF RowTypes, DeleteMedia
    <2>2. segment' \in [Recordings -> [Streams -> FileState]]
      BY <1>1, <1>4 DEF RowTypes, DeleteMedia, FileState
    <2>3. output' \in [Recordings -> [Streams -> FileState \ {"writing", "missing"}]]
      BY <1>1, <1>4 DEF RowTypes, DeleteMedia, FileState
    <2> QED  BY <1>1, <1>4, <2>1, <2>2, <2>3 DEF RowTypes, DeleteMedia, Rec, RecordingState
  <1>5. CASE TakeCompleted \/ TakeRetry
    <2>1. rec' \in [Recordings -> RecordingState] /\ merge' \in [Recordings -> MergeState]
      BY <1>1, <1>5 DEF RowTypes, TakeCompleted, TakeRetry, EnterFinalizing, Rec, RecordingState, MergeState
    <2> QED  BY <1>1, <1>5, <2>1 DEF RowTypes, TakeCompleted, TakeRetry
  <1>6. CASE EnterMerging
    <2>1. rec' \in [Recordings -> RecordingState] /\ merge' \in [Recordings -> MergeState]
      BY <1>1, <1>6 DEF RowTypes, EnterMerging, Rec, RecordingState, MergeState
    <2>2. segment' \in [Recordings -> [Streams -> FileState]]
      BY <1>1, <1>6, PipeFields DEF RowTypes, EnterMerging, FileState
    <2> QED  BY <1>1, <1>6, <2>1, <2>2 DEF RowTypes, EnterMerging
  <1>7. CASE RemuxEnds
    <2>1. disk[pipe.on] \cup {<<"output", pipe.key>>} \subseteq {"segment", "output"} \X Streams
      BY <1>1, <1>7, PipeFields DEF RowTypes, RemuxEnds
    <2>2. disk' \in [Recordings -> SUBSET ({"segment", "output"} \X Streams)]
      BY <1>1, <1>7, <2>1 DEF RowTypes, RemuxEnds
    <2> QED  BY <1>1, <1>7, <2>2 DEF RowTypes, RemuxEnds
  <1>8. Upsert => output' \in [Recordings -> [Streams -> FileState \ {"writing", "missing"}]]
    <2> SUFFICES ASSUME Upsert PROVE output' \in [Recordings -> [Streams -> FileState \ {"writing", "missing"}]]
      OBVIOUS
    <2>1. pipe.on \in Recordings /\ pipe.key \in Streams /\ "finalized" \in FileState \ {"writing", "missing"}
      BY PipeFields DEF Upsert, FileState
    <2> QED  BY <1>1, <2>1 DEF RowTypes, Upsert
  <1>9. CASE RecordOutput
    BY <1>1, <1>8, <1>9 DEF RowTypes, RecordOutput
  <1>10. CASE AttemptFails
    <2>1. rec' \in [Recordings -> RecordingState] /\ merge' \in [Recordings -> MergeState]
      BY <1>1, <1>10 DEF RowTypes, AttemptFails, Rec, RecordingState, MergeState
    <2> QED  BY <1>1, <1>8, <1>10, <2>1 DEF RowTypes, AttemptFails
  <1>11. CASE MarkReady
    BY <1>1, <1>11 DEF RowTypes, MarkReady, Rec, RecordingState, MergeState
  <1>12. ArtifactStep => \/ UNCHANGED rows \/ TakeCompleted \/ TakeRetry
                         \/ \E r \in Recordings : LectureCompletes(r) \/ \E why \in {"admin", "system"} : DeleteMedia(r, why)
                         \/ EnterMerging \/ RemuxEnds \/ RecordOutput \/ AttemptFails \/ MarkReady
    BY DEF ArtifactStep, RequestRetry, LoseRequests, Probe, SkipStream, StartRemux, ProbeBreaks, BackoffEnds,
           AnnounceReady, artifactVars, rows
  <1> QED  BY <1>2, <1>3, <1>4, <1>5, <1>6, <1>7, <1>9, <1>10, <1>11, <1>12

LEMMA ArtifactTypesStep ==
  ASSUME ArtifactTypes, ArtifactStep
  PROVE  ArtifactTypes'
  BY RequestTypes, PipeTypes, RowStepTypes DEF ArtifactTypes

-----------------------------------------------------------------------------
(* A recording never deleted is whole: what its rows name exists, and the  *)
(* streams it is done with have their output.                              *)

Outputs(r, keys) == \A k \in keys : segment[r][k] = "finalized" => output[r][k] = "finalized"

Kept(r) ==
  /\ rec[r] # "deleted"
  /\ \A k \in Streams : output[r][k] = "none" \/ FileThere(r, k)
  /\ rec[r] = "ready" => Outputs(r, Streams)

Pipelined(r) ==
  pipe.on = r =>
    /\ pipe.phase \in {"probing", "probed"} => rec[r] = "finalizing"
    /\ pipe.phase \in {"between", "remuxing", "checking", "backoff"} => rec[r] = "merging"
    /\ pipe.phase \in {"between", "remuxing", "checking"} => Outputs(r, Streams \ pipe.todo)

Whole(r) == Kept(r) /\ Pipelined(r)

WholeUntilDeleted == \A r \in Recordings : reason[r] = "none" => Whole(r)

(* Nothing is lost when a recording keeps its outputs, gets no new segment *)
(* and does not become ready.                                              *)
LEMMA KeptFrame ==
  ASSUME NEW r \in Recordings, Kept(r), rec'[r] # "deleted", rec'[r] = "ready" => rec[r] = "ready",
         \A k \in Streams : segment'[r][k] = "finalized" => segment[r][k] = "finalized",
         output'[r] = output[r], disk[r] \subseteq disk'[r]
  PROVE  Kept(r)'
  BY DEF Kept, Outputs, FileThere

LEMMA PipelinedFrame ==
  ASSUME NEW r \in Recordings, Pipelined(r), rec'[r] = rec[r],
         \A k \in Streams : segment'[r][k] = "finalized" => segment[r][k] = "finalized",
         output'[r] = output[r], UNCHANGED pipe \/ pipe'.on # r
  PROVE  Pipelined(r)'
  BY DEF Pipelined, Outputs

LEMMA WholeElsewhere ==
  ASSUME NEW r \in Recordings, Whole(r), rec'[r] = rec[r], segment'[r] = segment[r], output'[r] = output[r],
         disk[r] \subseteq disk'[r], UNCHANGED pipe \/ pipe'.on # r \/ pipe'.phase = "idle"
  PROVE  Whole(r)'
  <1>1. Kept(r)'
    BY KeptFrame DEF Whole, Kept
  <1>2. CASE UNCHANGED pipe \/ pipe'.on # r
    BY <1>1, <1>2, PipelinedFrame DEF Whole
  <1>3. CASE pipe'.phase = "idle"
    BY <1>1, <1>3 DEF Whole, Pipelined
  <1> QED  BY <1>2, <1>3

LEMMA TakeWhole ==
  ASSUME ArtifactTypes, TakeCompleted \/ TakeRetry, NEW r \in Recordings, Whole(r)
  PROVE  Whole(r)'
  <1> DEFINE q == Head(requests).rec
  <1>1. /\ q \in Recordings /\ pipe = NoWork /\ UNCHANGED <<segment, output, disk>>
        /\ \/ UNCHANGED pipe /\ UNCHANGED rec
           \/ UNCHANGED pipe /\ EnterFinalizing(q)
           \/ BeginPipeline(q) /\ rec'[q] = "finalizing" /\ (EnterFinalizing(q) \/ Rec(q, "finalizing"))
    <2>1. q \in Recordings
      BY RequestTaken DEF TakeCompleted, TakeRetry
    <2>2. Rec(q, "finalizing") => rec'[q] = "finalizing"
      BY <2>1 DEF Rec, ArtifactTypes, RowTypes
    <2> QED  BY <2>1, <2>2 DEF TakeCompleted, TakeRetry
  <1> HIDE DEF q
  <1>2. rec'[r] \in {rec[r], "finalizing"} /\ (r # q => rec'[r] = rec[r])
    BY <1>1 DEF EnterFinalizing, Rec, ArtifactTypes, RowTypes
  <1>3. Kept(r)'
    BY <1>1, <1>2, KeptFrame DEF Whole, Kept
  <1>4. CASE UNCHANGED pipe
    <2>1. pipe'.phase = "idle"
      BY <1>1, <1>4, AtWorkOnNothing
    <2> QED  BY <1>3, <2>1 DEF Whole, Pipelined
  <1>5. CASE BeginPipeline(q) /\ rec'[q] = "finalizing"
    <2>1. pipe'.on = q /\ pipe'.phase \in {"probing", "probed"}
      BY <1>5 DEF BeginPipeline, NoWork
    <2> QED  BY <1>3, <1>5, <2>1 DEF Whole, Pipelined
  <1> QED  BY <1>1, <1>4, <1>5

LEMMA ProbeWhole ==
  ASSUME ArtifactTypes, NEW k \in Streams, Probe(k), NEW r \in Recordings, Whole(r)
  PROVE  Whole(r)'
  <1>1. UNCHANGED rows
    BY DEF Probe
  <1>2. pipe'.on = pipe.on /\ pipe'.phase \in {"probing", "probed"} /\ pipe.phase = "probing"
    BY PipeFields DEF Probe, PipeType
  <1>3. Kept(r)'
    BY <1>1, KeptFrame DEF Whole, Kept, rows
  <1> QED  BY <1>1, <1>2, <1>3 DEF Whole, Pipelined, rows

LEMMA EnterMergingWhole ==
  ASSUME ArtifactTypes, EnterMerging, NEW r \in Recordings, Whole(r)
  PROVE  Whole(r)'
  <1>1. /\ pipe.on \in Recordings /\ UNCHANGED <<output, disk>> /\ pipe.phase = "probed"
        /\ pipe'.on = pipe.on /\ pipe'.phase = "between" /\ pipe'.todo = Streams
    BY PipeFields DEF EnterMerging, PipeType
  <1>2. CASE r = pipe.on
    <2>1. rec[r] = "finalizing"
      BY <1>1, <1>2 DEF Whole, Pipelined
    <2>2. rec'[r] = "merging"
      BY <1>2, <2>1 DEF EnterMerging, Rec, ArtifactTypes, RowTypes
    <2>3. Kept(r)'
      BY <1>1, <2>2 DEF Whole, Kept, FileThere
    <2>4. Outputs(r, Streams \ pipe.todo)'
      BY <1>1 DEF Outputs
    <2> QED  BY <1>1, <2>2, <2>3, <2>4 DEF Whole, Pipelined
  <1>3. CASE r # pipe.on
    <2>1. rec'[r] = rec[r] /\ segment'[r] = segment[r]
      BY <1>3 DEF EnterMerging, Rec, ArtifactTypes, RowTypes
    <2> QED  BY <1>1, <1>3, <2>1, WholeElsewhere
  <1> QED  BY <1>2, <1>3

(* A stream that is skipped or done with has its output, if it is to have. *)
LEMMA StreamWhole ==
  ASSUME ArtifactTypes, NEW k \in Streams, SkipStream(k) \/ StartRemux(k), NEW r \in Recordings, Whole(r)
  PROVE  Whole(r)'
  <1>1. UNCHANGED rows /\ pipe'.on = pipe.on /\ pipe.phase = "between"
    BY PipeFields DEF SkipStream, StartRemux, PipeType
  <1>2. Kept(r)'
    BY <1>1, KeptFrame DEF Whole, Kept, rows
  <1>3. CASE r = pipe.on /\ SkipStream(k)
    <2>1. pipe'.phase = "between" /\ pipe'.todo = pipe.todo \ {k}
      BY <1>3, PipeFields DEF SkipStream, PipeType
    <2>2. segment[r][k] = "finalized" => output[r][k] = "finalized"
      BY <1>3 DEF SkipStream, UpToDate, Whole, Kept, FileThere
    <2>3. Outputs(r, Streams \ pipe.todo)'
      BY <1>1, <1>3, <2>1, <2>2 DEF Whole, Pipelined, Outputs, rows
    <2> QED  BY <1>1, <1>2, <1>3, <2>1, <2>3 DEF Whole, Pipelined, rows
  <1>4. CASE r = pipe.on /\ StartRemux(k)
    <2>1. pipe'.phase = "remuxing" /\ pipe'.todo = pipe.todo
      BY <1>4, PipeFields DEF StartRemux, PipeType
    <2> QED  BY <1>1, <1>2, <1>4, <2>1 DEF Whole, Pipelined, Outputs, rows
  <1>5. CASE r # pipe.on
    BY <1>1, <1>2, <1>5 DEF Whole, Pipelined
  <1> QED  BY <1>3, <1>4, <1>5

LEMMA RemuxWhole ==
  ASSUME ArtifactTypes, RemuxEnds, NEW r \in Recordings, Whole(r)
  PROVE  Whole(r)'
  <1>1. /\ UNCHANGED <<rec, segment, output>> /\ pipe.phase = "remuxing"
        /\ pipe'.on = pipe.on /\ pipe'.phase = "checking" /\ pipe'.todo = pipe.todo
    BY PipeFields DEF RemuxEnds, PipeType
  <1>2. disk[r] \subseteq disk'[r]
    BY PipeFields DEF RemuxEnds, ArtifactTypes, RowTypes
  <1>3. Kept(r)'
    BY <1>1, <1>2, KeptFrame DEF Whole, Kept
  <1> QED  BY <1>1, <1>3 DEF Whole, Pipelined, Outputs

(* The row of an output is written when the file exists.                   *)
LEMMA UpsertWhole ==
  ASSUME ArtifactTypes, Upsert \/ UNCHANGED output, UNCHANGED <<segment, disk>>, NEW r \in Recordings, Whole(r)
  PROVE  /\ \A k \in Streams : output'[r][k] = output[r][k] \/ output'[r][k] = "finalized"
         /\ \A k \in Streams : output'[r][k] = "none" \/ FileThere(r, k)'
         /\ Upsert => pipe.key \in Streams /\ (r = pipe.on => output'[r][pipe.key] = "finalized")
  <1>1. CASE Upsert
    <2>1. pipe.key \in Streams /\ pipe.on \in Recordings /\ <<"output", pipe.key>> \in disk[pipe.on]
      BY <1>1, PipeFields DEF Upsert
    <2>2. /\ output'[pipe.on][pipe.key] = "finalized"
          /\ \A k \in Streams : r # pipe.on \/ k # pipe.key => output'[r][k] = output[r][k]
      BY <1>1, <2>1 DEF Upsert, ArtifactTypes, RowTypes
    <2> QED  BY <2>1, <2>2 DEF Whole, Kept, FileThere
  <1>2. CASE UNCHANGED output /\ ~Upsert
    BY <1>2 DEF Whole, Kept, FileThere
  <1> QED  BY <1>1, <1>2

LEMMA RecordWhole ==
  ASSUME ArtifactTypes, RecordOutput, NEW r \in Recordings, Whole(r)
  PROVE  Whole(r)'
  <1>1. /\ UNCHANGED <<rec, segment, disk>> /\ pipe.phase = "checking"
        /\ pipe'.on = pipe.on /\ pipe'.phase = "between" /\ pipe'.todo = pipe.todo \ {pipe.key}
    BY PipeFields DEF RecordOutput, Upsert, PipeType
  <1>2. /\ \A k \in Streams : output'[r][k] = output[r][k] \/ output'[r][k] = "finalized"
        /\ \A k \in Streams : output'[r][k] = "none" \/ FileThere(r, k)'
        /\ r = pipe.on => output'[r][pipe.key] = "finalized"
    BY <1>1, UpsertWhole DEF RecordOutput
  <1>3. Kept(r)'
    BY <1>1, <1>2 DEF Whole, Kept, Outputs
  <1>4. r = pipe.on => Outputs(r, Streams \ pipe.todo)'
    BY <1>1, <1>2 DEF Whole, Pipelined, Outputs
  <1> QED  BY <1>1, <1>3, <1>4 DEF Whole, Pipelined

LEMMA FailsWhole ==
  ASSUME ArtifactTypes, AttemptFails, NEW r \in Recordings, Whole(r)
  PROVE  Whole(r)'
  <1>1. /\ UNCHANGED <<segment, disk>> /\ pipe.phase \in {"remuxing", "checking"} /\ pipe.on \in Recordings
        /\ Upsert \/ UNCHANGED output
    BY PipeFields DEF AttemptFails
  <1>2. /\ \A k \in Streams : output'[r][k] = output[r][k] \/ output'[r][k] = "finalized"
        /\ \A k \in Streams : output'[r][k] = "none" \/ FileThere(r, k)'
    BY <1>1, UpsertWhole
  <1>3. rec'[r] \in {rec[r], "failed"}
    BY DEF AttemptFails, Rec, ArtifactTypes, RowTypes
  <1>4. Kept(r)'
    BY <1>1, <1>2, <1>3 DEF Whole, Kept, Outputs
  <1>5. CASE pipe' = NoWork
    <2>1. pipe'.phase = "idle"
      BY <1>5, AtWorkOnNothing
    <2> QED  BY <1>4, <2>1 DEF Whole, Pipelined
  <1>6. CASE pipe' = [pipe EXCEPT !.phase = "backoff", !.failures = @ + 1] /\ UNCHANGED rec
    <2>1. pipe'.phase = "backoff" /\ pipe'.on = pipe.on
      BY <1>6, PipeFields DEF PipeType
    <2> QED  BY <1>1, <1>4, <1>6, <2>1 DEF Whole, Pipelined
  <1> QED  BY <1>5, <1>6 DEF AttemptFails

LEMMA ReadyWhole ==
  ASSUME ArtifactTypes, MarkReady, NEW r \in Recordings, Whole(r)
  PROVE  Whole(r)'
  <1>1. /\ UNCHANGED <<segment, output, disk>> /\ pipe.phase = "between" /\ pipe.todo = {}
        /\ pipe'.on = pipe.on /\ pipe'.phase = "announcing"
    BY PipeFields DEF MarkReady, PipeType
  <1>2. CASE r = pipe.on
    <2>1. rec'[r] = "ready"
      BY <1>2 DEF MarkReady, Rec, ArtifactTypes, RowTypes
    <2>2. Outputs(r, Streams)
      BY <1>1, <1>2 DEF Whole, Pipelined
    <2>3. Kept(r)'
      BY <1>1, <2>1, <2>2 DEF Whole, Kept, Outputs, FileThere
    <2> QED  BY <1>1, <2>3 DEF Whole, Pipelined
  <1>3. CASE r # pipe.on
    <2>1. rec'[r] = rec[r]
      BY <1>3 DEF MarkReady, Rec, ArtifactTypes, RowTypes
    <2> QED  BY <1>1, <1>3, <2>1, WholeElsewhere
  <1> QED  BY <1>2, <1>3

LEMMA BackoffWhole ==
  ASSUME ArtifactTypes, BackoffEnds, NEW r \in Recordings, Whole(r)
  PROVE  Whole(r)'
  <1>1. /\ UNCHANGED rows /\ pipe.phase = "backoff"
        /\ pipe'.on = pipe.on /\ pipe'.phase = "between" /\ pipe'.todo = Streams
    BY PipeFields DEF BackoffEnds, PipeType
  <1>2. Kept(r)'
    BY <1>1, KeptFrame DEF Whole, Kept, rows
  <1>3. Outputs(r, Streams \ pipe.todo)'
    BY <1>1 DEF Outputs
  <1> QED  BY <1>1, <1>2, <1>3 DEF Whole, Pipelined, rows

LEMMA WholeStep ==
  ASSUME ArtifactTypes, WholeUntilDeleted, ArtifactStep
  PROVE  WholeUntilDeleted'
  <1> SUFFICES ASSUME NEW r \in Recordings, reason'[r] = "none" PROVE Whole(r)'
    BY DEF WholeUntilDeleted
  <1>1. /\ reason[r] = "none"
        /\ \A q \in Recordings, why \in {"admin", "system"} : DeleteMedia(q, why) => q # r
    BY DEF ArtifactStep, LectureCompletes, RequestRetry, DeleteMedia, TakeCompleted, TakeRetry, LoseRequests, Probe,
           SkipStream, StartRemux, ProbeBreaks, EnterMerging, RemuxEnds, RecordOutput, AttemptFails, BackoffEnds,
           MarkReady, AnnounceReady, artifactVars, rows, ArtifactTypes, RowTypes
  <1>2. Whole(r)
    BY <1>1 DEF WholeUntilDeleted
  <1>3. CASE UNCHANGED rows /\ (UNCHANGED pipe \/ pipe' = NoWork)
    BY <1>2, <1>3, WholeElsewhere, AtWorkOnNothing DEF rows
  <1>4. ASSUME NEW q \in Recordings, LectureCompletes(q) PROVE Whole(r)'
    <2>1. /\ UNCHANGED <<rec, output, pipe>> /\ disk[r] \subseteq disk'[r]
          /\ \A k \in Streams : segment'[r][k] = "finalized" => segment[r][k] = "finalized"
      BY <1>4 DEF LectureCompletes, ArtifactTypes, RowTypes
    <2> QED  BY <1>2, <2>1, KeptFrame, PipelinedFrame DEF Whole, Kept
  <1>5. ASSUME NEW q \in Recordings, NEW why \in {"admin", "system"}, DeleteMedia(q, why) PROVE Whole(r)'
    <2>1. /\ q # r /\ UNCHANGED pipe /\ rec'[r] = rec[r] /\ segment'[r] = segment[r] /\ output'[r] = output[r]
          /\ disk'[r] = disk[r]
      BY <1>1, <1>5 DEF DeleteMedia, Rec, ArtifactTypes, RowTypes
    <2> QED  BY <1>2, <2>1, WholeElsewhere
  <1>6. CASE (\E q \in Recordings : RequestRetry(q)) \/ LoseRequests \/ ProbeBreaks \/ AnnounceReady \/ UNCHANGED artifactVars
    BY <1>3, <1>6 DEF RequestRetry, LoseRequests, ProbeBreaks, AnnounceReady, artifactVars, rows
  <1> QED  BY <1>2, <1>4, <1>5, <1>6, TakeWhole, ProbeWhole, EnterMergingWhole, StreamWhole, RemuxWhole, RecordWhole,
              FailsWhole, ReadyWhole, BackoffWhole DEF ArtifactStep

-----------------------------------------------------------------------------
(* Types of the upload queue                                               *)

DrainType ==
  [job : Recordings \cup {NoRecording}, at : Calls \cup {"idle", "between"},
   key : Streams \cup {"none"}, made : Lectures \cup {NoLecture}, done : BOOLEAN]
LectureType ==
  [of : Recordings \cup {NoRecording}, state : {"unused", "open", "complete", "deleted"}, parts : SUBSET Streams]

JobTypes ==
  /\ job \in [Recordings -> JobState]
  /\ attempt \in [Recordings -> 0..ServerLimit]
  /\ part \in [Recordings -> [Streams -> PartState]]
  /\ remote \in [Recordings -> Lectures \cup {NoLecture}]
  /\ cleanup \in [Recordings -> {"not-needed", "pending", "done"}]

Calling ==
  /\ drain.at # "idle" => drain.job \in Recordings
  /\ drain.at = "sending" => drain.key \in Streams
  /\ drain.at = "creating" /\ drain.done => drain.made \in Lectures

(* What the scheduler works on has not ended.                              *)
Draining == \A r \in Recordings : drain.job = r => job[r] \notin {"none", "done", "dead-letter"}

(* A job that may still be attempted has an attempt left.                  *)
Budget ==
  \A r \in Recordings :
    drain.job = r \/ job[r] \in {"none", "queued", "failed", "uploading", "completing"} => attempt[r] < ServerLimit

UploadTypes ==
  /\ JobTypes /\ drain \in DrainType /\ lecture \in [Lectures -> LectureType]
  /\ Calling /\ Draining /\ Budget

LEMMA UploadTypesAreTypeOK == UploadTypes <=> UploadTypeOK /\ Calling /\ Draining /\ Budget
  BY DEF UploadTypes, UploadTypeOK, JobTypes, DrainType, LectureType

LEMMA DrainFields ==
  ASSUME UploadTypes
  PROVE  /\ drain \in DrainType /\ drain.job \in Recordings \cup {NoRecording} /\ drain.at \in Calls \cup {"idle", "between"}
         /\ drain.key \in Streams \cup {"none"} /\ drain.made \in Lectures \cup {NoLecture} /\ drain.done \in BOOLEAN
         /\ drain.at # "idle" => drain.job \in Recordings
         /\ drain.at = "sending" => drain.key \in Streams
         /\ drain.at = "creating" /\ drain.done => drain.made \in Lectures
  BY DEF UploadTypes, DrainType, Calling

LEMMA ResetParts ==
  \A parts \in [Streams -> PartState] :
    /\ Reset(parts) \in [Streams -> PartState] /\ Anew(parts) \in [Streams -> PartState]
    /\ \A k \in Streams : /\ Reset(parts)[k] = "none" <=> parts[k] = "none"
                          /\ Reset(parts)[k] = "uploaded" <=> parts[k] = "uploaded"
                          /\ Anew(parts)[k] = "none" <=> parts[k] = "none"
                          /\ Anew(parts)[k] # "uploaded"
  BY DEF Reset, Anew, PartState

LEMMA Rests ==
  /\ AtRest \in DrainType /\ AtRest.job = NoRecording /\ AtRest.at = "idle" /\ AtRest.done = FALSE
  /\ \A r \in Recordings : AtRest.job # r
  BY NoRecordingAssumption DEF AtRest, DrainType

(* What the fields of the drain are after each kind of step.               *)
LEMMA NewDrain ==
  ASSUME NEW r \in Recordings, NEW at \in Calls \cup {"between"}, drain' = [AtRest EXCEPT !.job = r, !.at = at]
  PROVE  drain' \in DrainType /\ drain'.job = r /\ drain'.at = at /\ drain'.done = FALSE
  BY DEF AtRest, DrainType, Calls

LEMMA DrainWaits ==
  ASSUME UploadTypes, NEW call \in Calls, Await(call)
  PROVE  drain' \in DrainType /\ drain'.job = drain.job /\ drain'.at = call /\ drain'.done = FALSE
         /\ drain'.key = drain.key
  BY DrainFields DEF Await, DrainType

LEMMA DrainGoesOn ==
  ASSUME UploadTypes, drain' = [drain EXCEPT !.at = "between"]
  PROVE  drain' \in DrainType /\ drain'.job = drain.job /\ drain'.at = "between" /\ drain'.done = drain.done
  BY DrainFields DEF DrainType

LEMMA DrainSends ==
  ASSUME UploadTypes, NEW k \in Streams, drain' = [drain EXCEPT !.at = "sending", !.key = k, !.done = FALSE]
  PROVE  drain' \in DrainType /\ drain'.job = drain.job /\ drain'.at = "sending" /\ drain'.key = k /\ drain'.done = FALSE
  BY DrainFields DEF DrainType, Calls

LEMMA DrainDone ==
  ASSUME UploadTypes, drain' = [drain EXCEPT !.done = TRUE]
  PROVE  drain' \in DrainType /\ drain'.job = drain.job /\ drain'.at = drain.at /\ drain'.key = drain.key /\ drain'.done = TRUE
  BY DrainFields DEF DrainType

LEMMA LectureMade ==
  ASSUME UploadTypes, ServerCreates
  PROVE  \E l \in Lectures :
           /\ lecture[l] = NotGiven /\ drain'.made = l
           /\ drain' \in DrainType /\ drain'.job = drain.job /\ drain'.at = "creating" /\ drain'.done = TRUE
           /\ lecture' \in [Lectures -> LectureType] /\ drain.job \in Recordings
           /\ lecture'[l].of = drain.job /\ lecture'[l].state = "open" /\ lecture'[l].parts = {}
           /\ \A m \in Lectures : m # l => lecture'[m] = lecture[m]
  <1> DEFINE new == [of |-> drain.job, state |-> "open", parts |-> {}]
  <1>1. PICK l \in Lectures : /\ lecture[l] = NotGiven /\ lecture' = [lecture EXCEPT ![l] = new]
                              /\ drain' = [drain EXCEPT !.made = l, !.done = TRUE]
    BY DEF ServerCreates, Lecture
  <1>2. drain.at = "creating" /\ drain.job \in Recordings
    BY DrainFields DEF ServerCreates
  <1>3. new \in LectureType /\ new.of = drain.job /\ new.state = "open" /\ new.parts = {}
    BY <1>2 DEF LectureType
  <1> HIDE DEF new
  <1>4. drain' \in DrainType /\ drain'.made = l /\ drain'.job = drain.job /\ drain'.at = "creating" /\ drain'.done = TRUE
    BY <1>1, <1>2, DrainFields DEF DrainType
  <1>5. /\ lecture' \in [Lectures -> LectureType] /\ lecture'[l] = new
        /\ \A m \in Lectures : m # l => lecture'[m] = lecture[m]
    BY <1>1, <1>3 DEF UploadTypes
  <1> QED  BY <1>1, <1>2, <1>3, <1>4, <1>5

(* The lecture the call is about, when the job has one.                    *)
LEMMA LectureCalled ==
  ASSUME UploadTypes, ServerActs, remote[drain.job] \in Lectures
  PROVE  LET l == remote[drain.job] IN
         /\ drain.job \in Recordings /\ lecture' \in [Lectures -> LectureType]
         /\ \A m \in Lectures : m # l => lecture'[m] = lecture[m]
         /\ lecture'[l].of = lecture[l].of
         /\ \/ drain.at = "deleting" /\ lecture'[l].state = "deleted" /\ lecture'[l].parts = lecture[l].parts
            \/ /\ drain.at = "sending" /\ lecture'[l].state = lecture[l].state
               /\ lecture'[l].parts = lecture[l].parts \cup {drain.key} /\ drain.key \in Streams
            \/ drain.at = "completing" /\ lecture'[l].state = "complete" /\ lecture'[l].parts = lecture[l].parts
  <1> DEFINE l == remote[drain.job]
  <1>1. /\ l \in Lectures /\ lecture[l] \in LectureType /\ drain.at # "idle" /\ drain.job \in Recordings
        /\ lecture[l].parts \in SUBSET Streams
    BY DrainFields DEF ServerActs, Calls, UploadTypes, LectureType
  <1>2. \/ drain.at = "deleting" /\ lecture' = [lecture EXCEPT ![l] = [lecture[l] EXCEPT !.state = "deleted"]]
        \/ /\ drain.at = "sending"
           /\ lecture' = [lecture EXCEPT ![l] = [lecture[l] EXCEPT !.parts = lecture[l].parts \cup {drain.key}]]
        \/ drain.at = "completing" /\ lecture' = [lecture EXCEPT ![l] = [lecture[l] EXCEPT !.state = "complete"]]
    BY DEF ServerActs, Lecture
  <1> HIDE DEF l
  <1>3. ASSUME NEW new \in LectureType, lecture' = [lecture EXCEPT ![l] = new]
        PROVE  /\ lecture' \in [Lectures -> LectureType] /\ lecture'[l] = new
               /\ \A m \in Lectures : m # l => lecture'[m] = lecture[m]
    BY <1>1, <1>3 DEF UploadTypes
  <1>4. CASE drain.at = "deleting" /\ lecture' = [lecture EXCEPT ![l] = [lecture[l] EXCEPT !.state = "deleted"]]
    <2> DEFINE new == [lecture[l] EXCEPT !.state = "deleted"]
    <2>1. new \in LectureType /\ new.of = lecture[l].of /\ new.state = "deleted" /\ new.parts = lecture[l].parts
      BY <1>1 DEF LectureType
    <2> HIDE DEF new
    <2>2. lecture' = [lecture EXCEPT ![l] = new]
      BY <1>4 DEF new
    <2> QED  BY <1>1, <1>3, <1>4, <2>1, <2>2 DEF l
  <1>5. CASE /\ drain.at = "sending"
             /\ lecture' = [lecture EXCEPT ![l] = [lecture[l] EXCEPT !.parts = lecture[l].parts \cup {drain.key}]]
    <2> DEFINE new == [lecture[l] EXCEPT !.parts = lecture[l].parts \cup {drain.key}]
    <2>1. drain.key \in Streams /\ lecture[l].parts \cup {drain.key} \in SUBSET Streams
      BY <1>1, <1>5, DrainFields
    <2>2. new \in LectureType /\ new.of = lecture[l].of /\ new.state = lecture[l].state
          /\ new.parts = lecture[l].parts \cup {drain.key}
      BY <1>1, <2>1 DEF LectureType
    <2> HIDE DEF new
    <2>3. lecture' = [lecture EXCEPT ![l] = new]
      BY <1>5 DEF new
    <2> QED  BY <1>1, <1>3, <1>5, <2>1, <2>2, <2>3 DEF l
  <1>6. CASE drain.at = "completing" /\ lecture' = [lecture EXCEPT ![l] = [lecture[l] EXCEPT !.state = "complete"]]
    <2> DEFINE new == [lecture[l] EXCEPT !.state = "complete"]
    <2>1. new \in LectureType /\ new.of = lecture[l].of /\ new.state = "complete" /\ new.parts = lecture[l].parts
      BY <1>1 DEF LectureType
    <2> HIDE DEF new
    <2>2. lecture' = [lecture EXCEPT ![l] = new]
      BY <1>6 DEF new
    <2> QED  BY <1>1, <1>3, <1>6, <2>1, <2>2 DEF l
  <1> QED  BY <1>2, <1>4, <1>5, <1>6

(* A call is made of a job that has, or has not, a lecture; the lecture is *)
(* deleted first when that is pending, and completed when all is uploaded. *)
Call ==
  LET r == drain.job IN
  /\ drain.at = "creating" => remote[r] = NoLecture
  /\ drain.at \in {"deleting", "between", "sending", "completing"} => remote[r] # NoLecture
  /\ drain.at = "deleting" => cleanup[r] = "pending"
  /\ drain.at \in {"between", "sending", "completing"} => cleanup[r] # "pending"
  /\ drain.at = "sending" => part[r][drain.key] = "uploading"
  /\ drain.at = "completing" => \A k \in Streams : part[r][k] \in {"none", "uploaded"}

LEMMA CalledLecture ==
  ASSUME UploadTypes, Call, drain.at \in {"deleting", "between", "sending", "completing"}
  PROVE  drain.job \in Recordings /\ remote[drain.job] \in Lectures
  <1>1. drain.job \in Recordings
    BY DrainFields
  <1> QED  BY <1>1 DEF Call, UploadTypes, JobTypes

(* The scheduler stays with its job, or has taken one that is due.         *)
LEMMA StaysDraining ==
  ASSUME UploadTypes, NEW r \in Recordings, drain'.job = r, drain.job = r \/ DueJob(r), UNCHANGED attempt,
         UNCHANGED job \/ \E new \in {"uploading", "completing"} : job' = [job EXCEPT ![r] = new]
  PROVE  Draining' /\ Budget'
  <1>1. job[r] \notin {"none", "done", "dead-letter"} /\ attempt[r] < ServerLimit
    BY DEF UploadTypes, Draining, Budget, DueJob
  <1>2. /\ \A s \in Recordings : s # r => job'[s] = job[s]
        /\ job'[r] \in {job[r], "uploading", "completing"}
    BY DEF UploadTypes, JobTypes
  <1> QED  BY <1>1, <1>2 DEF UploadTypes, Draining, Budget

(* The scheduler has left its job.                                         *)
LEMMA LeavesJob ==
  ASSUME UploadTypes, drain' = AtRest,
         \A s \in Recordings :
           job'[s] \in {"none", "queued", "failed", "uploading", "completing"} => attempt'[s] < ServerLimit
  PROVE  Draining' /\ Budget'
  BY Rests DEF Draining, Budget

LEMMA QueueTypes ==
  ASSUME UploadTypes, NEW r \in Recordings, Enqueues(r) \/ Requeue(r) \/ Cancels(r)
  PROVE  UploadTypes'
  <1>1. UNCHANGED <<drain, lecture, remote>> /\ ServerLimit > 0
    BY LimitsAssumption DEF Enqueues, Requeue, Cancels
  <1>2. CASE UNCHANGED <<job, part, attempt, cleanup>>
    BY <1>1, <1>2 DEF UploadTypes, JobTypes, Calling, Draining, Budget
  <1>3. CASE Enqueues(r) /\ job[r] = "none"
    <2>1. PICK deliverables \in SUBSET Streams : Enqueue(r, deliverables)
      BY <1>3 DEF Enqueues
    <2>2. JobTypes' /\ UNCHANGED attempt
      <3>1. [k \in Streams |-> IF k \in deliverables THEN "pending" ELSE "none"] \in [Streams -> PartState]
        BY DEF PartState
      <3>2. part' \in [Recordings -> [Streams -> PartState]]
        BY <1>3, <2>1, <3>1 DEF Enqueue, UploadTypes, JobTypes
      <3>3. job' \in [Recordings -> JobState]
        BY <1>3, <2>1 DEF Enqueue, Job, UploadTypes, JobTypes, JobState
      <3> QED  BY <1>1, <1>3, <3>2, <3>3 DEF Enqueues, UploadTypes, JobTypes
    <2>3. \A s \in Recordings : job'[s] = job[s] \/ (s = r /\ drain.job # r /\ attempt[r] < ServerLimit)
      BY <1>3, <2>1 DEF Enqueue, Job, UploadTypes, JobTypes, Draining, Budget
    <2> QED  BY <1>1, <2>2, <2>3 DEF UploadTypes, Calling, Draining, Budget
  <1>4. CASE Requeue(r)
    <2>1. job' \in [Recordings -> JobState] /\ attempt' \in [Recordings -> 0..ServerLimit]
      BY <1>4, LimitsAssumption DEF Requeue, Job, UploadTypes, JobTypes, JobState
    <2>2. part' \in [Recordings -> [Streams -> PartState]]
      BY <1>4, ResetParts DEF Requeue, UploadTypes, JobTypes
    <2>3. cleanup' \in [Recordings -> {"not-needed", "pending", "done"}]
      BY <1>4 DEF Requeue, UploadTypes, JobTypes
    <2>4. \A s \in Recordings : \/ job'[s] = job[s] /\ attempt'[s] = attempt[s]
                                \/ s = r /\ drain.job # r /\ attempt'[r] = 0
      BY <1>4 DEF Requeue, Job, UploadTypes, JobTypes, Draining
    <2>5. Draining' /\ Budget'
      BY <1>1, <2>4 DEF UploadTypes, Draining, Budget
    <2> QED  BY <1>1, <2>1, <2>2, <2>3, <2>5 DEF UploadTypes, JobTypes, Calling
  <1>5. CASE Cancels(r)
    <2>1. JobTypes' /\ UNCHANGED attempt
      BY <1>1, <1>5 DEF Cancels, CancelDeleted, UploadTypes, JobTypes, JobState
    <2>2. \A s \in Recordings : job'[s] = job[s] \/ (job'[s] = "cancelled" /\ job[s] \notin {"none", "done"})
      BY <1>5 DEF Cancels, CancelDeleted, UploadTypes, JobTypes
    <2> QED  BY <1>1, <2>1, <2>2 DEF UploadTypes, Calling, Draining, Budget
  <1>6. Enqueues(r) => job[r] = "none" \/ UNCHANGED <<job, part, attempt, cleanup>>
    BY DEF Enqueues, Enqueue
  <1> QED  BY <1>2, <1>3, <1>4, <1>5, <1>6

LEMMA StartTypes ==
  ASSUME UploadTypes, NEW r \in Recordings, StartDrain(r)
  PROVE  UploadTypes'
  <1>1. PICK at \in {"deleting", "creating", "between"} : drain' = [AtRest EXCEPT !.job = r, !.at = at]
    BY DEF StartDrain
  <1>2. drain' \in DrainType /\ drain'.job = r /\ drain'.at = at /\ drain'.done = FALSE
    BY <1>1, NewDrain DEF Calls
  <1>3. UNCHANGED <<attempt, part, cleanup, lecture>> /\ DueJob(r)
        /\ (UNCHANGED <<job, remote>> \/ MarkUploading(r, remote[r]))
    BY DEF StartDrain
  <1>4. JobTypes'
    BY <1>3 DEF MarkUploading, Job, UploadTypes, JobTypes, JobState
  <1>5. Draining' /\ Budget'
    BY <1>2, <1>3, StaysDraining DEF MarkUploading, Job
  <1> QED  BY <1>2, <1>3, <1>4, <1>5 DEF UploadTypes, Calling

LEMMA ServerTypes ==
  ASSUME UploadTypes, Call, ServerCreates \/ ServerActs
  PROVE  UploadTypes'
  <1>1. UNCHANGED jobVars /\ UNCHANGED part
    BY DEF ServerCreates, ServerActs
  <1>2. JobTypes'
    BY <1>1 DEF jobVars, UploadTypes, JobTypes
  <1>3. /\ drain' \in DrainType /\ drain'.job = drain.job /\ drain.job \in Recordings
        /\ lecture' \in [Lectures -> LectureType] /\ Calling'
    <2>1. CASE ServerCreates
      BY <2>1, LectureMade DEF Calling
    <2>2. CASE ServerActs
      <3>1. remote[drain.job] \in Lectures /\ drain.job \in Recordings /\ drain.at # "creating"
        BY <2>2, CalledLecture DEF ServerActs, Calls
      <3>2. drain' \in DrainType /\ drain'.job = drain.job /\ drain'.at = drain.at /\ drain'.key = drain.key
        BY <2>2, DrainDone DEF ServerActs
      <3> QED  BY <2>2, <3>1, <3>2, LectureCalled, DrainFields DEF Calling
    <2> QED  BY <2>1, <2>2
  <1>4. Draining' /\ Budget'
    BY <1>1, <1>3, StaysDraining DEF jobVars
  <1> QED  BY <1>2, <1>3, <1>4 DEF UploadTypes

LEMMA AnswerTypes ==
  ASSUME UploadTypes, NEW r \in Recordings, AnswerDeleted(r) \/ AnswerCreated(r) \/ AnswerSent(r) \/ MarkCompleting(r)
  PROVE  UploadTypes'
  <1>1. drain.job = r /\ UNCHANGED <<attempt, lecture>>
    BY DEF AnswerDeleted, AnswerCreated, AnswerSent, MarkCompleting, jobVars
  <1>2. drain' \in DrainType /\ drain'.job = r /\ drain'.at \in {"creating", "between", "completing"}
        /\ (drain'.at = "creating" => ~drain'.done)
    BY <1>1, DrainWaits, DrainGoesOn DEF AnswerDeleted, AnswerCreated, AnswerSent, MarkCompleting, Calls
  <1>3. JobTypes'
    <2>1. CASE AnswerDeleted(r)
      <3>1. part' \in [Recordings -> [Streams -> PartState]]
        BY <2>1, ResetParts DEF AnswerDeleted, UploadTypes, JobTypes
      <3> QED  BY <2>1, <3>1 DEF AnswerDeleted, UploadTypes, JobTypes
    <2>2. CASE AnswerCreated(r)
      <3>1. drain.made \in Lectures
        BY <2>2, DrainFields DEF AnswerCreated
      <3> QED  BY <2>2, <3>1 DEF AnswerCreated, MarkUploading, Job, UploadTypes, JobTypes, JobState
    <2>3. CASE AnswerSent(r)
      <3>1. drain.key \in Streams
        BY <2>3, DrainFields DEF AnswerSent
      <3> QED  BY <2>3, <3>1 DEF AnswerSent, jobVars, UploadTypes, JobTypes, PartState
    <2>4. CASE MarkCompleting(r)
      BY <2>4 DEF MarkCompleting, Job, UploadTypes, JobTypes, JobState
    <2> QED  BY <2>1, <2>2, <2>3, <2>4
  <1>4. Draining' /\ Budget'
    <2>1. UNCHANGED job \/ \E new \in {"uploading", "completing"} : job' = [job EXCEPT ![r] = new]
      BY DEF AnswerDeleted, AnswerCreated, AnswerSent, MarkCompleting, MarkUploading, Job, jobVars
    <2> QED  BY <1>1, <1>2, <2>1, StaysDraining
  <1> QED  BY <1>1, <1>2, <1>3, <1>4 DEF UploadTypes, Calling

LEMMA SendTypes ==
  ASSUME UploadTypes, NEW r \in Recordings, NEW k \in Streams, NEW there, SendPart(r, k, there)
  PROVE  UploadTypes'
  <1>1. drain.job = r /\ UNCHANGED <<attempt, remote, cleanup, lecture>>
    BY DEF SendPart
  <1>2. CASE there
    <2>1. /\ part' = [part EXCEPT ![r][k] = "uploading"] /\ UNCHANGED job
          /\ drain' = [drain EXCEPT !.at = "sending", !.key = k, !.done = FALSE]
      BY <1>2 DEF SendPart
    <2>2. drain' \in DrainType /\ drain'.job = r /\ drain'.at = "sending" /\ drain'.key = k
      BY <1>1, <2>1, DrainSends
    <2>3. JobTypes'
      BY <1>1, <2>1 DEF UploadTypes, JobTypes, PartState
    <2>4. Draining' /\ Budget'
      BY <1>1, <2>1, <2>2, StaysDraining
    <2> QED  BY <1>1, <2>2, <2>3, <2>4 DEF UploadTypes, Calling
  <1>3. CASE ~there
    <2>1. part' = [part EXCEPT ![r][k] = "missing"] /\ drain' = AtRest /\ job' = [job EXCEPT ![r] = "dead-letter"]
      BY <1>3 DEF SendPart, Job
    <2>2. JobTypes'
      BY <1>1, <2>1 DEF UploadTypes, JobTypes, JobState, PartState
    <2>3. Draining' /\ Budget'
      <3>1. \A s \in Recordings : job'[s] = job[s] \/ job'[s] = "dead-letter"
        BY <2>1 DEF UploadTypes, JobTypes
      <3> QED  BY <1>1, <2>1, <3>1, LeavesJob DEF UploadTypes, Budget
    <2> QED  BY <1>1, <2>1, <2>2, <2>3, Rests DEF UploadTypes, Calling
  <1> QED  BY <1>2, <1>3

LEMMA EndTypes ==
  ASSUME UploadTypes, NEW r \in Recordings, MarkDone(r) \/ Fail(r)
  PROVE  UploadTypes'
  <1>1. drain' = AtRest /\ drain.job = r /\ UNCHANGED <<remote, cleanup, lecture>>
    BY DEF MarkDone, Fail
  <1>2. CASE MarkDone(r)
    <2>1. JobTypes' /\ UNCHANGED attempt /\ \A s \in Recordings : job'[s] \in {job[s], "done"}
      BY <1>2 DEF MarkDone, Job, UploadTypes, JobTypes, JobState
    <2>2. Draining' /\ Budget'
      BY <1>1, <2>1, LeavesJob DEF UploadTypes, Budget
    <2> QED  BY <1>1, <2>1, <2>2, Rests DEF UploadTypes, Calling
  <1>3. CASE Fail(r)
    <2>1. attempt[r] \in 0..ServerLimit /\ attempt[r] < ServerLimit
      BY <1>1 DEF UploadTypes, JobTypes, Budget
    <2>2. PICK spent \in 0..ServerLimit, new \in {"failed", "dead-letter"} :
            /\ attempt' = [attempt EXCEPT ![r] = spent] /\ job' = [job EXCEPT ![r] = new]
            /\ new = "failed" => spent < ServerLimit
      <3>1. PICK class \in FailureClass :
              LET spent == IF class = Connectivity THEN attempt[r] ELSE attempt[r] + 1
                  dead == \/ class = "permanent" /\ spent >= PermanentLimit
                          \/ class = "server" /\ spent >= ServerLimit
              IN /\ attempt' = [attempt EXCEPT ![r] = spent]
                 /\ job' = [job EXCEPT ![r] = IF dead THEN "dead-letter" ELSE "failed"]
        BY <1>3 DEF Fail, Job
      <3>2. attempt[r] + 1 \in 0..ServerLimit
        BY <2>1, LimitsAssumption
      <3>3. CASE class = Connectivity
        BY <2>1, <3>1, <3>3 DEF Connectivity
      <3>4. ASSUME NEW limit \in 1..ServerLimit, class # Connectivity,
                   job' = [job EXCEPT ![r] = IF attempt[r] + 1 >= limit THEN "dead-letter" ELSE "failed"]
            PROVE  \E spent \in 0..ServerLimit, new \in {"failed", "dead-letter"} :
                     /\ attempt' = [attempt EXCEPT ![r] = spent] /\ job' = [job EXCEPT ![r] = new]
                     /\ new = "failed" => spent < ServerLimit
        <4>1. attempt' = [attempt EXCEPT ![r] = attempt[r] + 1]
          BY <3>1, <3>4
        <4>2. attempt[r] + 1 >= limit \/ attempt[r] + 1 < ServerLimit
          BY <2>1, <3>4, LimitsAssumption
        <4> QED  BY <3>2, <3>4, <4>1, <4>2
      <3>5. CASE class = "permanent"
        <4>1. job' = [job EXCEPT ![r] = IF attempt[r] + 1 >= PermanentLimit THEN "dead-letter" ELSE "failed"]
          BY <3>1, <3>5 DEF Connectivity
        <4> QED  BY <3>4, <3>5, <4>1, LimitsAssumption DEF Connectivity
      <3>6. CASE class = "server"
        <4>1. job' = [job EXCEPT ![r] = IF attempt[r] + 1 >= ServerLimit THEN "dead-letter" ELSE "failed"]
          BY <3>1, <3>6 DEF Connectivity
        <4>2. ServerLimit \in 1..ServerLimit
          BY LimitsAssumption
        <4> QED  BY <3>4, <3>6, <4>1, <4>2 DEF Connectivity
      <3> QED  BY <3>3, <3>5, <3>6 DEF FailureClass
    <2>3. part' \in [Recordings -> [Streams -> PartState]]
      BY <1>3, ResetParts DEF Fail, UploadTypes, JobTypes
    <2>4. JobTypes'
      BY <1>1, <2>2, <2>3 DEF UploadTypes, JobTypes, JobState
    <2>5. Draining' /\ Budget'
      <3>1. \A s \in Recordings : \/ job'[s] = job[s] /\ attempt'[s] = attempt[s]
                                  \/ job'[s] = "dead-letter" \/ attempt'[s] < ServerLimit
        BY <2>2 DEF UploadTypes, JobTypes
      <3> QED  BY <1>1, <3>1, LeavesJob DEF UploadTypes, Budget
    <2> QED  BY <1>1, <2>4, <2>5, Rests DEF UploadTypes, Calling
  <1> QED  BY <1>2, <1>3

LEMMA RecoverTypes ==
  ASSUME UploadTypes, RecoverInterrupted
  PROVE  UploadTypes'
  <1>1. drain' = AtRest /\ UNCHANGED <<attempt, remote, cleanup, lecture>>
    BY DEF RecoverInterrupted
  <1>2. JobTypes'
    <2>1. part' \in [Recordings -> [Streams -> PartState]]
      BY ResetParts DEF RecoverInterrupted, UploadTypes, JobTypes
    <2> QED  BY <1>1, <2>1 DEF RecoverInterrupted, UploadTypes, JobTypes, JobState
  <1>3. \A s \in Recordings : job'[s] = job[s] \/ (job[s] \in {"uploading", "completing"} /\ job'[s] = "queued")
    BY DEF RecoverInterrupted
  <1>4. Draining' /\ Budget'
    BY <1>1, <1>3, LeavesJob DEF UploadTypes, Budget
  <1> QED  BY <1>1, <1>2, <1>4, Rests DEF UploadTypes, Calling

LEMMA UploadTypesStep ==
  ASSUME UploadTypes, Call, UploadStep
  PROVE  UploadTypes'
  <1>1. CASE UNCHANGED uploadVars
    BY <1>1 DEF uploadVars, UploadTypes, JobTypes, Calling, Draining, Budget
  <1> QED  BY <1>1, QueueTypes, StartTypes, ServerTypes, AnswerTypes, SendTypes, EndTypes, RecoverTypes DEF UploadStep

-----------------------------------------------------------------------------
(* The rows of a job and the lecture of the server                         *)

(* What the server has carried out and not yet answered.                   *)
Carried ==
  LET r == drain.job IN drain.done =>
  /\ drain.at = "creating" =>
       /\ lecture[drain.made].of = r /\ lecture[drain.made].state = "open" /\ lecture[drain.made].parts = {}
  /\ drain.at = "sending" => drain.key \in lecture[remote[r]].parts
  /\ drain.at = "completing" => lecture[remote[r]].state = "complete"

(* The lecture a job names is its own and is still there unless it waits   *)
(* to be deleted; it holds what the rows call uploaded, and no lecture of  *)
(* the recording holds what is not a part of the job.                      *)
Consistent(r) ==
  /\ remote[r] # NoLecture => lecture[remote[r]].of = r
  /\ remote[r] # NoLecture /\ lecture[remote[r]].state = "deleted" => cleanup[r] = "pending"
  /\ cleanup[r] = "pending" => remote[r] # NoLecture /\ \A k \in Streams : part[r][k] # "uploaded"
  /\ \A k \in Streams : part[r][k] = "uploaded" => remote[r] # NoLecture /\ k \in lecture[remote[r]].parts
  /\ \A l \in Lectures : lecture[l].of = r => job[r] # "none" /\ \A k \in lecture[l].parts : part[r][k] # "none"
  /\ job[r] = "done" => /\ remote[r] # NoLecture /\ lecture[remote[r]].state = "complete"
                        /\ \A k \in Streams : part[r][k] \in {"none", "uploaded"}

Delivery == Call /\ Carried /\ \A r \in Recordings : Consistent(r)

SameParts(r) ==
  \A k \in Streams : /\ part'[r][k] = "none" <=> part[r][k] = "none"
                     /\ part'[r][k] = "uploaded" <=> part[r][k] = "uploaded"
SameLectures(r) ==
  \A l \in Lectures : lecture[l].of = r \/ lecture'[l].of = r => lecture'[l] = lecture[l]

LEMMA Undisturbed ==
  ASSUME UploadTypes, NEW r \in Recordings, Consistent(r),
         job'[r] = "done" => job[r] = "done", job[r] # "none" => job'[r] # "none",
         remote'[r] = remote[r], cleanup'[r] = cleanup[r], SameParts(r), SameLectures(r)
  PROVE  Consistent(r)'
  <1>1. remote[r] \in Lectures \cup {NoLecture} /\ \A l \in Lectures : lecture[l].parts \subseteq Streams
    BY DEF UploadTypes, JobTypes, LectureType
  <1>2. remote[r] # NoLecture => lecture'[remote[r]] = lecture[remote[r]]
    BY <1>1 DEF Consistent, SameLectures
  <1> QED  BY <1>1, <1>2 DEF Consistent, SameParts, SameLectures

(* Rows that no step of the scheduler's job touches.                       *)
LEMMA OtherRows ==
  ASSUME UploadTypes, NEW r \in Recordings, Consistent(r), job'[r] = job[r], remote'[r] = remote[r],
         cleanup'[r] = cleanup[r], part'[r] = part[r], SameLectures(r)
  PROVE  Consistent(r)'
  BY Undisturbed DEF SameParts

LEMMA QueueDelivery ==
  ASSUME UploadTypes, Delivery, NEW r \in Recordings, Enqueues(r) \/ Requeue(r) \/ Cancels(r)
  PROVE  Delivery'
  <1>1. /\ UNCHANGED <<drain, lecture, remote>> /\ \A s \in Recordings : SameLectures(s)
        /\ \A s \in Recordings : Consistent(s)
    BY DEF Enqueues, Requeue, Cancels, SameLectures, Delivery
  <1>2. CASE Cancels(r)
    <2>1. \A s \in Recordings : job'[s] = job[s] \/ (job'[s] = "cancelled" /\ job[s] \notin {"none", "done"})
      BY <1>2 DEF Cancels, CancelDeleted, UploadTypes, JobTypes
    <2>2. UNCHANGED <<part, cleanup>>
      BY <1>2 DEF Cancels
    <2>3. \A s \in Recordings : Consistent(s)'
      BY <1>1, <2>1, <2>2, Undisturbed DEF SameParts
    <2> QED  BY <1>1, <2>2, <2>3 DEF Delivery, Call, Carried
  <1>3. CASE UNCHANGED <<job, part, cleanup>>
    <2>1. \A s \in Recordings : Consistent(s)'
      BY <1>1, <1>3, OtherRows
    <2> QED  BY <1>1, <1>3, <2>1 DEF Delivery, Call, Carried
  <1>4. CASE Enqueues(r) /\ job[r] = "none"
    <2>1. PICK deliverables \in SUBSET Streams : Enqueue(r, deliverables)
      BY <1>4 DEF Enqueues
    <2>2. /\ job'[r] = "queued" /\ \A k \in Streams : part'[r][k] # "uploaded"
          /\ \A s \in Recordings : s # r => job'[s] = job[s] /\ part'[s] = part[s]
          /\ UNCHANGED cleanup
      BY <1>4, <2>1 DEF Enqueue, Enqueues, Job, UploadTypes, JobTypes
    <2>3. remote[r] = NoLecture /\ \A l \in Lectures : lecture[l].of # r
      BY <1>1, <1>4 DEF Consistent, UploadTypes, JobTypes
    <2>4. Consistent(r)'
      BY <1>1, <2>2, <2>3 DEF Consistent
    <2>5. \A s \in Recordings : s # r => Consistent(s)'
      BY <1>1, <2>2, OtherRows
    <2>6. drain.job # r
      BY <1>4 DEF UploadTypes, Draining
    <2>7. Call' /\ Carried'
      <3>1. CASE drain.at = "idle"
        BY <1>1, <3>1 DEF Call, Carried
      <3>2. CASE drain.at # "idle"
        <4>1. part'[drain.job] = part[drain.job]
          BY <2>2, <2>6, <3>2, DrainFields
        <4> QED  BY <1>1, <2>2, <4>1 DEF Delivery, Call, Carried
      <3> QED  BY <3>1, <3>2
    <2> QED  BY <2>4, <2>5, <2>7 DEF Delivery
  <1>5. CASE Requeue(r)
    <2>1. /\ job'[r] = "queued" /\ drain.job # r
          /\ cleanup'[r] = IF remote[r] = NoLecture THEN "not-needed" ELSE "pending"
          /\ \A s \in Recordings : s # r => job'[s] = job[s] /\ part'[s] = part[s] /\ cleanup'[s] = cleanup[s]
      BY <1>5 DEF Requeue, Job, UploadTypes, JobTypes, Draining
    <2>2. \A k \in Streams : part'[r][k] # "uploaded" /\ (part'[r][k] = "none" <=> part[r][k] = "none")
      BY <1>5, ResetParts DEF Requeue, UploadTypes, JobTypes
    <2>3. \A l \in Lectures : lecture[l].parts \subseteq Streams
      BY DEF UploadTypes, LectureType
    <2>4. Consistent(r)'
      BY <1>1, <1>5, <2>1, <2>2, <2>3 DEF Requeue, Consistent
    <2>5. \A s \in Recordings : s # r => Consistent(s)'
      BY <1>1, <2>1, OtherRows
    <2>6. Call' /\ Carried'
      <3>1. CASE drain.at = "idle"
        BY <1>1, <3>1 DEF Call, Carried
      <3>2. CASE drain.at # "idle"
        <4>1. part'[drain.job] = part[drain.job] /\ cleanup'[drain.job] = cleanup[drain.job]
          BY <2>1, <3>2, DrainFields
        <4> QED  BY <1>1, <4>1 DEF Delivery, Call, Carried
      <3> QED  BY <3>1, <3>2
    <2> QED  BY <2>4, <2>5, <2>6 DEF Delivery
  <1>6. Enqueues(r) => job[r] = "none" \/ UNCHANGED <<job, part, cleanup>>
    BY DEF Enqueues, Enqueue
  <1> QED  BY <1>2, <1>3, <1>4, <1>5, <1>6

LEMMA StartDelivery ==
  ASSUME UploadTypes, Delivery, NEW r \in Recordings, StartDrain(r)
  PROVE  Delivery'
  <1>1. /\ UNCHANGED <<attempt, part, remote, cleanup, lecture>> /\ DueJob(r)
        /\ \A s \in Recordings : job'[s] = job[s] \/ (s = r /\ job'[s] = "uploading")
    BY DEF StartDrain, MarkUploading, Job, UploadTypes, JobTypes
  <1>2. PICK at \in {"deleting", "creating", "between"} :
          /\ drain' = [AtRest EXCEPT !.job = r, !.at = at]
          /\ at = "creating" => remote[r] = NoLecture
          /\ at = "deleting" => remote[r] # NoLecture /\ cleanup[r] = "pending"
          /\ at = "between" => remote[r] # NoLecture /\ cleanup[r] # "pending"
    BY DEF StartDrain
  <1>3. drain'.job = r /\ drain'.at = at /\ drain'.done = FALSE
    BY <1>2, NewDrain DEF Calls
  <1>4. Call' /\ Carried'
    BY <1>1, <1>2, <1>3 DEF Call, Carried
  <1>5. \A s \in Recordings : Consistent(s)'
    BY <1>1, Undisturbed DEF SameParts, SameLectures, Delivery
  <1> QED  BY <1>4, <1>5 DEF Delivery

LEMMA CreatesDelivery ==
  ASSUME UploadTypes, Delivery, ServerCreates
  PROVE  Delivery'
  <1>1. PICK l \in Lectures :
           /\ lecture[l] = NotGiven /\ drain'.made = l
           /\ drain'.job = drain.job /\ drain'.at = "creating" /\ drain'.done = TRUE /\ drain.job \in Recordings
           /\ lecture'[l].of = drain.job /\ lecture'[l].state = "open" /\ lecture'[l].parts = {}
           /\ \A m \in Lectures : m # l => lecture'[m] = lecture[m]
    BY LectureMade
  <1>2. UNCHANGED <<job, attempt, part, remote, cleanup>> /\ drain.at = "creating"
    BY DEF ServerCreates, jobVars
  <1>3. lecture[l].of = NoRecording /\ NoRecording \notin Recordings
    BY <1>1, NoRecordingAssumption DEF NotGiven
  <1>4. Call' /\ Carried'
    BY <1>1, <1>2 DEF Delivery, Call, Carried
  <1>5. \A s \in Recordings : s # drain.job => Consistent(s)'
    BY <1>1, <1>2, <1>3, OtherRows DEF SameLectures, Delivery
  <1>6. PICK r \in Recordings : r = drain.job
    BY <1>1
  <1>7. Consistent(r)'
    <2>1. Consistent(r) /\ remote[r] = NoLecture /\ job[r] # "none"
      BY <1>2, <1>6 DEF Delivery, Call, UploadTypes, Draining
    <2>2. \A m \in Lectures : lecture'[m].of = r =>
            job'[r] # "none" /\ \A k \in lecture'[m].parts : part'[r][k] # "none"
      BY <1>1, <1>2, <2>1 DEF Consistent
    <2>3. /\ remote'[r] = NoLecture /\ cleanup'[r] # "pending" /\ job'[r] # "done"
          /\ \A k \in Streams : part'[r][k] # "uploaded"
      BY <1>2, <2>1 DEF Consistent
    <2> QED  BY <2>2, <2>3 DEF Consistent
  <1> QED  BY <1>4, <1>5, <1>6, <1>7 DEF Delivery

(* Two recordings never share a lecture, so what the server does for the   *)
(* job under way concerns no other.                                        *)
LEMMA ActsDelivery ==
  ASSUME UploadTypes, Delivery, ServerActs
  PROVE  Delivery'
  <1>1. /\ UNCHANGED <<job, attempt, part, remote, cleanup>>
        /\ drain.at \in {"deleting", "sending", "completing"} /\ ~drain.done
    BY DEF ServerActs, jobVars, Calls
  <1>2. /\ drain'.job = drain.job /\ drain'.at = drain.at /\ drain'.key = drain.key /\ drain'.done = TRUE
        /\ drain.job \in Recordings /\ remote[drain.job] \in Lectures
    BY <1>1, DrainDone, CalledLecture DEF ServerActs, Delivery
  <1> DEFINE l == remote[drain.job]
  <1>3. /\ \A m \in Lectures : m # l => lecture'[m] = lecture[m]
        /\ lecture'[l].of = lecture[l].of
        /\ \/ drain.at = "deleting" /\ lecture'[l].state = "deleted" /\ lecture'[l].parts = lecture[l].parts
           \/ /\ drain.at = "sending" /\ lecture'[l].state = lecture[l].state
              /\ lecture'[l].parts = lecture[l].parts \cup {drain.key}
           \/ drain.at = "completing" /\ lecture'[l].state = "complete" /\ lecture'[l].parts = lecture[l].parts
    BY <1>2, LectureCalled
  <1>4. PICK r \in Recordings : r = drain.job
    BY <1>2
  <1>5. /\ r \in Recordings /\ l \in Lectures /\ Consistent(r) /\ lecture[l].of = r /\ l # NoLecture
        /\ job[r] \notin {"none", "done"}
        /\ drain.at = "deleting" => cleanup[r] = "pending"
        /\ drain.at = "completing" => cleanup[r] # "pending"
        /\ drain.at = "sending" => part[r][drain.key] = "uploading"
    BY <1>2, <1>4, NoLectureAssumption DEF Delivery, Consistent, Call, UploadTypes, Draining
  <1>6. Call' /\ Carried'
    <2>1. Call'
      BY <1>1, <1>2 DEF Delivery, Call
    <2>2. Carried'
      BY <1>1, <1>2, <1>3 DEF Carried
    <2> QED  BY <2>1, <2>2
  <1>7. remote[r] = l /\ drain'.job = r
    BY <1>2, <1>4
  <1> HIDE DEF l
  <1>8. Consistent(r)'
    <2>1. \A m \in Lectures : lecture'[m].of = r =>
            job'[r] # "none" /\ \A k \in lecture'[m].parts : part'[r][k] # "none"
      BY <1>1, <1>3, <1>5 DEF Consistent
    <2>2. /\ lecture'[l].of = r
          /\ lecture'[l].state = "deleted" => cleanup[r] = "pending"
          /\ \A k \in Streams : part[r][k] = "uploaded" => k \in lecture'[l].parts
      BY <1>3, <1>5, <1>7 DEF Consistent
    <2> QED  BY <1>1, <1>5, <1>7, <2>1, <2>2 DEF Consistent
  <1>9. \A s \in Recordings : s # r => Consistent(s)'
    <2>1. \A s \in Recordings : s # r => SameLectures(s)
      BY <1>3, <1>5 DEF SameLectures
    <2> QED  BY <1>1, <2>1, OtherRows DEF Delivery
  <1> QED  BY <1>6, <1>8, <1>9 DEF Delivery

LEMMA DeletedDelivery ==
  ASSUME UploadTypes, Delivery, NEW r \in Recordings, AnswerDeleted(r)
  PROVE  Delivery'
  <1>1. drain.job = r /\ UNCHANGED <<job, attempt, lecture>>
    BY DEF AnswerDeleted
  <1>2. drain'.job = r /\ drain'.at = "creating" /\ drain'.done = FALSE
    BY <1>1, DrainWaits DEF AnswerDeleted, Calls
  <1>3. /\ remote'[r] = NoLecture /\ cleanup'[r] = "done"
        /\ \A s \in Recordings : s # r => remote'[s] = remote[s] /\ cleanup'[s] = cleanup[s] /\ part'[s] = part[s]
    BY DEF AnswerDeleted, UploadTypes, JobTypes
  <1>4. \A k \in Streams : part'[r][k] # "uploaded" /\ (part'[r][k] = "none" <=> part[r][k] = "none")
    BY ResetParts DEF AnswerDeleted, UploadTypes, JobTypes
  <1>5. Call' /\ Carried'
    BY <1>2, <1>3 DEF Call, Carried
  <1>6. Consistent(r)'
    <2>1. \A l \in Lectures : lecture[l].parts \subseteq Streams
      BY DEF UploadTypes, LectureType
    <2>2. Consistent(r) /\ job[r] # "done"
      BY <1>1 DEF Delivery, UploadTypes, Draining
    <2> QED  BY <1>1, <1>3, <1>4, <2>1, <2>2 DEF Consistent
  <1>7. \A s \in Recordings : s # r => Consistent(s)'
    BY <1>1, <1>3, OtherRows DEF Delivery, SameLectures
  <1> QED  BY <1>5, <1>6, <1>7 DEF Delivery

LEMMA CreatedDelivery ==
  ASSUME UploadTypes, Delivery, NEW r \in Recordings, AnswerCreated(r)
  PROVE  Delivery'
  <1> DEFINE l == drain.made
  <1>1. drain.job = r /\ UNCHANGED <<attempt, part, cleanup, lecture>> /\ drain.at = "creating" /\ drain.done
    BY DEF AnswerCreated
  <1>2. drain'.job = r /\ drain'.at = "between"
    BY <1>1, DrainGoesOn DEF AnswerCreated
  <1>3. /\ l \in Lectures /\ l # NoLecture /\ remote[r] = NoLecture
        /\ lecture[l].of = r /\ lecture[l].state = "open" /\ lecture[l].parts = {}
    BY <1>1, DrainFields, NoLectureAssumption DEF Delivery, Call, Carried
  <1>4. /\ remote'[r] = l /\ job'[r] = "uploading"
        /\ \A s \in Recordings : s # r => remote'[s] = remote[s] /\ job'[s] = job[s]
    BY DEF AnswerCreated, MarkUploading, Job, UploadTypes, JobTypes
  <1> HIDE DEF l
  <1>5. Consistent(r) /\ cleanup[r] # "pending" /\ \A k \in Streams : part[r][k] # "uploaded"
    BY <1>3 DEF Delivery, Consistent
  <1>6. Call' /\ Carried'
    BY <1>1, <1>2, <1>3, <1>4, <1>5 DEF Call, Carried
  <1>7. Consistent(r)'
    BY <1>1, <1>3, <1>4, <1>5 DEF Consistent
  <1>8. \A s \in Recordings : s # r => Consistent(s)'
    BY <1>1, <1>4, OtherRows DEF Delivery, SameLectures
  <1> QED  BY <1>6, <1>7, <1>8 DEF Delivery

LEMMA SendDelivery ==
  ASSUME UploadTypes, Delivery, NEW r \in Recordings, NEW k \in Streams, NEW there, SendPart(r, k, there)
  PROVE  Delivery'
  <1>1. /\ drain.job = r /\ drain.at = "between" /\ UNCHANGED <<attempt, remote, cleanup, lecture>>
        /\ part[r][k] \notin {"none", "uploaded"}
    BY DEF SendPart, Unsent
  <1>2. CASE there
    <2>1. /\ part' = [part EXCEPT ![r][k] = "uploading"] /\ UNCHANGED job
          /\ drain' = [drain EXCEPT !.at = "sending", !.key = k, !.done = FALSE]
      BY <1>2 DEF SendPart
    <2>2. drain'.job = r /\ drain'.at = "sending" /\ drain'.key = k /\ drain'.done = FALSE
      BY <1>1, <2>1, DrainSends
    <2>3. part'[r][k] = "uploading" /\ \A s \in Recordings : SameParts(s)
      BY <1>1, <2>1 DEF UploadTypes, JobTypes, SameParts
    <2>4. Call' /\ Carried'
      BY <1>1, <2>2, <2>3 DEF Delivery, Call, Carried
    <2>5. \A s \in Recordings : Consistent(s)'
      BY <1>1, <2>1, <2>3, Undisturbed DEF Delivery, SameLectures
    <2> QED  BY <2>4, <2>5 DEF Delivery
  <1>3. CASE ~there
    <2>1. part' = [part EXCEPT ![r][k] = "missing"] /\ drain' = AtRest /\ job' = [job EXCEPT ![r] = "dead-letter"]
      BY <1>3 DEF SendPart, Job
    <2>2. /\ \A s \in Recordings : SameParts(s)
          /\ \A s \in Recordings : job'[s] = job[s] \/ job'[s] = "dead-letter"
      BY <1>1, <2>1 DEF UploadTypes, JobTypes, SameParts
    <2>3. \A s \in Recordings : Consistent(s)'
      BY <1>1, <2>2, Undisturbed DEF Delivery, SameLectures
    <2> QED  BY <2>1, <2>3, Rests DEF Delivery, Call, Carried
  <1> QED  BY <1>2, <1>3

LEMMA SentDelivery ==
  ASSUME UploadTypes, Delivery, NEW r \in Recordings, AnswerSent(r)
  PROVE  Delivery'
  <1> DEFINE k == drain.key
  <1>1. /\ drain.job = r /\ drain.at = "sending" /\ drain.done /\ UNCHANGED <<job, attempt, remote, cleanup, lecture>>
        /\ part' = [part EXCEPT ![r][k] = "uploaded"]
    BY DEF AnswerSent, jobVars
  <1>2. drain'.job = r /\ drain'.at = "between"
    BY <1>1, DrainGoesOn DEF AnswerSent
  <1>3. /\ k \in Streams /\ remote[r] # NoLecture /\ cleanup[r] # "pending"
        /\ part[r][k] = "uploading" /\ k \in lecture[remote[r]].parts
    BY <1>1, DrainFields DEF Delivery, Call, Carried
  <1> HIDE DEF k
  <1>4. /\ part'[r][k] = "uploaded" /\ \A j \in Streams : j # k => part'[r][j] = part[r][j]
        /\ \A s \in Recordings : s # r => part'[s] = part[s]
    BY <1>1, <1>3 DEF UploadTypes, JobTypes
  <1>5. Call' /\ Carried'
    BY <1>1, <1>2, <1>3 DEF Call, Carried
  <1>6. Consistent(r)'
    <2>1. Consistent(r) /\ job[r] # "done" /\ \A l \in Lectures : lecture[l].parts \subseteq Streams
      BY <1>1 DEF Delivery, UploadTypes, Draining, LectureType
    <2> QED  BY <1>1, <1>3, <1>4, <2>1 DEF Consistent
  <1>7. \A s \in Recordings : s # r => Consistent(s)'
    BY <1>1, <1>4, OtherRows DEF Delivery, SameLectures
  <1> QED  BY <1>5, <1>6, <1>7 DEF Delivery

LEMMA CompletingDelivery ==
  ASSUME UploadTypes, Delivery, NEW r \in Recordings, MarkCompleting(r) \/ MarkDone(r)
  PROVE  Delivery'
  <1>1. drain.job = r /\ UNCHANGED <<attempt, part, remote, cleanup, lecture>>
    BY DEF MarkCompleting, MarkDone
  <1>2. CASE MarkCompleting(r)
    <2>1. drain'.job = r /\ drain'.at = "completing" /\ drain'.done = FALSE
      BY <1>1, <1>2, DrainWaits DEF MarkCompleting, Calls
    <2>2. drain.at = "between" /\ \A k \in Streams : part[r][k] \in {"none", "uploaded"}
      BY <1>2 DEF MarkCompleting, Unsent
    <2>3. Call' /\ Carried'
      BY <1>1, <2>1, <2>2 DEF Delivery, Call, Carried
    <2>4. \A s \in Recordings : job'[s] = job[s] \/ job'[s] = "completing"
      BY <1>2 DEF MarkCompleting, Job, UploadTypes, JobTypes
    <2>5. \A s \in Recordings : Consistent(s)'
      BY <1>1, <2>4, Undisturbed DEF Delivery, SameParts, SameLectures
    <2> QED  BY <2>3, <2>5 DEF Delivery
  <1>3. CASE MarkDone(r)
    <2>1. /\ remote[r] # NoLecture /\ lecture[remote[r]].state = "complete"
          /\ \A k \in Streams : part[r][k] \in {"none", "uploaded"}
      BY <1>1, <1>3 DEF MarkDone, Delivery, Call, Carried
    <2>2. job'[r] = "done" /\ \A s \in Recordings : s # r => job'[s] = job[s]
      BY <1>3 DEF MarkDone, Job, UploadTypes, JobTypes
    <2>3. Consistent(r)'
      BY <1>1, <2>1, <2>2 DEF Delivery, Consistent
    <2>4. \A s \in Recordings : s # r => Consistent(s)'
      BY <1>1, <2>2, OtherRows DEF Delivery, SameLectures
    <2> QED  BY <1>3, <2>3, <2>4, Rests DEF MarkDone, Delivery, Call, Carried
  <1> QED  BY <1>2, <1>3

LEMMA StopsDelivery ==
  ASSUME UploadTypes, Delivery, (\E r \in Recordings : Fail(r)) \/ RecoverInterrupted
  PROVE  Delivery'
  <1>1. drain' = AtRest /\ UNCHANGED <<remote, cleanup, lecture>>
    BY DEF Fail, RecoverInterrupted
  <1>2. \A s \in Recordings : SameParts(s)
    <2>1. \A s \in Recordings : part'[s] = part[s] \/ part'[s] = Reset(part[s])
      BY DEF Fail, RecoverInterrupted, UploadTypes, JobTypes
    <2>2. \A s \in Recordings : part[s] \in [Streams -> PartState]
      BY DEF UploadTypes, JobTypes
    <2> QED  BY <2>1, <2>2, ResetParts DEF SameParts
  <1>3. \A s \in Recordings : job'[s] = job[s] \/ job'[s] \in {"failed", "dead-letter", "queued"}
    BY DEF Fail, RecoverInterrupted, Job, UploadTypes, JobTypes
  <1>4. \A s \in Recordings : Consistent(s)'
    BY <1>1, <1>2, <1>3, Undisturbed DEF Delivery, SameLectures
  <1> QED  BY <1>1, <1>4, Rests DEF Delivery, Call, Carried

LEMMA DeliveryStep ==
  ASSUME UploadTypes, Delivery, UploadStep
  PROVE  Delivery'
  <1>1. CASE UNCHANGED uploadVars
    <2>1. \A s \in Recordings : Consistent(s)'
      BY <1>1, OtherRows DEF uploadVars, Delivery, SameLectures
    <2> QED  BY <1>1, <2>1 DEF uploadVars, Delivery, Call, Carried
  <1> QED  BY <1>1, QueueDelivery, StartDelivery, CreatesDelivery, ActsDelivery, DeletedDelivery, CreatedDelivery,
              SendDelivery, SentDelivery, CompletingDelivery, StopsDelivery DEF UploadStep

-----------------------------------------------------------------------------
(* The sweeps                                                              *)

Swept ==
  /\ \A r \in Recordings : reason[r] = "system" => job[r] = "done"
  /\ relief \subseteq Recordings /\ \A r \in relief : job[r] = "done"

(* A job that is done stays done: it is not worked on, not queued again    *)
(* and not cancelled.                                                      *)
LEMMA DoneStays ==
  ASSUME UploadTypes, UploadStep
  PROVE  \A r \in Recordings : job[r] = "done" => job'[r] = "done"
  <1> SUFFICES ASSUME NEW r \in Recordings, job[r] = "done" PROVE job'[r] = "done"
    OBVIOUS
  <1>1. drain.job # r
    BY DEF UploadTypes, Draining
  <1>2. CASE \E s \in Recordings : Enqueues(s) \/ Requeue(s) \/ Cancels(s) \/ StartDrain(s)
    BY <1>2 DEF Enqueues, Enqueue, Requeue, Cancels, CancelDeleted, StartDrain, DueJob, MarkUploading, Job,
                UploadTypes, JobTypes
  <1>3. CASE \E s \in Recordings : \/ AnswerDeleted(s) \/ AnswerCreated(s) \/ AnswerSent(s) \/ MarkCompleting(s)
                                   \/ MarkDone(s) \/ Fail(s)
                                   \/ \E k \in Streams : \E there : SendPart(s, k, there)
    <2>1. PICK s \in Recordings : s # r /\ (UNCHANGED job \/ \E new : job' = [job EXCEPT ![s] = new])
      BY <1>1, <1>3 DEF AnswerDeleted, AnswerCreated, AnswerSent, MarkCompleting, MarkDone, Fail, SendPart,
                        MarkUploading, Job, jobVars
    <2> QED  BY <2>1 DEF UploadTypes, JobTypes
  <1>4. CASE ServerCreates \/ ServerActs \/ RecoverInterrupted \/ UNCHANGED uploadVars
    BY <1>4 DEF ServerCreates, ServerActs, RecoverInterrupted, uploadVars, jobVars
  <1> QED  BY <1>2, <1>3, <1>4 DEF UploadStep

(* Only a deletion gives a reason, and a sweep deletes what is uploaded.   *)
LEMMA ReasonGiven ==
  ASSUME ArtifactTypes, UploadTypes, Swept, [Next]_vars
  PROVE  /\ \A r \in Recordings : reason'[r] = "system" => job[r] = "done"
         /\ relief' \subseteq Recordings /\ \A r \in relief' : job[r] = "done"
         /\ \/ UNCHANGED restarts
            \/ restarts < MaxRestarts /\ restarts' = restarts + 1
  <1>1. ASSUME NEW r \in Recordings, NEW why, Delete(r, why), why = "system" => job[r] = "done"
        PROVE  UNCHANGED restarts /\ \A s \in Recordings : reason'[s] = "system" => job[s] = "done"
    BY <1>1 DEF Delete, DeleteMedia, Swept, ArtifactTypes, RowTypes
  <1>2. ASSUME NEW r \in Recordings, AdminDelete(r) \/ DeleteExpired(r) \/ RelievePressure(r) \/ RelieveFurther(r)
        PROVE  /\ UNCHANGED restarts
               /\ \A s \in Recordings : reason'[s] = "system" => job[s] = "done"
               /\ relief' \subseteq Recordings /\ \A s \in relief' : job[s] = "done"
    <2>1. \/ Delete(r, "admin") \/ (Delete(r, "system") /\ job[r] = "done")
          \/ UNCHANGED <<artifactVars, uploadVars, restarts>>
      BY <1>2 DEF AdminDelete, DeleteExpired, RelievePressure, RelieveFurther, Uploaded, Swept
    <2>2. relief' \subseteq relief \/ relief' \subseteq {s \in Recordings : Uploaded(s)}
      BY <1>2 DEF AdminDelete, DeleteExpired, RelievePressure, RelieveFurther
    <2>3. relief' \subseteq Recordings /\ \A s \in relief' : job[s] = "done"
      BY <2>2 DEF Uploaded, Swept
    <2>4. CASE UNCHANGED <<artifactVars, uploadVars, restarts>>
      BY <2>3, <2>4 DEF artifactVars, Swept
    <2> QED  BY <1>1, <2>1, <2>3, <2>4
  <1>3. CASE UNCHANGED reason /\ relief' \in {relief, {}}
               /\ (UNCHANGED restarts \/ (restarts < MaxRestarts /\ restarts' = restarts + 1))
    BY <1>3 DEF Swept
  <1>4. ASSUME NEW r \in Recordings,
               \/ CompleteLecture(r) \/ RetryMerge(r) \/ RequeueJob(r) \/ StartUpload(r) \/ UploadAnswer(r) \/ UploadGoesOn(r)
        PROVE  UNCHANGED <<reason, relief, restarts>>
    BY <1>4 DEF CompleteLecture, RetryMerge, RequeueJob, StartUpload, UploadAnswer, UploadGoesOn, Artifact, Upload,
                others, artifactVars, rows, LectureCompletes, RequestRetry
  <1>5. (\E k \in Streams : ProbeAnswer(k)) \/ TakeRequest \/ ProbeLost \/ MergeAnswer \/ MergeGoesOn \/ Announce
           \/ ServerStep => UNCHANGED <<reason, relief, restarts>>
    BY DEF ProbeAnswer, TakeRequest, ProbeLost, MergeAnswer, MergeGoesOn, Announce, ServerStep, Artifact, Upload, others,
           artifactVars, rows, Probe, TakeCompleted, TakeRetry, ProbeBreaks, RemuxEnds, RecordOutput, AttemptFails,
           BackoffEnds, EnterMerging, MarkReady, SkipStream, StartRemux, AnnounceReady
  <1>6. PressureRelieved \/ Restart \/ UNCHANGED vars =>
           /\ UNCHANGED reason /\ relief' \in {relief, {}}
           /\ UNCHANGED restarts \/ (restarts < MaxRestarts /\ restarts' = restarts + 1)
    BY DEF PressureRelieved, Restart, vars, artifactVars, LoseRequests, rows
  <1> QED  BY <1>2, <1>3, <1>4, <1>5, <1>6 DEF Next

-----------------------------------------------------------------------------
(* Once a recording has a job                                              *)

(* A recording that has a job was ready and is not worked on again, except *)
(* for its deletion; while it is announced it is ready.                    *)
Settled ==
  /\ pipe.phase = "announcing" => rec[pipe.on] = "ready"
  /\ \A r \in Recordings : job[r] # "none" => rec[r] \in {"ready", "deleted"} /\ pipe.on # r

Announced == pipe.phase = "announcing" => rec[pipe.on] = "ready"

(* A deletion waits for the announcement, and only that makes a job.       *)
LEMMA OnlyAnnounceQueues ==
  ASSUME ArtifactTypes, UploadTypes, [Next]_vars
  PROVE  Announce \/ \A r \in Recordings : job'[r] = "none" <=> job[r] = "none"
  <1> DEFINE Same == \A r \in Recordings : job'[r] = "none" <=> job[r] = "none"
             Moves(r) == job' = job \/ \E new \in JobState \ {"none"} : job[r] # "none" /\ job' = [job EXCEPT ![r] = new]
  <1>1. ASSUME NEW r \in Recordings, Moves(r) PROVE Same
    BY <1>1 DEF UploadTypes, JobTypes
  <1>2. ASSUME NEW r \in Recordings, RequeueJob(r) \/ StartUpload(r) PROVE Moves(r)
    BY <1>2 DEF RequeueJob, StartUpload, Upload, Requeue, StartDrain, DueJob, MarkUploading, Job, JobState
  <1>3. ASSUME NEW r \in Recordings, UploadAnswer(r) \/ UploadGoesOn(r) PROVE Moves(r)
    BY <1>3 DEF UploadAnswer, UploadGoesOn, Upload, AnswerDeleted, AnswerCreated, AnswerSent, MarkCompleting, MarkDone, Fail,
                SendPart, MarkUploading, Job, jobVars, JobState, UploadTypes, Draining
  <1>4. ASSUME NEW r \in Recordings, NEW why, Delete(r, why) PROVE Same
    BY <1>4 DEF Delete, CancelDeleted, UploadTypes, JobTypes
  <1>5. ASSUME NEW r \in Recordings, AdminDelete(r) \/ DeleteExpired(r) \/ RelievePressure(r) \/ RelieveFurther(r)
        PROVE  Same
    BY <1>4, <1>5 DEF AdminDelete, DeleteExpired, RelievePressure, RelieveFurther, uploadVars, jobVars
  <1>6. ASSUME NEW r \in Recordings, CompleteLecture(r) \/ RetryMerge(r) PROVE Same
    BY <1>6 DEF CompleteLecture, RetryMerge, Artifact, uploadVars, jobVars
  <1>7. CASE \/ \E k \in Streams : ProbeAnswer(k)
             \/ TakeRequest \/ ProbeLost \/ MergeAnswer \/ MergeGoesOn \/ PressureRelieved \/ UNCHANGED vars
    BY <1>7 DEF ProbeAnswer, TakeRequest, ProbeLost, MergeAnswer, MergeGoesOn, PressureRelieved, vars, Artifact, uploadVars,
                jobVars
  <1>8. CASE ServerStep \/ Restart
    BY <1>8 DEF ServerStep, Restart, Upload, ServerCreates, ServerActs, RecoverInterrupted, jobVars
  <1> QED  BY <1>1, <1>2, <1>3, <1>5, <1>6, <1>7, <1>8 DEF Next

(* The executor does not take up a recording that is ready or deleted.     *)
LEMMA NotTakenUp ==
  ASSUME ArtifactTypes, ArtifactStep, NEW r \in Recordings, rec[r] \in {"ready", "deleted"}, pipe.on # r
  PROVE  /\ rec'[r] \in {"ready", "deleted"} /\ pipe'.on # r
         /\ rec[r] = "deleted" => rec'[r] = "deleted"
  <1>1. CASE TakeCompleted \/ TakeRetry
    BY <1>1, NoRecordingAssumption DEF TakeCompleted, TakeRetry, EnterFinalizing, BeginPipeline, Rec, NoWork, ArtifactTypes,
                RowTypes
  <1>2. CASE EnterMerging \/ AttemptFails \/ MarkReady
    <2>1. /\ UNCHANGED rec \/ \E new : rec' = [rec EXCEPT ![pipe.on] = new]
          /\ pipe' = NoWork \/ pipe'.on = pipe.on
      BY <1>2 DEF EnterMerging, AttemptFails, MarkReady, Rec, ArtifactTypes, PipeType
    <2> QED  BY <2>1, NoRecordingAssumption DEF NoWork, ArtifactTypes, RowTypes
  <1>3. CASE \E q \in Recordings, why \in {"admin", "system"} : DeleteMedia(q, why)
    BY <1>3 DEF DeleteMedia, Rec, ArtifactTypes, RowTypes
  <1>4. CASE ProbeBreaks \/ AnnounceReady \/ LoseRequests
    BY <1>4, NoRecordingAssumption DEF ProbeBreaks, AnnounceReady, LoseRequests, NoWork, rows
  <1>5. CASE RemuxEnds \/ RecordOutput \/ BackoffEnds \/ (\E k \in Streams : Probe(k) \/ SkipStream(k) \/ StartRemux(k))
    BY <1>5 DEF RemuxEnds, RecordOutput, BackoffEnds, Probe, SkipStream, StartRemux, rows, ArtifactTypes, PipeType
  <1>6. CASE UNCHANGED artifactVars \/ \E q \in Recordings : LectureCompletes(q) \/ RequestRetry(q)
    BY <1>6 DEF LectureCompletes, RequestRetry, artifactVars, rows
  <1> QED  BY <1>1, <1>2, <1>3, <1>4, <1>5, <1>6 DEF ArtifactStep

LEMMA AnnouncedStep ==
  ASSUME ArtifactTypes, Announced, [Next]_vars
  PROVE  Announced'
  <1>1. ASSUME NEW r \in Recordings, AdminDelete(r) \/ DeleteExpired(r) \/ RelievePressure(r) \/ RelieveFurther(r)
        PROVE  Announced'
    <2>1. pipe.phase # "announcing" /\ UNCHANGED pipe
      BY <1>1 DEF AdminDelete, DeleteExpired, RelievePressure, RelieveFurther, Quiet, PipeAtRest, Delete, DeleteMedia,
                  artifactVars
    <2> QED  BY <2>1 DEF Announced
  <1>2. ASSUME NEW r \in Recordings,
               \/ CompleteLecture(r) \/ RetryMerge(r) \/ RequeueJob(r) \/ StartUpload(r) \/ UploadAnswer(r) \/ UploadGoesOn(r)
        PROVE  UNCHANGED <<pipe, rec>>
    BY <1>2 DEF CompleteLecture, RetryMerge, RequeueJob, StartUpload, UploadAnswer, UploadGoesOn, Artifact, Upload,
                artifactVars, rows, LectureCompletes, RequestRetry
  <1>3. CASE (\E k \in Streams : ProbeAnswer(k)) \/ TakeRequest \/ ProbeLost \/ MergeAnswer \/ Announce \/ Restart
    <2>1. CASE ProbeLost \/ Announce \/ Restart
      BY <2>1 DEF ProbeLost, Announce, Restart, Artifact, NoWork, ProbeBreaks, AnnounceReady, LoseRequests, Announced
    <2>2. CASE TakeRequest
      <3>1. \/ pipe' = NoWork
            \/ \E r : BeginPipeline(r)
        <4>1. CASE TakeCompleted
          BY <4>1 DEF TakeCompleted
        <4>2. CASE TakeRetry
          BY <4>2 DEF TakeRetry
        <4> QED  BY <2>2, <4>1, <4>2 DEF TakeRequest, Artifact
      <3>2. ASSUME NEW r, BeginPipeline(r) PROVE pipe'.phase # "announcing"
        BY <3>2 DEF BeginPipeline, NoWork
      <3> QED  BY <3>1, <3>2 DEF NoWork, Announced
    <2>3. ASSUME NEW k \in Streams, ProbeAnswer(k) PROVE Announced'
      <3>1. pipe'.phase # "announcing"
        BY <2>3 DEF ProbeAnswer, Artifact, Probe, ArtifactTypes, PipeType
      <3> QED  BY <3>1 DEF Announced
    <2>4. CASE MergeAnswer
      <3>1. pipe' = NoWork \/ \E phase \in {"checking", "between", "backoff"} : pipe'.phase = phase
        <4>1. CASE RemuxEnds \/ RecordOutput \/ BackoffEnds
          BY <4>1 DEF RemuxEnds, RecordOutput, BackoffEnds, ArtifactTypes, PipeType
        <4>2. CASE AttemptFails
          BY <4>2 DEF AttemptFails, ArtifactTypes, PipeType
        <4> QED  BY <2>4, <4>1, <4>2 DEF MergeAnswer, Artifact
      <3>2. pipe'.phase # "announcing"
        BY <3>1 DEF NoWork
      <3> QED  BY <3>2 DEF Announced
    <2> QED  BY <1>3, <2>1, <2>2, <2>3, <2>4
  <1>4. CASE MergeGoesOn
    <2>1. pipe'.phase # "announcing" \/ MarkReady
      BY <1>4 DEF MergeGoesOn, Artifact, EnterMerging, SkipStream, StartRemux, ArtifactTypes, PipeType
    <2>2. CASE MarkReady
      BY <2>2 DEF MarkReady, Rec, ArtifactTypes, RowTypes, Working, PipeType, Announced
    <2> QED  BY <2>1, <2>2 DEF Announced
  <1>5. CASE ServerStep \/ PressureRelieved \/ UNCHANGED vars
    BY <1>5 DEF ServerStep, PressureRelieved, vars, Upload, artifactVars, Announced
  <1> QED  BY <1>1, <1>2, <1>3, <1>4, <1>5 DEF Next, Announced

LEMMA SettledStep ==
  ASSUME ArtifactTypes, UploadTypes, Settled, [Next]_vars
  PROVE  Settled'
  <1>1. ArtifactStep
    BY Projection DEF ArtifactTypes
  <1>2. Announced'
    BY AnnouncedStep DEF Settled, Announced
  <1>3. ASSUME NEW r \in Recordings, job'[r] # "none"
        PROVE  rec'[r] \in {"ready", "deleted"} /\ pipe'.on # r
    <2>1. CASE job[r] # "none"
      BY <1>1, <2>1, NotTakenUp DEF Settled
    <2>2. CASE job[r] = "none"
      <3>1. Announce /\ pipe.on \in Recordings
        BY <1>3, <2>2, OnlyAnnounceQueues DEF Announce, AnnounceReady, ArtifactTypes, Working
      <3>2. r = pipe.on
        BY <1>3, <2>2, <3>1 DEF Announce, Enqueue, Job, UploadTypes, JobTypes
      <3> QED  BY <3>1, <3>2, NoRecordingAssumption DEF Announce, AnnounceReady, rows, NoWork, Settled
    <2> QED  BY <2>1, <2>2
  <1> QED  BY <1>2, <1>3 DEF Settled, Announced

-----------------------------------------------------------------------------
(* The theorems                                                            *)

IInv ==
  /\ ArtifactTypes /\ UploadTypes /\ restarts \in 0..MaxRestarts
  /\ WholeUntilDeleted /\ Delivery /\ Swept /\ Settled

LEMMA InitIInv == Init => IInv
  <1> SUFFICES ASSUME Init PROVE IInv
    OBVIOUS
  <1> USE DEF Init, ArtifactInit, UploadInit
  <1>1. ArtifactTypes
    BY AtWorkOnNothing, EmptySeq DEF ArtifactTypes, RowTypes, Working, RecordingState, MergeState, FileState
  <1>2. UploadTypes
    <2>1. \A l \in Lectures : lecture[l] \in LectureType
      BY DEF NotGiven, LectureType
    <2> QED  BY <2>1, Rests, LimitsAssumption DEF UploadTypes, JobTypes, JobState, PartState, Calling, Draining, Budget
  <1>3. WholeUntilDeleted
    BY NoRecordingAssumption DEF WholeUntilDeleted, Whole, Kept, Pipelined, NoWork
  <1>4. Delivery
    <2>1. \A l \in Lectures : lecture[l].of = NoRecording
      BY DEF NotGiven
    <2> QED  BY <2>1, Rests, NoRecordingAssumption DEF Delivery, Call, Carried, Consistent
  <1>5. Swept /\ restarts \in 0..MaxRestarts
    BY MaxRestartsAssumption DEF Swept
  <1>6. Settled
    BY DEF Settled, NoWork
  <1> QED  BY <1>1, <1>2, <1>3, <1>4, <1>5, <1>6 DEF IInv

LEMMA IInvStep ==
  ASSUME IInv, [Next]_vars
  PROVE  IInv'
  <1>1. ArtifactStep /\ UploadStep
    BY Projection DEF IInv, ArtifactTypes
  <1>2. ArtifactTypes' /\ WholeUntilDeleted'
    BY <1>1, ArtifactTypesStep, WholeStep DEF IInv
  <1>3. UploadTypes' /\ Delivery'
    BY <1>1, UploadTypesStep, DeliveryStep DEF IInv, Delivery
  <1>4. Swept'
    BY <1>1, ReasonGiven, DoneStays DEF IInv, Swept
  <1>5. restarts' \in 0..MaxRestarts
    BY ReasonGiven, MaxRestartsAssumption DEF IInv
  <1>6. Settled'
    BY SettledStep DEF IInv
  <1> QED  BY <1>2, <1>3, <1>4, <1>5, <1>6 DEF IInv

LEMMA Inductive == Spec => []IInv
  BY InitIInv, IInvStep, PTL DEF Spec

(* Every row, file, request and call stays within its type: attempts never *)
(* exceed the limit, and no call is made of a recording that has no job.   *)
THEOREM TypeCorrect == Spec => []TypeOK
  <1>1. IInv => TypeOK
    BY ArtifactTypesAreTypeOK, UploadTypesAreTypeOK DEF IInv, Swept, TypeOK, ArtifactTypes
  <1> QED  BY Inductive, <1>1, PTL

(* INV-RC-4: neither sweep (storage/retention.ts) deletes a recording whose *)
(* upload is not done, from however old a selection.                       *)
THEOREM SweepsSpareUnsent == Spec => []SweepsKeepUnsent
  <1>1. IInv => SweepsKeepUnsent
    BY DEF IInv, Swept, SweepsKeepUnsent
  <1> QED  BY Inductive, <1>1, PTL

LEMMA InvariantDelivers == IInv => DoneMeansDelivered
  <1> SUFFICES ASSUME IInv, NEW r \in Recordings, job[r] = "done" PROVE HeldComplete(r)
    BY DEF DoneMeansDelivered
  <1> DEFINE parts == {k \in Streams : part[r][k] # "none"}
             l == remote[r]
  <1>1. /\ l \in Lectures /\ l # NoLecture /\ lecture[l] \in LectureType /\ lecture[l].of = r
        /\ lecture[l].state = "complete" /\ \A k \in Streams : part[r][k] \in {"none", "uploaded"}
        /\ Consistent(r)
    BY DEF IInv, Delivery, Consistent, UploadTypes, JobTypes
  <1>2. lecture[l].parts = parts
    BY <1>1 DEF Consistent, LectureType
  <1>3. lecture[l] = [of |-> lecture[l].of, state |-> lecture[l].state, parts |-> lecture[l].parts]
    BY <1>1 DEF LectureType
  <1> QED  BY <1>1, <1>2, <1>3 DEF HeldComplete

(* INV-UP-2 and INV-UJ-6: a job that is done (uploads/machine.ts: markDone) *)
(* names its own lecture, complete and with every part.                    *)
THEOREM DoneIsDelivered == Spec => []DoneMeansDelivered
  BY Inductive, InvariantDelivers, PTL

(* RA-03: a ready recording that was never deleted has its output for every *)
(* stream with a usable segment (library/merge-worker.ts: markReady).      *)
THEOREM ReadyIsPlayable == Spec => []ReadyMeansPlayable
  <1>1. IInv => ReadyMeansPlayable
    BY DEF IInv, WholeUntilDeleted, Whole, Kept, Outputs, FileThere, ReadyMeansPlayable
  <1> QED  BY Inductive, <1>1, PTL

(* Nothing but the merge under way brings a deleted recording back         *)
(* (library/merge-worker.ts, artifact-machine.ts: markReady, markFailed).  *)
THEOREM RevivedByTheMerge == Spec => OnlyTheMergeRevives
  <1>1. IInv /\ [Next]_vars =>
          [\A r \in Recordings : rec[r] = "deleted" /\ rec'[r] # "deleted" => pipe.on = r]_vars
    <2> SUFFICES ASSUME IInv, [Next]_vars, NEW r \in Recordings, rec[r] = "deleted", rec'[r] # "deleted"
                 PROVE  pipe.on = r
      OBVIOUS
    <2>1. ArtifactStep /\ ArtifactTypes
      BY Projection DEF IInv, ArtifactTypes
    <2>2. CASE TakeCompleted \/ TakeRetry
      BY <2>1, <2>2 DEF TakeCompleted, TakeRetry, EnterFinalizing, Rec, ArtifactTypes, RowTypes
    <2>3. CASE EnterMerging \/ AttemptFails \/ MarkReady
      BY <2>1, <2>3 DEF EnterMerging, AttemptFails, MarkReady, Rec, ArtifactTypes, RowTypes
    <2>4. CASE \E q \in Recordings, why \in {"admin", "system"} : DeleteMedia(q, why)
      BY <2>1, <2>4 DEF DeleteMedia, Rec, ArtifactTypes, RowTypes
    <2> QED  BY <2>1, <2>2, <2>3, <2>4 DEF ArtifactStep, LectureCompletes, RequestRetry, LoseRequests, Probe, SkipStream,
                StartRemux, ProbeBreaks, RemuxEnds, RecordOutput, BackoffEnds, AnnounceReady, artifactVars, rows
  <1> QED  BY Inductive, <1>1, PTL DEF Spec, OnlyTheMergeRevives

(* Nothing but the transfer under way takes up a cancelled job             *)
(* (uploads/scheduler.ts, machine.ts: markUploading asks for nothing).     *)
THEOREM RevivedByTheTransfer == Spec => OnlyTheTransferRevives
  <1>1. IInv /\ [Next]_vars =>
          [\A r \in Recordings : job[r] = "cancelled" /\ job'[r] # "cancelled" => drain.job = r]_vars
    <2> SUFFICES ASSUME IInv, [Next]_vars, NEW r \in Recordings, job[r] = "cancelled", job'[r] # "cancelled"
                 PROVE  drain.job = r
      OBVIOUS
    <2>1. UploadStep /\ UploadTypes
      BY Projection DEF IInv, ArtifactTypes
    <2>2. CASE \E s \in Recordings : Enqueues(s) \/ Requeue(s) \/ Cancels(s) \/ StartDrain(s)
      BY <2>1, <2>2 DEF Enqueues, Enqueue, Requeue, Cancels, CancelDeleted, StartDrain, DueJob, MarkUploading, Job,
                        UploadTypes, JobTypes
    <2>3. CASE \E s \in Recordings : \/ AnswerDeleted(s) \/ AnswerCreated(s) \/ AnswerSent(s) \/ MarkCompleting(s)
                                     \/ MarkDone(s) \/ Fail(s)
                                     \/ \E k \in Streams : \E there : SendPart(s, k, there)
      <3>1. PICK s \in Recordings : s = drain.job /\ (UNCHANGED job \/ \E new : job' = [job EXCEPT ![s] = new])
        BY <2>3 DEF AnswerDeleted, AnswerCreated, AnswerSent, MarkCompleting, MarkDone, Fail, SendPart,
                    MarkUploading, Job, jobVars
      <3> QED  BY <2>1, <3>1 DEF UploadTypes, JobTypes
    <2>4. CASE ServerCreates \/ ServerActs \/ RecoverInterrupted \/ UNCHANGED uploadVars
      BY <2>4 DEF ServerCreates, ServerActs, RecoverInterrupted, uploadVars, jobVars
    <2> QED  BY <2>1, <2>2, <2>3, <2>4 DEF UploadStep
  <1> QED  BY Inductive, <1>1, PTL DEF Spec, OnlyTheTransferRevives

-----------------------------------------------------------------------------
(* The library implements the life of a recording                          *)

Done == {r \in Recordings : job[r] = "done"}
Removed(r) == rec[r] = "deleted" /\ (job[r] # "none" \/ reason[r] = "system")

LEMMA DoneMoves ==
  ASSUME UploadTypes, UploadStep
  PROVE  Done' = Done \/ \E s \in Recordings \ Done : job[s] # "none" /\ Done' = Done \cup {s}
  <1>1. \A r \in Recordings : job[r] = "done" => job'[r] = "done"
    BY DoneStays
  <1>2. ASSUME NEW s \in Recordings, MarkDone(s)
        PROVE  s \notin Done /\ job[s] # "none" /\ Done' = Done \cup {s}
    BY <1>2 DEF MarkDone, Job, Done, UploadTypes, JobTypes, Draining
  <1>3. ASSUME ~\E s \in Recordings : MarkDone(s), NEW r \in Recordings, job'[r] = "done"
        PROVE  job[r] = "done"
    <2>1. CASE \E s \in Recordings : Enqueues(s) \/ Requeue(s) \/ Cancels(s) \/ StartDrain(s)
      BY <1>3, <2>1 DEF Enqueues, Enqueue, Requeue, Cancels, CancelDeleted, StartDrain, MarkUploading, Job, UploadTypes,
                        JobTypes
    <2>2. CASE \E s \in Recordings : \/ AnswerDeleted(s) \/ AnswerCreated(s) \/ AnswerSent(s) \/ MarkCompleting(s) \/ Fail(s)
                                     \/ \E k \in Streams : \E there : SendPart(s, k, there)
      <3>1. PICK s \in Recordings : UNCHANGED job \/ \E new : new # "done" /\ job' = [job EXCEPT ![s] = new]
        BY <2>2 DEF AnswerDeleted, AnswerCreated, AnswerSent, MarkCompleting, Fail, SendPart, MarkUploading, Job, jobVars
      <3> QED  BY <1>3, <3>1 DEF UploadTypes, JobTypes
    <2>3. CASE ServerCreates \/ ServerActs \/ RecoverInterrupted \/ UNCHANGED uploadVars
      BY <1>3, <2>3 DEF ServerCreates, ServerActs, RecoverInterrupted, uploadVars, jobVars
    <2> QED  BY <1>3, <2>1, <2>2, <2>3 DEF UploadStep
  <1> QED  BY <1>1, <1>2, <1>3 DEF Done

(* What is neither an announcement nor a deletion.                         *)
LEMMA OnlyDeleteRemoves ==
  ASSUME ArtifactTypes, [Next]_vars
  PROVE  \/ Announce
         \/ \E r \in Recordings, why \in {"admin", "system"} : Delete(r, why)
         \/ UNCHANGED reason /\ \A r \in Recordings : rec'[r] = "deleted" => rec[r] = "deleted"
  <1> DEFINE Keeps == UNCHANGED reason /\ \A r \in Recordings : rec'[r] = "deleted" => rec[r] = "deleted"
  <1>1. ASSUME NEW r \in Recordings, AdminDelete(r) \/ DeleteExpired(r) \/ RelievePressure(r) \/ RelieveFurther(r)
        PROVE  Keeps \/ \E why \in {"admin", "system"} : Delete(r, why)
    BY <1>1 DEF AdminDelete, DeleteExpired, RelievePressure, RelieveFurther, artifactVars
  <1>2. ASSUME NEW r \in Recordings,
               \/ CompleteLecture(r) \/ RetryMerge(r) \/ RequeueJob(r) \/ StartUpload(r) \/ UploadAnswer(r) \/ UploadGoesOn(r)
        PROVE  Keeps
    BY <1>2 DEF CompleteLecture, RetryMerge, RequeueJob, StartUpload, UploadAnswer, UploadGoesOn, Artifact, Upload,
                artifactVars, rows, LectureCompletes, RequestRetry
  <1>3. ASSUME TakeCompleted \/ TakeRetry \/ EnterMerging \/ AttemptFails \/ MarkReady PROVE Keeps
    <2>1. UNCHANGED reason
      BY <1>3 DEF TakeCompleted, TakeRetry, EnterMerging, AttemptFails, MarkReady
    <2>2. UNCHANGED rec \/ \E r, new : new # "deleted" /\ rec' = [rec EXCEPT ![r] = new]
      BY <1>3 DEF TakeCompleted, TakeRetry, EnterMerging, AttemptFails, MarkReady, EnterFinalizing, Rec
    <2> QED  BY <2>1, <2>2 DEF ArtifactTypes, RowTypes
  <1>4. ASSUME \/ \E k \in Streams : Probe(k) \/ SkipStream(k) \/ StartRemux(k)
               \/ ProbeBreaks \/ RemuxEnds \/ RecordOutput \/ BackoffEnds \/ LoseRequests
        PROVE  Keeps
    BY <1>4 DEF Probe, SkipStream, StartRemux, ProbeBreaks, RemuxEnds, RecordOutput, BackoffEnds, LoseRequests, rows
  <1>5. CASE (\E k \in Streams : ProbeAnswer(k)) \/ TakeRequest \/ ProbeLost \/ MergeAnswer \/ MergeGoesOn \/ Restart
    BY <1>3, <1>4, <1>5 DEF ProbeAnswer, TakeRequest, ProbeLost, MergeAnswer, MergeGoesOn, Restart, Artifact
  <1>6. CASE ServerStep \/ PressureRelieved \/ UNCHANGED vars
    BY <1>6 DEF ServerStep, PressureRelieved, vars, Upload, artifactVars
  <1> QED  BY <1>1, <1>2, <1>5, <1>6 DEF Next

LEMMA LifeStep ==
  ASSUME IInv, DoneMeansDelivered, DoneMeansDelivered', [Next]_vars
  PROVE  [Life!LifeNext]_(Life!life)
  <1> DEFINE Queued == {r \in Recordings : job[r] # "none"}
             Held == {r \in Recordings : job[r] = "done" /\ HeldComplete(r)}
             By == [r \in Recordings |-> IF Removed(r) THEN reason[r] ELSE "none"]
  <1>1. /\ ArtifactTypes /\ UploadTypes /\ Settled /\ Swept
        /\ ArtifactStep /\ UploadStep
    BY Projection DEF IInv, ArtifactTypes
  <1>2. Held = Done /\ Held' = Done'
    BY DEF DoneMeansDelivered, Done
  <1>3. CASE Announce
    <2>1. /\ pipe.on \in Recordings /\ rec[pipe.on] = "ready" /\ job[pipe.on] = "none"
          /\ job' = [job EXCEPT ![pipe.on] = "queued"] /\ UNCHANGED <<rec, reason>>
      BY <1>1, <1>3 DEF Announce, AnnounceReady, rows, Enqueue, Job, ArtifactTypes, Working, Settled
    <2>2. Queued' = Queued \cup {pipe.on} /\ Done' = Done
      BY <1>1, <2>1 DEF Done, UploadTypes, JobTypes
    <2>3. By' = By
      BY <1>1, <2>1 DEF Removed, UploadTypes, JobTypes
    <2>4. PICK r \in Recordings : r = pipe.on
      BY <2>1
    <2>5. Life!Queue(r)
      BY <1>2, <2>1, <2>2, <2>3, <2>4 DEF Life!Queue, Removed
    <2> QED  BY <2>5 DEF Life!LifeNext
  <1>4. ASSUME NEW r \in Recordings, NEW why \in {"admin", "system"}, Delete(r, why)
        PROVE  Life!LifeNext \/ UNCHANGED Life!life
    <2>1. /\ rec[r] # "deleted" /\ rec' = [rec EXCEPT ![r] = "deleted"] /\ reason' = [reason EXCEPT ![r] = why]
          /\ \A s \in Recordings : (job'[s] = "none" <=> job[s] = "none") /\ (job'[s] = "done" <=> job[s] = "done")
      BY <1>1, <1>4 DEF Delete, DeleteMedia, Rec, CancelDeleted, UploadTypes, JobTypes
    <2>2. why = "system" => job[r] = "done"
      BY <1>1, <2>1, ReasonGiven DEF ArtifactTypes, RowTypes
    <2>3. Queued' = Queued /\ Done' = Done
      BY <2>1 DEF Done
    <2>4. ~Removed(r) /\ \A s \in Recordings \ {r} : (Removed(s)' <=> Removed(s)) /\ reason'[s] = reason[s]
      BY <1>1, <2>1 DEF Removed, ArtifactTypes, RowTypes
    <2>5. (Removed(r)' <=> job[r] # "none") /\ reason'[r] = why
      BY <1>1, <2>1, <2>2 DEF Removed, ArtifactTypes, RowTypes
    <2>6. CASE job[r] = "none"
      <3>1. By' = By
        BY <2>4, <2>5, <2>6
      <3> QED  BY <1>2, <2>3, <3>1 DEF Life!life, Removed
    <2>7. CASE job[r] # "none"
      <3>1. By' = [By EXCEPT ![r] = why] /\ By[r] = "none"
        BY <2>4, <2>5, <2>7
      <3>2. r \in Queued /\ (why = "system" => r \in Done)
        BY <2>2, <2>7 DEF Done
      <3>3. Life!Remove(r, why)
        BY <1>2, <2>3, <3>1, <3>2 DEF Life!Remove, Removed
      <3> QED  BY <3>3 DEF Life!LifeNext
    <2> QED  BY <2>6, <2>7
  <1>5. CASE ~Announce /\ UNCHANGED reason /\ \A r \in Recordings : rec'[r] = "deleted" => rec[r] = "deleted"
    <2>1. \A r \in Recordings : job'[r] = "none" <=> job[r] = "none"
      BY <1>1, <1>5, OnlyAnnounceQueues
    <2>2. ASSUME NEW r \in Recordings PROVE Removed(r)' <=> Removed(r)
      <3>1. Removed(r) => job[r] # "none" /\ rec[r] = "deleted"
        BY <1>1 DEF Removed, Swept
      <3>2. Removed(r) => rec'[r] = "deleted"
        BY <1>1, <3>1, NotTakenUp DEF Settled
      <3> QED  BY <1>5, <2>1, <3>2 DEF Removed
    <2>3. Queued' = Queued /\ By' = By
      BY <1>5, <2>1, <2>2
    <2>4. CASE Done' = Done
      BY <1>2, <2>3, <2>4 DEF Life!life, Removed
    <2>5. CASE \E s \in Recordings \ Done : job[s] # "none" /\ Done' = Done \cup {s}
      <3>1. PICK s \in Recordings \ Done : job[s] # "none" /\ Done' = Done \cup {s}
        BY <2>5
      <3>2. Life!Deliver(s)
        BY <1>2, <2>3, <3>1 DEF Life!Deliver, Removed
      <3> QED  BY <3>2 DEF Life!LifeNext
    <2> QED  BY <1>1, <2>4, <2>5, DoneMoves
  <1> QED  BY <1>1, <1>3, <1>4, <1>5, OnlyDeleteRemoves

(* INV-UJ-1 and INV-RC-4: the artifact pipeline, the upload queue, deletion *)
(* and retention (library/delete.ts, storage/retention.ts) implement the    *)
(* life of a recording: one job, a delivery that is kept, and one removal   *)
(* of the media, by the system only after the delivery.                     *)
THEOREM LifeImplemented == Spec => LifeKept
  <1>1. Init => Life!LifeInit
    <2> SUFFICES ASSUME Init PROVE Life!LifeInit
      OBVIOUS
    <2>1. \A r \in Recordings : job[r] = "none" /\ rec[r] = "capturing"
      BY DEF Init, ArtifactInit, UploadInit
    <2> QED  BY <2>1 DEF Life!LifeInit
  <1>2. IInv /\ DoneMeansDelivered /\ DoneMeansDelivered' /\ [Next]_vars => [Life!LifeNext]_(Life!life)
    BY LifeStep
  <1> QED  BY <1>1, <1>2, Inductive, DoneIsDelivered, PTL DEF Spec, LifeKept, Life!LifeSpec

=============================================================================
