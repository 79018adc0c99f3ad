--------------------------- MODULE RecordingLibrary ---------------------------
(***************************************************************************)
(* The library of core-api: the artifact pipeline, the upload queue, the   *)
(* deletion of recordings by an administrator (library/delete.ts) and by   *)
(* the retention sweep (storage/retention.ts), and restarts.               *)
(*                                                                         *)
(* The components share a database and an event bus that calls its         *)
(* listeners at once, so a step of one that publishes is also a step of    *)
(* those that listen. `Quiet' says that no code is between two awaits:     *)
(* only then can an answer, a command or a timer be handled.               *)
(***************************************************************************)
EXTENDS ArtifactPipeline, UploadQueue

CONSTANT MaxRestarts   \* bound on crashes and restarts of core-api

ASSUME MaxRestartsAssumption == MaxRestarts \in Nat

VARIABLES
  relief,     \* recordings the disk pressure sweep has still to delete
  restarts

vars == <<artifactVars, uploadVars, relief, restarts>>

Init == ArtifactInit /\ UploadInit /\ relief = {} /\ restarts = 0

Quiet == PipeAtRest /\ DrainAtRest
others == <<relief, restarts>>

----------------------------------------------------------------------------
Artifact(step) == step /\ UNCHANGED <<uploadVars, others>>
Upload(step) == step /\ UNCHANGED <<artifactVars, others>>

CompleteLecture(r) == Quiet /\ Artifact(LectureCompletes(r))
RetryMerge(r) == Quiet /\ Artifact(RequestRetry(r))
TakeRequest == Quiet /\ Artifact(TakeCompleted \/ TakeRetry)
ProbeAnswer(k) == Quiet /\ Artifact(Probe(k))
ProbeLost == Quiet /\ Artifact(ProbeBreaks)
MergeAnswer == Quiet /\ Artifact(RemuxEnds \/ RecordOutput \/ AttemptFails \/ BackoffEnds)
MergeGoesOn ==
  Artifact(EnterMerging \/ MarkReady \/ \E k \in Streams : SkipStream(k) \/ StartRemux(k))

(* The scheduler listens to artifact.ready.                                *)
Announce ==
  /\ AnnounceReady
  /\ Enqueue(pipe.on, {k \in Streams : output[pipe.on][k] # "none"})
  /\ UNCHANGED <<attempt, remote, cleanup, drain, lecture, others>>

RequeueJob(r) == Quiet /\ Upload(Requeue(r))
StartUpload(r) == Quiet /\ Upload(StartDrain(r))
ServerStep == Upload(ServerCreates \/ ServerActs)
UploadAnswer(r) ==
  Quiet /\ Upload(AnswerDeleted(r) \/ AnswerCreated(r) \/ AnswerSent(r) \/ MarkDone(r) \/ Fail(r))

FileThere(r, k) == output[r][k] = "finalized" /\ <<"output", k>> \in disk[r]
UploadGoesOn(r) ==
  Upload(MarkCompleting(r) \/ \E k \in Streams : SendPart(r, k, FileThere(r, k)))

----------------------------------------------------------------------------
(* A deletion: the rows and files, and the upload job of the recording. A  *)
(* transfer under way is not aborted.                                      *)
Delete(r, why) ==
  /\ DeleteMedia(r, why)
  /\ CancelDeleted(r)
  /\ UNCHANGED <<attempt, part, remote, cleanup, drain, lecture, restarts>>

AdminDelete(r) == Quiet /\ Delete(r, "admin") /\ UNCHANGED relief

(* A sweep that takes the age of a recording for enough. *)
Old(r) == rec[r] = "ready"

Uploaded(r) == rec[r] = "ready" /\ job[r] = "done"

(* The retention sweep: a recording past its age, if it is uploaded.       *)
DeleteExpired(r) == Quiet /\ relief = {} /\ Uploaded(r) /\ Delete(r, "system") /\ UNCHANGED relief

(* The sweep under disk pressure selects once, deletes one recording, and  *)
(* measures the disk before each further one of its selection.             *)
RelievePressure(r) ==
  /\ Quiet /\ relief = {} /\ Uploaded(r)
  /\ Delete(r, "system")
  /\ relief' = {s \in Recordings : Uploaded(s)} \ {r}

RelieveFurther(r) ==
  /\ Quiet /\ r \in relief
  /\ relief' = relief \ {r}
  /\ \/ Delete(r, "system")
     \/ rec[r] = "deleted" /\ UNCHANGED <<artifactVars, uploadVars, restarts>>

PressureRelieved ==
  /\ Quiet /\ relief # {}
  /\ relief' = {}
  /\ UNCHANGED <<artifactVars, uploadVars, restarts>>

(* core-api stops at any moment, and starts again. *)
Restart ==
  /\ restarts < MaxRestarts
  /\ restarts' = restarts + 1
  /\ relief' = {}
  /\ LoseRequests
  /\ RecoverInterrupted

----------------------------------------------------------------------------
Next ==
  \/ \E r \in Recordings :
       \/ CompleteLecture(r) \/ RetryMerge(r) \/ AdminDelete(r)
       \/ RequeueJob(r) \/ StartUpload(r) \/ UploadAnswer(r) \/ UploadGoesOn(r)
       \/ DeleteExpired(r) \/ RelievePressure(r) \/ RelieveFurther(r)
  \/ \E k \in Streams : ProbeAnswer(k)
  \/ TakeRequest \/ ProbeLost \/ MergeAnswer \/ MergeGoesOn \/ Announce
  \/ ServerStep \/ PressureRelieved \/ Restart

Spec == Init /\ [][Next]_vars

(* What runs by itself: the executor's queue, ffprobe on a local file,     *)
(* ffmpeg under its watchdog, and the scheduler with its timer; every call *)
(* to the server ends, if only by failing. Nothing is promised of commands,       *)
(* sweeps, the server or the end of a lecture.                             *)
Fairness ==
  /\ WF_vars(TakeRequest) /\ WF_vars(\E k \in Streams : ProbeAnswer(k))
  /\ WF_vars(MergeAnswer) /\ WF_vars(MergeGoesOn) /\ WF_vars(Announce)
  /\ \A r \in Recordings :
       WF_vars(StartUpload(r)) /\ WF_vars(UploadAnswer(r)) /\ WF_vars(UploadGoesOn(r))

FairSpec == Spec /\ Fairness

----------------------------------------------------------------------------
(* Every variable holds a value the program can store in it. *)
TypeOK ==
  /\ ArtifactTypeOK
  /\ UploadTypeOK
  /\ relief \subseteq Recordings
  /\ restarts \in 0..MaxRestarts

(* INV-RC-4, neverDeleteUnuploaded: neither sweep deletes a recording whose *)
(* upload is not done, however old the selection it works from.             *)
SweepsKeepUnsent ==
  \A r \in Recordings : rec[r] = "deleted" /\ reason[r] = "system" => job[r] = "done"

(* The lecture the job names is held by the server, complete with every     *)
(* part of the job.                                                         *)
HeldComplete(r) ==
  LET parts == {k \in Streams : part[r][k] # "none"} IN
  /\ \A k \in parts : part[r][k] = "uploaded"
  /\ remote[r] # NoLecture
  /\ lecture[remote[r]] = [of |-> r, state |-> "complete", parts |-> parts]

(* INV-UP-2 and INV-UJ-6: a job that is done names a lecture that the       *)
(* server holds complete with every part of the job, over failures after    *)
(* the server has acted, restarts, and deletions and re-creations of the    *)
(* lecture.                                                                 *)
DoneMeansDelivered == \A r \in Recordings : job[r] = "done" => HeldComplete(r)

(* RA-03: a recording that is ready, and was never deleted, has its output  *)
(* for every stream with a usable segment, after retries and restarts too.  *)
ReadyMeansPlayable ==
  \A r \in Recordings : rec[r] = "ready" /\ reason[r] = "none" =>
    \A k \in Streams : segment[r][k] = "finalized" => FileThere(r, k)

(* A deleted recording comes back only by the merge that was under way when *)
(* it was deleted: no restart, sweep, retry or late event revives one.      *)
OnlyTheMergeRevives ==
  [][\A r \in Recordings : rec[r] = "deleted" /\ rec'[r] # "deleted" => pipe.on = r]_vars

(* A cancelled job goes on only as part of the transfer that was under way  *)
(* when it was cancelled: nothing else takes it up again.                   *)
OnlyTheTransferRevives ==
  [][\A r \in Recordings : job[r] = "cancelled" /\ job'[r] # "cancelled" => drain.job = r]_vars

(* INV-UJ-1 and INV-RC-4, over deletions, merges, transfers and restarts: a *)
(* recording has one job for ever; what is delivered stays delivered; once  *)
(* it has a job a deletion of it is final, and one by a sweep (at any time) *)
(* finds the server holding the lecture.                                    *)
Life == INSTANCE RecordingLife WITH
  queued <- {r \in Recordings : job[r] # "none"},
  delivered <- {r \in Recordings : job[r] = "done" /\ HeldComplete(r)},
  removed <- [r \in Recordings |->
    IF rec[r] = "deleted" /\ (job[r] # "none" \/ reason[r] = "system") THEN reason[r] ELSE "none"]
LifeKept == Life!LifeSpec

(* A job does not stay uploading or completing: not after a lost answer,    *)
(* and not after a restart in the middle of the transfer.                   *)
TransfersEnd ==
  \A r \in Recordings :
    (job[r] \in {"uploading", "completing"}) ~> (job[r] \notin {"uploading", "completing"})

----------------------------------------------------------------------------
(* What the repository's documents say and the code does not keep.          *)

(* The diagram of state-machines.md section 2.1 has no way out of deleted.  *)
DeletedStaysDeleted ==
  [][\A r \in Recordings : rec[r] = "deleted" => rec'[r] = "deleted"]_vars

(* INV-UJ-2: every finished recording enters the queue, automatically,      *)
(* unless its merge failed or it was deleted.                               *)
FinishedIsQueued ==
  \A r \in Recordings : ended[r] ~> (job[r] # "none" \/ rec[r] \in {"failed", "deleted"})
=============================================================================
