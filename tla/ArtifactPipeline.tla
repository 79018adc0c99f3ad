-------------------------- MODULE ArtifactPipeline ---------------------------
(***************************************************************************)
(* Machine 1b of core-api: what becomes of a recording once its lecture    *)
(* has ended. ArtifactExecutor (library/merge-worker.ts) probes the files  *)
(* of the segments, merges and remuxes each stream, and marks the          *)
(* recording ready or failed; ArtifactMachine (library/artifact-machine.ts)*)
(* writes the rows; a deletion (library/delete.ts) may come at any moment, *)
(* because it does not pass through the executor's queue.                  *)
(*                                                                         *)
(* The actions of this module are parts of the steps of RecordingLibrary.  *)
(* The segments of one stream stand for one file, and the merged file and  *)
(* the deliverable made from them for one output.                          *)
(***************************************************************************)
EXTENDS LibraryConstants, Naturals, Sequences, FiniteSets

CONSTANT MergeRetries   \* length of MERGE_RETRY_DELAYS_MS

ASSUME MergeRetriesAssumption == MergeRetries \in Nat

VARIABLES
  ended,      \* the lecture session of the recording is completed
  rec,        \* recordings.state
  merge,      \* recordings.mergeState
  segment,    \* recording_files.state of the segments of each stream
  output,     \* recording_files.state of the merged and derived files
  disk,       \* the files that exist, <<"segment", k>> and <<"output", k>>
  reason,     \* recordings.deleteReason, "system" for retention and disk pressure
  requests,   \* the executor's queue: completed lectures and retries
  pipe        \* the work item the executor is in

artifactVars == <<ended, rec, merge, segment, output, disk, reason, requests, pipe>>

RecordingState == {"capturing", "finalizing", "merging", "ready", "failed", "deleted"}
MergeState == {"pending", "running", "done", "failed"}
FileState == {"none", "writing", "finalized", "missing", "deleted"}
Phase == {"idle", "probing", "probed", "between", "remuxing", "checking", "backoff", "announcing"}

NoWork == [on |-> NoRecording, phase |-> "idle", todo |-> {}, good |-> {}, bad |-> {},
           key |-> "none", input |-> FALSE, failures |-> 0]

ArtifactInit ==
  /\ ended = [r \in Recordings |-> FALSE]
  /\ rec = [r \in Recordings |-> "capturing"]
  /\ merge = [r \in Recordings |-> "pending"]
  /\ segment = [r \in Recordings |-> [k \in Streams |-> "none"]]
  /\ output = [r \in Recordings |-> [k \in Streams |-> "none"]]
  /\ disk = [r \in Recordings |-> {}]
  /\ reason = [r \in Recordings |-> "none"]
  /\ requests = <<>>
  /\ pipe = NoWork

(* Between two awaits the executor's code runs on without interruption.    *)
PipeAtRest == pipe.phase \notin {"probed", "between", "announcing"}

rows == <<ended, rec, merge, segment, output, disk, reason>>
Rec(r, new) == rec' = [rec EXCEPT ![r] = new]

----------------------------------------------------------------------------
(* The lecture ends completed: its last segments are closed, and the       *)
(* executor hears the event. `writing' stands for every file not yet       *)
(* probed, whether its segment was closed finalized or truncated.          *)
LectureCompletes(r) ==
  /\ ~ended[r]
  /\ ended' = [ended EXCEPT ![r] = TRUE]
  /\ segment' = [segment EXCEPT ![r] = [k \in Streams |-> "writing"]]
  /\ disk' = [disk EXCEPT ![r] = @ \cup {<<"segment", k>> : k \in Streams}]
  /\ requests' = Append(requests, [kind |-> "completed", rec |-> r])
  /\ UNCHANGED <<rec, merge, output, reason, pipe>>

(* retryMergeRecording: a failed recording only, checked here and again    *)
(* when the request is taken. A second request that waits behind a first   *)
(* is one made when the first is done.                                     *)
RequestRetry(r) ==
  /\ rec[r] = "failed"
  /\ ~\E i \in DOMAIN requests : requests[i].rec = r
  /\ requests' = Append(requests, [kind |-> "retry", rec |-> r])
  /\ UNCHANGED <<rows, pipe>>

(* A run that takes up every recording. *)
EnterFinalizingAlways(r) == Rec(r, "finalizing")

EnterFinalizing(r) ==
  IF rec[r] = "capturing" THEN Rec(r, "finalizing") ELSE UNCHANGED rec

Unprobed(r) == {k \in Streams : segment[r][k] # "finalized"}

BeginPipeline(r) ==
  pipe' = [NoWork EXCEPT !.on = r, !.todo = Unprobed(r),
                         !.phase = IF Unprobed(r) = {} THEN "probed" ELSE "probing"]

TakeCompleted ==
  /\ pipe = NoWork /\ requests # <<>> /\ Head(requests).kind = "completed"
  /\ LET r == Head(requests).rec IN
     /\ EnterFinalizing(r)
     /\ IF rec'[r] = "finalizing" THEN BeginPipeline(r) ELSE UNCHANGED pipe
  /\ requests' = Tail(requests)
  /\ UNCHANGED <<ended, merge, segment, output, disk, reason>>

TakeRetry ==
  /\ pipe = NoWork /\ requests # <<>> /\ Head(requests).kind = "retry"
  /\ LET r == Head(requests).rec IN
     IF rec[r] = "failed"
       THEN /\ Rec(r, "finalizing")
            /\ merge' = [merge EXCEPT ![r] = "pending"]
            /\ BeginPipeline(r)
       ELSE UNCHANGED <<rec, merge, pipe>>
  /\ requests' = Tail(requests)
  /\ UNCHANGED <<ended, segment, output, disk, reason>>

----------------------------------------------------------------------------
(* Probing. A file that is gone, empty or broken is not playable.          *)
Probe(k) ==
  /\ pipe.phase = "probing" /\ k \in pipe.todo
  /\ \E playable \in BOOLEAN :
       /\ playable => <<"segment", k>> \in disk[pipe.on]
       /\ pipe' = [pipe EXCEPT !.todo = @ \ {k},
                               !.good = IF playable THEN @ \cup {k} ELSE @,
                               !.bad = IF playable THEN @ ELSE @ \cup {k},
                               !.phase = IF pipe.todo = {k} THEN "probed" ELSE @]
  /\ UNCHANGED <<rows, requests>>

(* ffprobe cannot be started: the item ends there, the recording as it is. *)
ProbeBreaks ==
  /\ pipe.phase = "probing"
  /\ pipe' = NoWork
  /\ UNCHANGED <<rows, requests>>

(* applyProbeResults, enterMerging and the first attempt. The results are  *)
(* written whatever has become of the rows since, and the work goes on     *)
(* even if enterMerging finds the recording no longer finalizing.          *)
EnterMerging ==
  LET r == pipe.on IN
  /\ pipe.phase = "probed"
  /\ segment' = [segment EXCEPT ![r] =
       [k \in Streams |-> IF k \in pipe.good THEN "finalized"
                          ELSE IF k \in pipe.bad THEN "missing" ELSE @[k]]]
  /\ IF rec[r] = "finalizing"
       THEN Rec(r, "merging") /\ merge' = [merge EXCEPT ![r] = "running"]
       ELSE UNCHANGED <<rec, merge>>
  /\ pipe' = [pipe EXCEPT !.phase = "between", !.todo = Streams]
  /\ UNCHANGED <<ended, output, disk, reason, requests>>

----------------------------------------------------------------------------
(* One attempt: the streams one after the other.                           *)

UpToDate(r, k) == output[r][k] # "none" /\ <<"output", k>> \in disk[r]

(* A stream without a usable segment has no output; one whose output is    *)
(* still the one recorded is not made again.                               *)
SkipStream(k) ==
  /\ pipe.phase = "between" /\ k \in pipe.todo
  /\ segment[pipe.on][k] = "missing" \/ UpToDate(pipe.on, k)
  /\ pipe' = [pipe EXCEPT !.todo = @ \ {k}]
  /\ UNCHANGED <<rows, requests>>

StartRemux(k) ==
  /\ pipe.phase = "between" /\ k \in pipe.todo
  /\ segment[pipe.on][k] # "missing" /\ ~UpToDate(pipe.on, k)
  /\ pipe' = [pipe EXCEPT !.phase = "remuxing", !.key = k,
                          !.input = <<"segment", k>> \in disk[pipe.on]]
  /\ UNCHANGED <<rows, requests>>

(* ffmpeg leaves with success: it had opened its input before a deletion.  *)
RemuxEnds ==
  /\ pipe.phase = "remuxing" /\ pipe.input
  /\ disk' = [disk EXCEPT ![pipe.on] = @ \cup {<<"output", pipe.key>>}]
  /\ pipe' = [pipe EXCEPT !.phase = "checking"]
  /\ UNCHANGED <<ended, rec, merge, segment, output, reason, requests>>

(* upsertArtifactFile: the row is finalized whatever it was. *)
Upsert ==
  /\ pipe.phase = "checking"
  /\ <<"output", pipe.key>> \in disk[pipe.on]
  /\ output' = [output EXCEPT ![pipe.on][pipe.key] = "finalized"]

RecordOutput ==
  /\ Upsert
  /\ pipe' = [pipe EXCEPT !.phase = "between", !.todo = @ \ {pipe.key}]
  /\ UNCHANGED <<ended, rec, merge, segment, disk, reason, requests>>

(* An attempt whose failure in one stream only skips that stream. *)
AttemptFailsSoftly ==
  /\ pipe.phase \in {"remuxing", "checking"}
  /\ pipe' = [pipe EXCEPT !.phase = "between", !.todo = @ \ {pipe.key}]
  /\ UNCHANGED <<rows, requests>>

(* ffmpeg fails, its output cannot be read, or the watchdog aborts the     *)
(* attempt, which does not keep an output being read from being recorded;  *)
(* after the last retry the recording is failed (markFailed).              *)
AttemptFails ==
  /\ pipe.phase \in {"remuxing", "checking"}
  /\ Upsert \/ UNCHANGED output
  /\ IF pipe.failures < MergeRetries
       THEN /\ pipe' = [pipe EXCEPT !.phase = "backoff", !.failures = @ + 1]
            /\ UNCHANGED <<rec, merge>>
       ELSE /\ pipe' = NoWork
            /\ Rec(pipe.on, "failed")
            /\ merge' = [merge EXCEPT ![pipe.on] = "failed"]
  /\ UNCHANGED <<ended, segment, disk, reason, requests>>

BackoffEnds ==
  /\ pipe.phase = "backoff"
  /\ pipe' = [pipe EXCEPT !.phase = "between", !.todo = Streams]
  /\ UNCHANGED <<rows, requests>>

(* markReady asks for nothing: the recording may have been deleted since.  *)
(* That it is ready is announced after the transaction.                    *)
MarkReady ==
  /\ pipe.phase = "between" /\ pipe.todo = {}
  /\ Rec(pipe.on, "ready")
  /\ merge' = [merge EXCEPT ![pipe.on] = "done"]
  /\ pipe' = [pipe EXCEPT !.phase = "announcing"]
  /\ UNCHANGED <<ended, segment, output, disk, reason, requests>>

AnnounceReady ==
  /\ pipe.phase = "announcing"
  /\ pipe' = NoWork
  /\ UNCHANGED <<rows, requests>>

----------------------------------------------------------------------------
(* deleteRecordingInternal: the files that have a row not yet deleted are  *)
(* removed, and every row is marked.                                       *)
DeleteMedia(r, why) ==
  /\ rec[r] # "deleted"
  /\ Rec(r, "deleted")
  /\ reason' = [reason EXCEPT ![r] = why]
  /\ disk' = [disk EXCEPT ![r] = @ \ ({<<"segment", k>> : k \in {j \in Streams : segment[r][j] \notin {"none", "deleted"}}}
                             \cup {<<"output", k>> : k \in {j \in Streams : output[r][j] \notin {"none", "deleted"}}})]
  /\ segment' = [segment EXCEPT ![r] = [k \in Streams |-> IF @[k] = "none" THEN @[k] ELSE "deleted"]]
  /\ output' = [output EXCEPT ![r] = [k \in Streams |-> IF @[k] = "none" THEN @[k] ELSE "deleted"]]
  /\ UNCHANGED <<ended, merge, requests, pipe>>

(* The queue and the work item are in memory; start() reads no row.        *)
LoseRequests ==
  /\ requests' = <<>>
  /\ pipe' = NoWork
  /\ UNCHANGED rows

ArtifactTypeOK ==
  /\ ended \in [Recordings -> BOOLEAN]
  /\ rec \in [Recordings -> RecordingState]
  /\ merge \in [Recordings -> MergeState]
  /\ segment \in [Recordings -> [Streams -> FileState]]
  /\ output \in [Recordings -> [Streams -> FileState \ {"writing", "missing"}]]
  /\ disk \in [Recordings -> SUBSET ({"segment", "output"} \X Streams)]
  /\ reason \in [Recordings -> {"none", "admin", "system"}]
  /\ requests \in Seq([kind : {"completed", "retry"}, rec : Recordings])
  /\ pipe \in [on : Recordings \cup {NoRecording}, phase : Phase, todo : SUBSET Streams,
               good : SUBSET Streams, bad : SUBSET Streams, key : Streams \cup {"none"}, input : BOOLEAN,
               failures : 0..MergeRetries]
=============================================================================
