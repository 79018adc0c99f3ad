----------------------------- MODULE UploadQueue -----------------------------
(***************************************************************************)
(* Machines 3a and 3b of core-api: the upload jobs and their parts. The    *)
(* scheduler (uploads/scheduler.ts) works on one job at a time, `drain',   *)
(* and calls the lecture server through an adapter; UploadMachine          *)
(* (uploads/machine.ts) writes the rows. The server may have carried out a *)
(* call whose answer never arrives.                                        *)
(*                                                                         *)
(* The actions of this module are parts of the steps of RecordingLibrary.  *)
(* Checkpoints within a part, wording and alerts are left out; a failed    *)
(* job may be due at any time, which stands for its backoff.               *)
(***************************************************************************)
EXTENDS LibraryConstants, Naturals, FiniteSets

CONSTANTS
  Lectures,       \* identifiers the lecture server may give
  NoLecture,
  ServerLimit,    \* attempts after which server failures end in dead-letter, 8
  PermanentLimit  \* attempts after which a permanent failure does, 2

ASSUME NoLectureAssumption == NoLecture \notin Lectures
ASSUME LimitsAssumption == ServerLimit \in Nat \ {0} /\ PermanentLimit \in 1..ServerLimit

VARIABLES
  job,        \* upload_jobs.state, "none" without a row
  attempt,    \* upload_jobs.attempt
  part,       \* upload_file_parts.state, "none" without a row
  remote,     \* upload_jobs.remoteLectureId
  cleanup,    \* upload_jobs.remoteCleanupState
  drain,      \* the job the scheduler works on and the call it waits for
  lecture     \* the lectures of the server: the recording, state and parts held

uploadVars == <<job, attempt, part, remote, cleanup, drain, lecture>>
jobVars == <<job, attempt, remote, cleanup>>

JobState == {"none", "queued", "uploading", "completing", "done", "failed", "dead-letter", "cancelled"}
PartState == {"none", "pending", "uploading", "uploaded", "missing"}
Calls == {"deleting", "creating", "sending", "completing"}
Connectivity == "connectivity"
FailureClass == {Connectivity, "server", "permanent"}

AtRest == [job |-> NoRecording, at |-> "idle", key |-> "none", made |-> NoLecture, done |-> FALSE]
NotGiven == [of |-> NoRecording, state |-> "unused", parts |-> {}]

UploadInit ==
  /\ job = [r \in Recordings |-> "none"]
  /\ attempt = [r \in Recordings |-> 0]
  /\ part = [r \in Recordings |-> [k \in Streams |-> "none"]]
  /\ remote = [r \in Recordings |-> NoLecture]
  /\ cleanup = [r \in Recordings |-> "not-needed"]
  /\ drain = AtRest
  /\ lecture = [l \in Lectures |-> NotGiven]

(* Between two awaits the scheduler's code runs on without interruption.   *)
DrainAtRest == drain.at # "between"

Job(r, new) == job' = [job EXCEPT ![r] = new]
Await(call) == drain' = [drain EXCEPT !.at = call, !.done = FALSE]

----------------------------------------------------------------------------
(* enqueue: one job for a recording, for ever, with a part for each        *)
(* deliverable that has a row.                                             *)
Enqueue(r, deliverables) ==
  IF job[r] = "none"
    THEN /\ Job(r, "queued")
         /\ part' = [part EXCEPT ![r] = [k \in Streams |-> IF k \in deliverables THEN "pending" ELSE "none"]]
    ELSE UNCHANGED <<job, part>>

(* Every part is to be sent from its beginning. *)
Anew(parts) == [k \in Streams |-> IF parts[k] = "none" THEN "none" ELSE "pending"]

(* The administrator queues a dead-letter job again: every part is sent    *)
(* anew, after the lecture on the server has been deleted.                 *)
Requeue(r) ==
  /\ job[r] = "dead-letter"
  /\ Job(r, "queued")
  /\ attempt' = [attempt EXCEPT ![r] = 0]
  /\ cleanup' = [cleanup EXCEPT ![r] = IF remote[r] = NoLecture THEN "not-needed" ELSE "pending"]
  /\ part' = [part EXCEPT ![r] = Anew(@)]
  /\ UNCHANGED <<remote, drain, lecture>>

(* deleteRecordingInternal and cancelDeleted. *)
CancelDeleted(r) ==
  job' = [job EXCEPT ![r] = IF @ \in {"none", "done"} THEN @ ELSE "cancelled"]

----------------------------------------------------------------------------
(* A drain. What a call does on the server may come long before its answer *)
(* or its failure, and without either.                                     *)

(* A scheduler that takes up a job whatever has become of it. *)
DueAny(r) == job[r] \notin {"none", "done", "dead-letter"}

DueJob(r) == job[r] \in {"queued", "failed"}

(* markUploading asks for nothing: the job may have been cancelled since.  *)
MarkUploading(r, l) ==
  /\ Job(r, "uploading")
  /\ remote' = [remote EXCEPT ![r] = l]

StartDrain(r) ==
  /\ drain = AtRest /\ DueJob(r)
  /\ IF cleanup[r] = "pending" /\ remote[r] # NoLecture
       THEN drain' = [AtRest EXCEPT !.job = r, !.at = "deleting"] /\ UNCHANGED <<job, remote>>
     ELSE IF remote[r] = NoLecture
       THEN drain' = [AtRest EXCEPT !.job = r, !.at = "creating"] /\ UNCHANGED <<job, remote>>
     ELSE drain' = [AtRest EXCEPT !.job = r, !.at = "between"] /\ MarkUploading(r, remote[r])
  /\ UNCHANGED <<attempt, part, cleanup, lecture>>

Lecture(l, new) == lecture' = [lecture EXCEPT ![l] = new]

ServerCreates ==
  /\ drain.at = "creating" /\ ~drain.done
  /\ \E l \in Lectures :
       /\ lecture[l] = NotGiven
       /\ Lecture(l, [of |-> drain.job, state |-> "open", parts |-> {}])
       /\ drain' = [drain EXCEPT !.made = l, !.done = TRUE]
  /\ UNCHANGED <<jobVars, part>>

ServerActs ==
  /\ drain.at \in Calls \ {"creating"} /\ ~drain.done
  /\ LET l == remote[drain.job] IN
     \/ drain.at = "deleting" /\ Lecture(l, [lecture[l] EXCEPT !.state = "deleted"])
     \/ drain.at = "sending" /\ Lecture(l, [lecture[l] EXCEPT !.parts = @ \cup {drain.key}])
     \/ drain.at = "completing" /\ Lecture(l, [lecture[l] EXCEPT !.state = "complete"])
  /\ drain' = [drain EXCEPT !.done = TRUE]
  /\ UNCHANGED <<jobVars, part>>

(* The lecture is gone: the parts start anew and a lecture is created.     *)
AnswerDeleted(r) ==
  /\ drain.job = r /\ drain.at = "deleting" /\ drain.done
  /\ cleanup' = [cleanup EXCEPT ![r] = "done"]
  /\ remote' = [remote EXCEPT ![r] = NoLecture]
  /\ part' = [part EXCEPT ![r] = Anew(@)]
  /\ Await("creating")
  /\ UNCHANGED <<job, attempt, lecture>>

AnswerCreated(r) ==
  /\ drain.job = r /\ drain.at = "creating" /\ drain.done
  /\ MarkUploading(r, drain.made)
  /\ drain' = [drain EXCEPT !.at = "between"]
  /\ UNCHANGED <<attempt, part, cleanup, lecture>>

Unsent(r) == {k \in Streams : part[r][k] \notin {"none", "uploaded"}}

(* The next part, if its file is there; else the job is dead at once.      *)
SendPart(r, k, there) ==
  /\ drain.job = r /\ drain.at = "between" /\ k \in Unsent(r)
  /\ IF there
       THEN /\ part' = [part EXCEPT ![r][k] = "uploading"]
            /\ drain' = [drain EXCEPT !.at = "sending", !.key = k, !.done = FALSE]
            /\ UNCHANGED job
       ELSE /\ part' = [part EXCEPT ![r][k] = "missing"]
            /\ drain' = AtRest
            /\ Job(r, "dead-letter")
  /\ UNCHANGED <<attempt, remote, cleanup, lecture>>

AnswerSent(r) ==
  /\ drain.job = r /\ drain.at = "sending" /\ drain.done
  /\ part' = [part EXCEPT ![r][drain.key] = "uploaded"]
  /\ drain' = [drain EXCEPT !.at = "between"]
  /\ UNCHANGED <<jobVars, lecture>>

MarkCompleting(r) ==
  /\ drain.job = r /\ drain.at = "between" /\ Unsent(r) = {}
  /\ Job(r, "completing")
  /\ Await("completing")
  /\ UNCHANGED <<attempt, part, remote, cleanup, lecture>>

(* A completion that does not wait for the server. *)
MarkDoneUnawaited(r) ==
  /\ drain.job = r /\ drain.at = "completing"
  /\ Job(r, "done")
  /\ drain' = AtRest
  /\ UNCHANGED <<attempt, part, remote, cleanup, lecture>>

MarkDone(r) ==
  /\ drain.job = r /\ drain.at = "completing" /\ drain.done
  /\ Job(r, "done")
  /\ drain' = AtRest
  /\ UNCHANGED <<attempt, part, remote, cleanup, lecture>>

Reset(parts) == [k \in Streams |-> IF parts[k] = "uploading" THEN "pending" ELSE parts[k]]

(* A limit compared with the attempts before this one. *)
FailOneMore(r) ==
  /\ drain.job = r /\ drain.at \in Calls
  /\ \E class \in FailureClass :
       LET dead == \/ class = "permanent" /\ attempt[r] >= PermanentLimit
                   \/ class = "server" /\ attempt[r] >= ServerLimit
       IN /\ attempt' = [attempt EXCEPT ![r] = IF class = Connectivity THEN @ ELSE @ + 1]
          /\ Job(r, IF dead THEN "dead-letter" ELSE "failed")
  /\ part' = [part EXCEPT ![r] = Reset(@)]
  /\ drain' = AtRest
  /\ UNCHANGED <<remote, cleanup, lecture>>

(* The attempt fails, before or after the server has acted. Connectivity   *)
(* spends no attempt; the state of the row is not looked at.               *)
Fail(r) ==
  /\ drain.job = r /\ drain.at \in Calls
  /\ \E class \in FailureClass :
       LET spent == IF class = Connectivity THEN attempt[r] ELSE attempt[r] + 1
           dead == \/ class = "permanent" /\ spent >= PermanentLimit
                   \/ class = "server" /\ spent >= ServerLimit
       IN /\ attempt' = [attempt EXCEPT ![r] = spent]
          /\ Job(r, IF dead THEN "dead-letter" ELSE "failed")
  /\ part' = [part EXCEPT ![r] = Reset(@)]
  /\ drain' = AtRest
  /\ UNCHANGED <<remote, cleanup, lecture>>

(* A restart that forgets the job whose completion was under way. *)
RecoverUploadingOnly ==
  /\ job' = [r \in Recordings |-> IF job[r] = "uploading" THEN "queued" ELSE job[r]]
  /\ part' = [r \in Recordings |-> Reset(part[r])]
  /\ drain' = AtRest
  /\ UNCHANGED <<attempt, remote, cleanup, lecture>>

(* Restart: recoverInterrupted. *)
RecoverInterrupted ==
  /\ job' = [r \in Recordings |-> IF job[r] \in {"uploading", "completing"} THEN "queued" ELSE job[r]]
  /\ part' = [r \in Recordings |-> Reset(part[r])]
  /\ drain' = AtRest
  /\ UNCHANGED <<attempt, remote, cleanup, lecture>>

UploadTypeOK ==
  /\ job \in [Recordings -> JobState]
  /\ attempt \in [Recordings -> 0..ServerLimit]
  /\ part \in [Recordings -> [Streams -> PartState]]
  /\ remote \in [Recordings -> Lectures \cup {NoLecture}]
  /\ cleanup \in [Recordings -> {"not-needed", "pending", "done"}]
  /\ drain \in [job : Recordings \cup {NoRecording}, at : Calls \cup {"idle", "between"},
                key : Streams \cup {"none"}, made : Lectures \cup {NoLecture}, done : BOOLEAN]
  /\ lecture \in [Lectures -> [of : Recordings \cup {NoRecording},
                               state : {"unused", "open", "complete", "deleted"}, parts : SUBSET Streams]]
=============================================================================
