------------------------------ MODULE AiCountdown ------------------------------
(***************************************************************************)
(* Machine 2a of core-api (modules/ai/countdown.ts): when to ask for the   *)
(* next set of questions. It follows the recording by the states published *)
(* on the bus, fires a timer while armed, waits for the generation to      *)
(* settle, and probes the LLM endpoint while it is degraded.               *)
(*                                                                         *)
(* The timer runs exactly while the countdown is armed and may fire at any *)
(* time, so the interval, what remains of it and setInterval are left out. *)
(* AI is enabled and the endpoint is provisioned.                          *)
(***************************************************************************)
EXTENDS Naturals, Sequences

CONSTANTS
  MaxLectures,  \* bound on lectures; they are numbered
  MaxProbes     \* bound on probes waiting for their answer

ASSUME CountdownAssumption == MaxLectures \in Nat /\ MaxProbes \in Nat

VARIABLES
  lecture,     \* the newest lecture session, 0 for none
  phase,       \* what its recording is in
  countdown,   \* AiCountdown's record: state,
  session,     \* session, 0 for none,
  heard,       \* and the last recording state it was told
  probing,     \* the probe timer runs
  probes,      \* probes waiting for their answer
  alert,       \* the alert ai.unavailable is active
  requests     \* ai.generation.requested, by session: the serial executor of
               \* the generator, which works on the head

recording == <<lecture, phase>>
probe == <<probing, probes, alert>>
countdownVars == <<recording, countdown, session, heard, probe, requests>>

Lectures == 1..MaxLectures
Phases == {"idle", "recording", "paused", "stopping", "ended"}

CountdownTypeOK ==
  /\ lecture \in 0..MaxLectures /\ phase \in Phases
  /\ countdown \in {"unavailable", "armed", "held", "generating", "degraded"}
  /\ session \in 0..MaxLectures /\ heard \in Phases
  /\ probing \in BOOLEAN /\ probes \in 0..MaxProbes /\ alert \in BOOLEAN
  /\ requests \in Seq(Lectures)

CountdownInit ==
  /\ lecture = 0 /\ phase = "idle"
  /\ countdown = "unavailable" /\ session = 0 /\ heard = "idle"
  /\ probing = FALSE /\ probes = 0 /\ alert = FALSE
  /\ requests = <<>>

----------------------------------------------------------------------------
(* The recording, as far as the countdown hears of it                      *)

(* #onRecordingState: lecture l is in phase p.                             *)
OnRecordingState(l, p) ==
  /\ heard' = p
  /\ \/ /\ p = "recording" /\ (countdown = "unavailable" \/ (countdown = "held" /\ session = l))
        /\ countdown' = "armed" /\ session' = l
        /\ UNCHANGED <<probing, alert>>
     \/ /\ p = "paused" /\ countdown = "armed"
        /\ countdown' = "held"
        /\ UNCHANGED <<session, probing, alert>>
     \/ /\ p = "ended" /\ countdown # "unavailable"
        /\ countdown' = "unavailable" /\ session' = 0
        /\ probing' = FALSE /\ alert' = FALSE
     \/ /\ \/ p = "recording" /\ countdown # "unavailable" /\ ~(countdown = "held" /\ session = l)
           \/ p = "paused" /\ countdown # "armed"
           \/ p = "ended" /\ countdown = "unavailable"
           \/ p = "stopping"
        /\ UNCHANGED <<countdown, session, probing, alert>>
  /\ UNCHANGED <<probes, requests>>

Becomes(p) == phase' = p /\ UNCHANGED lecture /\ OnRecordingState(lecture, p)

StartLecture ==
  /\ phase \in {"idle", "ended"} /\ lecture < MaxLectures
  /\ lecture' = lecture + 1 /\ phase' = "recording"
  /\ OnRecordingState(lecture', "recording")

Pause == phase = "recording" /\ Becomes("paused")
Resume == phase = "paused" /\ Becomes("recording")
Stop == phase \in {"recording", "paused"} /\ Becomes("stopping")
End == phase \in {"recording", "paused", "stopping"} /\ Becomes("ended")

(* After a restart boot recovery publishes the state it finds.             *)
Announce == heard = "idle" /\ phase \in {"recording", "paused", "stopping"} /\ Becomes(phase)

----------------------------------------------------------------------------
(* The cycle                                                               *)

(* #beginGenerating                                                        *)
BeginGenerating ==
  /\ countdown' = "generating"
  /\ requests' = Append(requests, session)
  /\ UNCHANGED <<recording, session, heard, probe>>

(* The timer fires, whatever the recording is in by then.                  *)
Fire == countdown = "armed" /\ BeginGenerating

(* generateNow: at once, or again while degraded; the probe timer and the  *)
(* alert stay.                                                             *)
GenerateNow == heard = "recording" /\ countdown \in {"armed", "degraded"} /\ BeginGenerating

(* Mutant: a report that comes in a pause is ignored.                      *)
SettledWhileRecording(s, outcome) ==
  IF session = s /\ countdown = "generating" /\ heard = "recording"
  THEN /\ countdown' = IF outcome = "failed-exhausted" THEN "degraded" ELSE "armed"
       /\ probing' = (probing \/ outcome = "failed-exhausted")
       /\ alert' = (alert \/ outcome = "failed-exhausted")
  ELSE UNCHANGED <<countdown, probing, alert>>

(* Mutant: probing starts with the alert, which outlives a restart.        *)
SettledProbesOnAlert(s, outcome) ==
  IF session = s /\ countdown = "generating"
  THEN /\ countdown' = IF outcome = "failed-exhausted" THEN "degraded" ELSE "armed"
       /\ probing' = (probing \/ (outcome = "failed-exhausted" /\ ~alert))
       /\ alert' = (alert \/ outcome = "failed-exhausted")
  ELSE UNCHANGED <<countdown, probing, alert>>

(* reportGenerationSettled                                                 *)
Settled(s, outcome) ==
  IF session = s /\ countdown = "generating"
  THEN /\ countdown' = IF outcome = "failed-exhausted" THEN "degraded" ELSE "armed"
       /\ probing' = (probing \/ outcome = "failed-exhausted")
       /\ alert' = (alert \/ outcome = "failed-exhausted")
  ELSE UNCHANGED <<countdown, probing, alert>>

(* #runProbe asks only while degraded,                                     *)
Probe ==
  /\ probing /\ countdown = "degraded" /\ probes < MaxProbes
  /\ probes' = probes + 1
  /\ UNCHANGED <<recording, countdown, session, heard, probing, alert, requests>>

(* Mutant: what the countdown is in when the answer comes is not asked.    *)
AnsweredUnasked(reachable) ==
  /\ probes > 0 /\ probes' = probes - 1
  /\ IF reachable
     THEN countdown' = "armed" /\ probing' = FALSE /\ alert' = FALSE
     ELSE UNCHANGED <<countdown, probing, alert>>
  /\ UNCHANGED <<recording, session, heard, requests>>

(* and looks again when the answer comes.                                  *)
ProbeAnswered(reachable) ==
  /\ probes > 0 /\ probes' = probes - 1
  /\ IF reachable /\ countdown = "degraded"
     THEN countdown' = "armed" /\ probing' = FALSE /\ alert' = FALSE
     ELSE UNCHANGED <<countdown, probing, alert>>
  /\ UNCHANGED <<recording, session, heard, requests>>

----------------------------------------------------------------------------
CountdownNext ==
  \/ StartLecture \/ Pause \/ Resume \/ Stop \/ End \/ Announce
  \/ Fire \/ GenerateNow
  \/ Probe \/ \E reachable \in BOOLEAN : ProbeAnswered(reachable)

(* A new process: only the alert is in the database.                       *)
CountdownRestart ==
  /\ countdown' = "unavailable" /\ session' = 0 /\ heard' = "idle"
  /\ probing' = FALSE /\ probes' = 0 /\ requests' = <<>>
  /\ UNCHANGED <<recording, alert>>
================================================================================
