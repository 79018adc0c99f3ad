--------------------------- MODULE QuestionGeneration ---------------------------
(***************************************************************************)
(* Machine 2b of core-api with the countdown that asks for it (machine     *)
(* 2a): question sets are generated one at a time, with retries, from the  *)
(* part of the transcript since the set before (modules/ai/generation.ts,  *)
(* question-sets.ts); the lecturer discards or sends their drafts, a newer *)
(* set supersedes what is left, and the end of the lecture discards sets   *)
(* (ai/questions.ts, quiz/projector.ts). core-api may restart at any time. *)
(*                                                                         *)
(* Drafts are counted: a draft that is sent or discarded is one less, and  *)
(* how sending works is in QuizPublication. An error thrown by a cycle is  *)
(* left out.                                                               *)
(***************************************************************************)
EXTENDS AiCountdown

CONSTANTS
  Retries,      \* of a call that times out or is not answered
  MaxSets,      \* bound on sets asked for
  MaxCount,     \* bound on questions of a set
  MaxOffset,    \* bound on the length of a transcript
  MaxRestarts   \* bound on restarts of core-api

ASSUME GenerationAssumption ==
  /\ Retries \in Nat \ {0} /\ MaxSets \in Nat /\ MaxCount \in Nat \ {0}
  /\ MaxOffset \in Nat /\ MaxRestarts \in Nat

VARIABLES
  sets,        \* question_sets with their drafts; the newest is worked on; cut:
               \* core-api ended before it looked whether the last was gone
  at,          \* what the generator does for the head of requests
  attempt,     \* of the call to the question service
  endings,     \* sessions whose end the orchestrator has yet to work on
  transcript,  \* the end of the latest transcript segment, by session
  restarts

generator == <<sets, at, attempt>>
vars == <<countdownVars, generator, endings, transcript, restarts>>

TypeOK ==
  /\ CountdownTypeOK
  /\ sets \in Seq([session : Lectures, state : {"generating", "ready", "failed", "reviewed", "discarded"},
                   count : 0..MaxCount, drafts : 0..MaxCount, cut : BOOLEAN,
                   from : 0..MaxOffset, to : 0..MaxOffset])
  /\ at \in {"idle", "asking", "backoff"} /\ attempt \in 0..Retries
  /\ endings \subseteq Lectures
  /\ transcript \in [Lectures -> 0..MaxOffset]
  /\ restarts \in 0..MaxRestarts

Init ==
  /\ CountdownInit
  /\ sets = <<>> /\ at = "idle" /\ attempt = 0
  /\ endings = {}
  /\ transcript = [l \in Lectures |-> 0]
  /\ restarts = 0

Indexes == DOMAIN sets
OfSession(s) == {i \in Indexes : sets[i].session = s}
InState(s, states) == {i \in OfSession(s) : sets[i].state \in states}
Latest(indexes) == CHOOSE i \in indexes : \A j \in indexes : j <= i

----------------------------------------------------------------------------
(* One cycle                                                               *)

(* #computeWindow: from the end of the newest set that is ready.           *)
WindowStart(s) == IF InState(s, {"ready"}) = {} THEN 0 ELSE sets[Latest(InState(s, {"ready"}))].to

Larger(a, b) == IF a > b THEN a ELSE b

(* #handleRequested up to the call                                         *)
StartCycle ==
  /\ requests # <<>> /\ at = "idle"
  /\ LET s == Head(requests)
         from == WindowStart(s) IN
     sets' = Append(sets, [session |-> s, state |-> "generating", count |-> 0, drafts |-> 0,
                           cut |-> FALSE, from |-> from, to |-> Larger(from, transcript[s])])
  /\ at' = "asking" /\ attempt' = 0
  /\ UNCHANGED <<countdownVars, endings, transcript, restarts>>

Finished(outcome) ==
  /\ at' = "idle" /\ attempt' = 0
  /\ requests' = Tail(requests)
  /\ Settled(Head(requests), outcome)
  /\ UNCHANGED <<recording, session, heard, probes, endings, transcript, restarts>>

(* Mutant: an older set stays ready.                                       *)
ReadyBesides(n) ==
  /\ at = "asking"
  /\ sets' = [sets EXCEPT ![Len(sets)].state = "ready", ![Len(sets)].count = n, ![Len(sets)].drafts = n]
  /\ Finished("ready")

(* #persistReady: n questions are valid; sets of the session that were     *)
(* ready are superseded, with their drafts.                                *)
Ready(n) ==
  /\ at = "asking"
  /\ sets' = [i \in Indexes |->
       IF i = Len(sets) THEN [sets[i] EXCEPT !.state = "ready", !.count = n, !.drafts = n]
       ELSE IF i \in InState(Head(requests), {"ready"}) THEN [sets[i] EXCEPT !.state = "discarded", !.drafts = 0]
       ELSE sets[i]]
  /\ Finished("ready")

IsLastAttempt(failure) == attempt >= IF failure = "invalid-payload" THEN 1 ELSE Retries

(* #runWithRetries: the call failed, or no question was valid.             *)
CallFailed(failure) ==
  /\ at = "asking"
  /\ \/ /\ ~IsLastAttempt(failure)
        /\ at' = "backoff"
        /\ UNCHANGED <<countdownVars, sets, attempt, endings, transcript, restarts>>
     \/ /\ IsLastAttempt(failure)
        /\ sets' = [sets EXCEPT ![Len(sets)].state = "failed"]
        /\ Finished(IF failure = "invalid-payload" THEN "failed-retryable" ELSE "failed-exhausted")

Retry ==
  /\ at = "backoff"
  /\ at' = "asking" /\ attempt' = attempt + 1
  /\ UNCHANGED <<countdownVars, sets, endings, transcript, restarts>>

----------------------------------------------------------------------------
(* What becomes of the sets                                                *)

(* A draft is discarded or sent, during the lecture or after it, in a      *)
(* transaction; then, without an await, checkQuestionSetReviewed looks     *)
(* whether it was the last.                                                *)
Disposed(i) ==
  /\ sets[i].drafts > 0
  /\ sets' = [sets EXCEPT ![i].drafts = @ - 1,
                          ![i].state = IF @ = "ready" /\ sets[i].drafts = 1 THEN "reviewed" ELSE @]
  /\ UNCHANGED <<countdownVars, at, attempt, endings, transcript, restarts>>

(* #onSessionEnded of the orchestrator: sets that were not reviewed are    *)
(* discarded; their drafts stay.                                           *)
WorkOnEnd(s) ==
  /\ endings' = endings \ {s}
  /\ sets' = [i \in Indexes |-> IF i \in InState(s, {"ready", "failed"})
                                THEN [sets[i] EXCEPT !.state = "discarded"] ELSE sets[i]]
  /\ UNCHANGED <<countdownVars, at, attempt, transcript, restarts>>

Speak ==
  /\ phase = "recording" /\ transcript[lecture] < MaxOffset
  /\ transcript' = [transcript EXCEPT ![lecture] = @ + 1]
  /\ UNCHANGED <<countdownVars, generator, endings, restarts>>

Restarted ==
  /\ restarts < MaxRestarts /\ restarts' = restarts + 1
  /\ CountdownRestart
  /\ at' = "idle" /\ attempt' = 0 /\ endings' = {}
  /\ UNCHANGED transcript

Restart == Restarted /\ UNCHANGED sets

(* core-api ends between the transaction and checkQuestionSetReviewed.     *)
DisposedAtEnd(i) ==
  /\ sets[i].drafts > 0
  /\ sets' = [sets EXCEPT ![i].drafts = @ - 1, ![i].cut = (sets[i].drafts = 1)]
  /\ Restarted

----------------------------------------------------------------------------
(* A step of the countdown: a lecture that has ended is also heard of by   *)
(* the orchestrator, which queues its work.                                *)
CountdownStep ==
  /\ CountdownNext
  /\ endings' = IF heard' = "ended" /\ heard # "ended" THEN endings \cup {lecture} ELSE endings
  /\ Len(sets) + Len(requests') <= MaxSets + IF at = "idle" THEN 0 ELSE 1
  /\ UNCHANGED <<generator, transcript, restarts>>

Failures == {"unanswered", "invalid-payload"}

Next ==
  \/ CountdownStep
  \/ StartCycle \/ Retry
  \/ \E n \in 1..MaxCount : Ready(n)
  \/ \E failure \in Failures : CallFailed(failure)
  \/ \E i \in Indexes : Disposed(i) \/ DisposedAtEnd(i)
  \/ \E s \in endings : WorkOnEnd(s)
  \/ Speak
  \/ Restart

Spec == Init /\ [][Next]_vars

(* A call is answered or times out, a backoff ends.                        *)
FairSpec ==
  /\ Spec
  /\ WF_vars(StartCycle) /\ WF_vars(Retry)
  /\ WF_vars((\E n \in 1..MaxCount : Ready(n)) \/ (\E failure \in Failures : CallFailed(failure)))

----------------------------------------------------------------------------
(* Properties                                                              *)

Cycles(s) == {i \in DOMAIN requests : requests[i] = s}

(* No session has two cycles at a time, and the countdown waits for a      *)
(* generation exactly while one of its own session is queued or running,   *)
(* across pauses, late probes, ends and restarts.                          *)
GeneratingHasCycle ==
  /\ \A i, j \in DOMAIN requests : requests[i] = requests[j] => i = j
  /\ session # 0 => (countdown = "generating" <=> Cycles(session) # {})
  /\ session = 0 <=> countdown = "unavailable"

(* The lecturer reviews one set of a lecture at a time: one is ready, with *)
(* drafts left unless core-api ended before it looked, and a reviewed one  *)
(* has none (Q-15, Q-16).                                                  *)
OneReady ==
  \A i \in Indexes :
    /\ sets[i].state = "ready" => /\ sets[i].drafts > 0 \/ sets[i].cut
                                  /\ InState(sets[i].session, {"ready"}) = {i}
    /\ sets[i].state = "reviewed" => sets[i].drafts = 0

(* A degraded countdown is being probed and the lecturer is told (Q-05,    *)
(* Q-06); nothing is probed when there is no countdown.                    *)
DegradedIsProbed ==
  /\ countdown = "degraded" => probing /\ alert
  /\ countdown = "unavailable" => ~probing

(* Every generation settles or is given up with the lecture: the countdown *)
(* does not wait forever, whatever the question service does.              *)
GenerationSettles == (countdown = "generating") ~> (countdown # "generating")

----------------------------------------------------------------------------
(* What the documents say                                                  *)

(* A set is made from the transcript since the set before (Q-11).          *)
WindowsFollow ==
  \A i, j \in Indexes :
    i < j /\ sets[i].session = sets[j].session /\ sets[i].count > 0 => sets[i].to <= sets[j].from

(* Nothing is generated while the recording is paused (Q-07, INV-QS-3).    *)
QuietWhilePaused == [][heard = "paused" => requests' # Append(requests, session)]_vars
================================================================================
