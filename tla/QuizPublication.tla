---------------------------- MODULE QuizPublication ----------------------------
(***************************************************************************)
(* Sending questions to the projector (core-api modules/quiz/projector.ts, *)
(* with the edits of ai/questions.ts and the end of the quiz session in    *)
(* quiz/session.ts). A command is answered at once and its work is queued  *)
(* on one serial executor together with what the command read; the work    *)
(* waits for the quiz service and for the pipeline manager, while further  *)
(* commands, edits and the end of the lecture go on reading and writing    *)
(* the database.                                                           *)
(*                                                                         *)
(* isShowing is written together with the state, true when a publication   *)
(* opens and false when it closes, and is not kept apart. The states of    *)
(* question sets are in QuestionGeneration. Alerts, audit entries and bus  *)
(* messages are left out.                                                  *)
(***************************************************************************)
EXTENDS QuizCloud, FiniteSets

CONSTANTS
  Questions,
  NoQuestion,   \* of a publication not made yet
  MaxJobs,      \* bound on queued work: further commands wait
  LectureOf,    \* the lecture a question was made in
  MaxEvents     \* bound on commands other than sending and on restarts, together

ASSUME QuestionsAssumption == NoQuestion \notin Questions /\ LectureOf \in [Questions -> Lectures]
ASSUME BoundsAssumption == MaxJobs \in Nat \ {0} /\ MaxEvents \in Nat

VARIABLES
  question,    \* questions: state, and the edits made so far
  pub,         \* question_publications: state, question, closeReason, projector
  lecture,     \* number of the last lecture that has begun
  recording,   \* whether it is under way, and with it its quiz session open
  jobs,        \* the serial executor: the head runs, the rest waits
  at,          \* what the head waits for
  tries,       \* publish attempts of the head
  orphaned,    \* whether the head's publish is orphaned
  display,     \* what the pipeline manager projects
  unsure,      \* a projector call took effect and core-api was not told
  commands,    \* commands other than sending so far
  crashes

local == <<question, pub, lecture, recording>>
worker == <<jobs, at, tries, orphaned>>
projector == <<display, unsure>>
bounds == <<commands, crashes>>
traffic == <<awaited, reply, publishes, closes, endings>>
rows == <<sessionOf, cloudSession, cloudPub, closedLate>>
vars == <<local, worker, projector, bounds, cloud>>

Slides == 0
Job(kind, on, edition) == [kind |-> kind, on |-> on, edition |-> edition]

TypeOK ==
  /\ question \in [Questions -> [state : {"draft", "sent", "closed", "discarded"}, edition : 0..MaxEvents]]
  /\ pub \in [Publications -> [state : {"none", "publishing", "open", "closed", "failed"},
                               question : Questions \cup {NoQuestion},
                               reason : {"none", "next-question", "lecturer-closed", "session-ended"},
                               projector : {"not-shown", "showing", "withdrawn"}]]
  /\ lecture \in Lectures /\ recording \in BOOLEAN
  /\ \A i \in DOMAIN jobs :
       /\ jobs[i].kind \in {"send", "close", "show", "withdraw", "ended"}
       /\ jobs[i].on \in (IF jobs[i].kind = "ended" THEN Lectures ELSE Publications)
       /\ jobs[i].edition \in 0..MaxEvents
  /\ at \in {"start", "close", "publish", "project"} /\ tries \in 0..2 /\ orphaned \in BOOLEAN
  /\ display \in {Slides} \cup Publications /\ unsure \in BOOLEAN
  /\ commands \in 0..MaxEvents /\ crashes \in 0..MaxEvents
  /\ sessionOf \in [Publications -> Lectures \cup {0}]
  /\ cloudSession \in [Lectures -> {"none", "open", "closed"}]
  /\ cloudPub \in [Publications -> {"none", "open", "closed"}]
  /\ awaited \subseteq Requests /\ endings \subseteq Lectures /\ closedLate \subseteq Publications
  /\ publishes \in [Publications -> Nat] /\ closes \in [Publications -> Nat]
  /\ reply \in {"none", "ok", "refused"}

Init ==
  /\ question = [q \in Questions |-> [state |-> "draft", edition |-> 0]]
  /\ pub = [p \in Publications |-> [state |-> "none", question |-> NoQuestion,
                                reason |-> "none", projector |-> "not-shown"]]
  /\ lecture = 1 /\ recording = TRUE
  /\ jobs = <<>> /\ at = "start" /\ tries = 0 /\ orphaned = FALSE
  /\ display = Slides /\ unsure = FALSE /\ commands = 0 /\ crashes = 0
  /\ CloudInit

InState(s) == {p \in Publications : pub[p].state = s}
Showing == {p \in Publications : pub[p].projector = "showing"}

(* Of the quiz session of a lecture, the one that is open.                 *)
OpenIn(l) == {p \in InState("open") : sessionOf[p] = l}

----------------------------------------------------------------------------
(* Commands                                                                *)

Queued(job) ==
  /\ Len(jobs) < MaxJobs
  /\ jobs' = Append(jobs, job)
  /\ UNCHANGED <<at, tries, orphaned>>

(* A lecture that passes without a send counts as one.                     *)
Unused == {p \in InState("none") : p >= lecture}

Draft(q) == question[q].state = "draft" /\ LectureOf[q] <= lecture

(* Mutant: the lecture may be over.                                        *)
SendAnyTime(q) ==
  /\ Draft(q)
  /\ \E p \in Unused :
     /\ \A r \in Unused : p <= r
     /\ pub' = [pub EXCEPT ![p].state = "publishing", ![p].question = q]
     /\ sessionOf' = [sessionOf EXCEPT ![p] = LectureOf[q]]
     /\ Queued(Job("send", p, question[q].edition))
  /\ UNCHANGED <<question, lecture, recording, projector, bounds>>
  /\ UNCHANGED <<cloudSession, cloudPub, traffic, closedLate>>

(* sendToProjector: a quiz session must be open for the question's         *)
(* lecture; the question stays a draft until it is published.              *)
Send(q) ==
  /\ Draft(q) /\ LectureOf[q] = lecture /\ recording
  /\ \E p \in Unused :
     /\ \A r \in Unused : p <= r
     /\ pub' = [pub EXCEPT ![p].state = "publishing", ![p].question = q]
     /\ sessionOf' = [sessionOf EXCEPT ![p] = LectureOf[q]]
     /\ Queued(Job("send", p, question[q].edition))
  /\ UNCHANGED <<question, lecture, recording, projector, bounds>>
  /\ UNCHANGED <<cloudSession, cloudPub, traffic, closedLate>>

Counted == commands + crashes < MaxEvents /\ commands' = commands + 1 /\ UNCHANGED crashes

Enqueued(job) == Counted /\ Queued(job) /\ UNCHANGED <<local, projector, cloud>>

(* closePublication: any state but open is answered without work.          *)
Close(p) == pub[p].state = "open" /\ Enqueued(Job("close", p, 0))

(* setProjector with a publication, whatever its state and its lecture,    *)
(* and with none.                                                          *)
Show(p) == pub[p].state # "none" /\ Enqueued(Job("show", p, 0))

Withdraw == Enqueued(Job("withdraw", 1, 0))

(* editQuestion: the wording, the options or which of them is correct.     *)
Edit(q) ==
  /\ Draft(q)
  /\ question' = [question EXCEPT ![q].edition = @ + 1]
  /\ Counted
  /\ UNCHANGED <<pub, lecture, recording, worker, projector, cloud>>

(* discardQuestion                                                         *)
Discard(q) ==
  /\ Draft(q)
  /\ question' = [question EXCEPT ![q].state = "discarded"]
  /\ Counted
  /\ UNCHANGED <<pub, lecture, recording, worker, projector, cloud>>

(* recording.state completed or error: the quiz session machine closes its *)
(* row and tells the service, waiting for nothing; the rest is queued.     *)
EndLecture ==
  /\ recording
  /\ recording' = FALSE
  /\ endings' = endings \cup {lecture}
  /\ jobs' = Append(jobs, Job("ended", lecture, 0))
  /\ UNCHANGED <<question, pub, lecture, at, tries, orphaned, projector, bounds>>
  /\ UNCHANGED <<awaited, reply, publishes, closes, rows>>

(* The next lecture: its quiz session has a row when the service answers   *)
(* that it has opened it.                                                  *)
StartLecture ==
  /\ ~recording /\ lecture + 1 \in Lectures
  /\ recording' = TRUE /\ lecture' = lecture + 1
  /\ cloudSession' = [cloudSession EXCEPT ![lecture + 1] = "open"]
  /\ UNCHANGED <<question, pub, worker, projector, bounds>>
  /\ UNCHANGED <<sessionOf, cloudPub, traffic, closedLate>>

----------------------------------------------------------------------------
(* The serial executor                                                     *)

Current == Head(jobs)
Running(kind, where) == jobs # <<>> /\ Current.kind = kind /\ at = where

Done ==
  /\ jobs' = Tail(jobs) /\ at' = "start" /\ tries' = 0 /\ orphaned' = FALSE

Goes(where) == at' = where /\ UNCHANGED <<jobs, tries, orphaned>>

(* #closePublicationRow up to its wait: closed here, then there.           *)
CloseRow(p, reason) ==
  /\ pub' = [pub EXCEPT ![p].state = "closed", ![p].reason = reason]
  /\ question' = [question EXCEPT ![pub[p].question].state = "closed"]
  /\ Ask(Request("close", p, FALSE))
  /\ UNCHANGED <<lecture, recording, rows>>

Publish(without) ==
  /\ Ask(Request("publish", Current.on, without))
  /\ UNCHANGED <<local, rows>>

(* Mutant: the open publication is left for the service to close.          *)
StartSendBeside ==
  /\ Running("send", "start")
  /\ orphaned' \in {FALSE, Current.edition # question[pub[Current.on].question].edition}
  /\ Publish(orphaned')
  /\ at' = "publish" /\ tries' = 1
  /\ UNCHANGED <<jobs, projector, bounds>>

(* #handleSend: the session's open publication is closed before the next.  *)
(* The options are read now, the correct one when the command was: after   *)
(* an edit it may not be one of them.                                      *)
StartSend ==
  /\ Running("send", "start")
  /\ orphaned' \in {FALSE, Current.edition # question[pub[Current.on].question].edition}
  /\ \/ /\ \E p \in OpenIn(sessionOf[Current.on]) : CloseRow(p, "next-question")
        /\ at' = "close" /\ tries' = 0
     \/ /\ OpenIn(sessionOf[Current.on]) = {}
        /\ Publish(orphaned')
        /\ at' = "publish" /\ tries' = 1
  /\ UNCHANGED <<jobs, projector, bounds>>

(* The close was answered or not: errors are only logged.                  *)
SendGoesOn ==
  /\ Running("send", "close")
  /\ Publish(orphaned)
  /\ at' = "publish" /\ tries' = 1
  /\ UNCHANGED <<jobs, orphaned, projector, bounds>>

(* #publishWithRetry: two attempts, refused or not answered in time; then  *)
(* the publication has failed.                                             *)
Retry ==
  /\ Running("send", "publish") /\ reply # "ok" /\ tries < 2
  /\ Publish(orphaned)
  /\ tries' = tries + 1
  /\ UNCHANGED <<jobs, at, orphaned, projector, bounds>>

(* Mutant: the failure is only logged.                                     *)
SendFailsUnmarked ==
  /\ Running("send", "publish") /\ reply # "ok" /\ tries = 2
  /\ GivenUp
  /\ Done
  /\ UNCHANGED <<local, projector, bounds, rows>>

SendFails ==
  /\ Running("send", "publish") /\ reply # "ok" /\ tries = 2
  /\ GivenUp
  /\ pub' = [pub EXCEPT ![Current.on].state = "failed"]
  /\ Done
  /\ UNCHANGED <<question, lecture, recording, projector, bounds, rows>>

(* Accepted: open, the question sent, then the projector.                  *)
Accepted ==
  /\ Running("send", "publish")
  /\ Answered("ok")
  /\ pub' = [pub EXCEPT ![Current.on].state = "open"]
  /\ question' = [question EXCEPT ![pub[Current.on].question].state = "sent"]
  /\ Goes("project")
  /\ UNCHANGED <<lecture, recording, projector, bounds, rows>>

(* closePublication's work: the row as it was read, not looked at again.   *)
StartClose ==
  /\ Running("close", "start")
  /\ CloseRow(Current.on, "lecturer-closed")
  /\ Goes("close")
  /\ UNCHANGED <<projector, bounds>>

CloseDone ==
  /\ Running("close", "close")
  /\ GivenUp
  /\ Done
  /\ UNCHANGED <<local, projector, bounds, rows>>

StartShow ==
  /\ Running("show", "start") \/ Running("withdraw", "start")
  /\ Goes("project")
  /\ UNCHANGED <<local, projector, bounds, cloud>>

(* Mutant: the publication shown before is not withdrawn.                  *)
ProjectsToo(what) ==
  \/ /\ display' = what /\ unsure' = FALSE
     /\ pub' = [p \in Publications |-> IF p = what THEN [pub[p] EXCEPT !.projector = "showing"] ELSE pub[p]]
  \/ UNCHANGED <<display, unsure, pub>>
  \/ display' = what /\ unsure' = TRUE /\ UNCHANGED pub

(* What a call leaves showing: one for a publication takes back the rows   *)
(* of its own quiz session, one for the slides takes back them all.        *)
TakenBack(what) == {p \in Showing \ {what} : what = Slides \/ sessionOf[p] = sessionOf[what]}

(* setProjectorConsumer: done; failed; or done and core-api not told.      *)
Projects(what) ==
  \/ /\ display' = what /\ unsure' = FALSE
     /\ pub' = [p \in Publications |->
          IF p = what THEN [pub[p] EXCEPT !.projector = "showing"]
          ELSE IF p \in TakenBack(what) THEN [pub[p] EXCEPT !.projector = "withdrawn"] ELSE pub[p]]
  \/ UNCHANGED <<display, unsure, pub>>
  \/ display' = what /\ unsure' = TRUE /\ UNCHANGED pub

ShowDone ==
  /\ Running("send", "project") \/ Running("show", "project")
  /\ Projects(Current.on)
  /\ Done
  /\ UNCHANGED <<question, lecture, recording, bounds, cloud>>

WithdrawDone ==
  /\ Running("withdraw", "project")
  /\ Projects(Slides)
  /\ Done
  /\ UNCHANGED <<question, lecture, recording, bounds, cloud>>

(* #onSessionEnded: the projector is withdrawn only with a publication     *)
(* that was open.                                                          *)
EndCloses ==
  /\ Running("ended", "start")
  /\ \E p \in OpenIn(Current.on) : CloseRow(p, "session-ended")
  /\ Goes("close")
  /\ UNCHANGED <<projector, bounds>>

EndClosed ==
  /\ Running("ended", "close")
  /\ GivenUp
  /\ Goes("project")
  /\ UNCHANGED <<local, projector, bounds, rows>>

EndDone ==
  /\ \/ Running("ended", "start") /\ OpenIn(Current.on) = {} /\ UNCHANGED <<pub, projector>>
     \/ Running("ended", "project") /\ Projects(Slides)
  /\ Done
  /\ UNCHANGED <<question, lecture, recording, bounds, cloud>>

(* core-api restarts: the queue is lost, what was asked may be handled, a  *)
(* projector call under way may have taken effect.                         *)
Crash ==
  /\ commands + crashes < MaxEvents
  /\ crashes' = crashes + 1
  /\ jobs' = <<>> /\ at' = "start" /\ tries' = 0 /\ orphaned' = FALSE
  /\ GivenUp
  /\ \/ UNCHANGED projector
     \/ /\ at = "project" /\ unsure' = TRUE
        /\ display' = IF Current.kind \in {"send", "show"} THEN Current.on ELSE Slides
  /\ UNCHANGED <<local, commands, rows>>

Command ==
  \/ \E q \in Questions : Send(q) \/ Edit(q) \/ Discard(q)
  \/ \E p \in Publications : Close(p) \/ Show(p)
  \/ Withdraw
  \/ EndLecture \/ StartLecture

Worker ==
  \/ StartSend \/ SendGoesOn \/ Retry \/ SendFails \/ Accepted
  \/ StartClose \/ CloseDone
  \/ StartShow \/ ShowDone \/ WithdrawDone
  \/ EndCloses \/ EndClosed \/ EndDone

Cloud == CloudStep /\ UNCHANGED <<local, worker, projector, bounds>>

Next == Command \/ Worker \/ Cloud \/ Crash

Spec == Init /\ [][Next]_vars

(* Every wait of the worker ends: publish by its deadline, close by the    *)
(* client's, the projector call by the pipeline manager's.                 *)
FairSpec == Spec /\ WF_vars(Worker)

----------------------------------------------------------------------------
(* Properties                                                              *)

(* At most one publication of a quiz session is open, so at most one of it *)
(* isShowing (INV-QPUB-1, INV-QPUB-2), although closing works from rows    *)
(* read by the command.                                                    *)
OneOpen == \A l \in Lectures : Cardinality(OpenIn(l)) <= 1

Over(l) == l < lecture \/ (l = lecture /\ ~recording)

(* Students can answer a publication that is open here while its lecture   *)
(* runs (DM-9), unless the service has closed it for a publish that had    *)
(* been given up before it: no close is lost on it, none comes too late.   *)
OpenIsAnswerable ==
  \A p \in InState("open") : cloudPub[p] = "open" \/ Over(sessionOf[p]) \/ p \in closedLate

(* What the database says is shown is what the projector shows, unless the *)
(* answer of the last call was lost: nothing with the slides; with a       *)
(* publication, that one and no other of its quiz session.                 *)
ShowingIsDisplayed ==
  ~unsure =>
    IF display = Slides THEN Showing = {}
    ELSE {p \in Showing : sessionOf[p] = sessionOf[display]} = {display}

(* Every question sent is open, failed or closed in the end, unless        *)
(* core-api restarts (sends come to an end, so that it is said of all).    *)
SendSettles == InState("publishing") # {} ~> InState("publishing") = {} \/ crashes > 0

(* No publication of a lecture that is over stays open or goes on being    *)
(* published, unless core-api restarts.                                    *)
LeftBehind == {p \in InState("open") \cup InState("publishing") : Over(sessionOf[p])}
EndClosesAll == LeftBehind # {} ~> LeftBehind = {} \/ crashes > 0

----------------------------------------------------------------------------
(* What the documents say                                                  *)

(* Q-31, Q-32: a publication is closed for the next question when that is  *)
(* accepted; when it fails the previous one stays open.                    *)
ClosedForTheNext ==
  jobs = <<>> => \A p \in Publications :
    pub[p].reason = "next-question" => \E next \in Publications \ {p} : pub[next].state \in {"open", "closed"}

(* INV-Q-4: a question students can answer is not edited.                  *)
LiveIsImmutable ==
  [][\A p \in Publications : cloudPub[p] = "open" /\ pub[p].state # "failed" =>
       question'[pub[p].question].edition = question[pub[p].question].edition]_vars
================================================================================
