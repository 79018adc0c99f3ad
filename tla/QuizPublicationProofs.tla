------------------------- MODULE QuizPublicationProofs -------------------------
(***************************************************************************)
(* Proofs about QuizPublication, for any number of questions, commands,    *)
(* publications, lectures and restarts of core-api: at most one            *)
(* publication of a quiz session is open, students can answer it, and what *)
(* is said to be shown is projected.                                       *)
(*                                                                         *)
(* The argument: a send waits in the queue with its publication as the     *)
(* command left it (JobsOK), so the one that is opened finds none open in  *)
(* its session. Requests are handled in any order, so what counts is which *)
(* may still be handled: no close of a publication that is not closed      *)
(* here, no publish of one whose turn has not come, and a publish that is  *)
(* waited for only of the one being published; what closes an open one is  *)
(* then the end of its lecture or a publish given up (Served). And the     *)
(* projector shows what the rows of its session say unless the answer of   *)
(* the last call was lost (Shown).                                         *)
(***************************************************************************)
EXTENDS QuizPublication, FiniteSetTheorems, SequenceTheorems, TLAPS

JobType ==
  [kind : {"send", "close", "show", "withdraw"}, on : Publications, edition : 0..MaxEvents]
    \cup [kind : {"ended"}, on : Lectures, edition : 0..MaxEvents]

Publication == [state : {"none", "publishing", "open", "closed", "failed"},
                question : Questions \cup {NoQuestion},
                reason : {"none", "next-question", "lecturer-closed", "session-ended"},
                projector : {"not-shown", "showing", "withdrawn"}]

QuestionType == [state : {"draft", "sent", "closed", "discarded"}, edition : 0..MaxEvents]

(* TypeOK with the queue typed, and why editions are bounded.              *)
LocalTypes ==
  /\ question \in [Questions -> QuestionType]
  /\ \A q \in Questions : question[q].edition <= commands
  /\ pub \in [Publications -> Publication]
  /\ lecture \in Lectures /\ recording \in BOOLEAN

WorkerTypes ==
  /\ jobs \in Seq(JobType)
  /\ at \in {"start", "close", "publish", "project"} /\ tries \in 0..2 /\ orphaned \in BOOLEAN
  /\ display \in {Slides} \cup Publications /\ unsure \in BOOLEAN
  /\ commands \in 0..MaxEvents /\ crashes \in 0..MaxEvents
  /\ jobs = <<>> => at = "start"

CloudTypes ==
  /\ sessionOf \in [Publications -> Lectures \cup {0}]
  /\ cloudSession \in [Lectures -> {"none", "open", "closed"}]
  /\ cloudPub \in [Publications -> {"none", "open", "closed"}]
  /\ awaited \subseteq Requests /\ endings \subseteq Lectures /\ closedLate \subseteq Publications
  /\ publishes \in [Publications -> Nat] /\ closes \in [Publications -> Nat]
  /\ reply \in {"none", "ok", "refused"}

Types == LocalTypes /\ WorkerTypes /\ CloudTypes

USE DEF Publications, Slides

-----------------------------------------------------------------------------
(* Queues                                                                  *)

LEMMA Extended ==
  ASSUME NEW S, NEW q \in Seq(S), NEW e \in S
  PROVE  /\ Append(q, e) \in Seq(S) /\ Append(q, e) # <<>> /\ Len(Append(q, e)) = Len(q) + 1
         /\ q # <<>> => Head(Append(q, e)) = Head(q)
         /\ q = <<>> => Head(Append(q, e)) = e
         /\ \A i \in 1..Len(q) : Append(q, e)[i] = q[i]
         /\ Append(q, e)[Len(q) + 1] = e
  <1>1. /\ Append(q, e) \in Seq(S) /\ Append(q, e) # <<>> /\ Len(Append(q, e)) = Len(q) + 1
        /\ \A i \in 1..Len(q) : Append(q, e)[i] = q[i]
        /\ Append(q, e)[Len(q) + 1] = e
    BY AppendProperties
  <1>2. Len(q) \in Nat /\ (q # <<>> => Len(q) > 0) /\ (q = <<>> => Len(q) = 0)
    BY EmptySeq, LenProperties
  <1>3. \A s \in Seq(S) : Head(s) = s[1]
    OBVIOUS
  <1> QED  BY <1>1, <1>2, <1>3

LEMMA Shortened ==
  ASSUME NEW S, NEW q \in Seq(S), q # <<>>
  PROVE  /\ Head(q) \in S /\ Head(q) = q[1] /\ Tail(q) \in Seq(S)
         /\ Len(q) \in Nat \ {0} /\ Len(Tail(q)) = Len(q) - 1
         /\ \A i \in 1..Len(Tail(q)) : Tail(q)[i] = q[i + 1]
  <1>1. Head(q) = q[1]
    OBVIOUS
  <1> QED  BY <1>1, HeadTailProperties, EmptySeq

-----------------------------------------------------------------------------
(* Types                                                                   *)

LEMMA Constants ==
  /\ MaxSends \in Nat \ {0} /\ MaxLectures \in Nat \ {0} /\ MaxJobs \in Nat \ {0} /\ MaxEvents \in Nat
  /\ NoQuestion \notin Questions /\ LectureOf \in [Questions -> Lectures]
  /\ 1 \in Publications /\ 1 \in Lectures /\ Lectures \subseteq Nat
  BY SendsAssumption, BoundsAssumption, QuestionsAssumption DEF Lectures

(* A request may still be handled: it is waited for, or was given up.      *)
PublishSent(p) == publishes[p] > 0 \/ \E r \in awaited : r.op = "publish" /\ r.on = p
CloseSent(p) == closes[p] > 0 \/ \E r \in awaited : r.op = "close" /\ r.on = p

(* What was given up had been waited for.                                  *)
LEMMA ShedEffect ==
  ASSUME CloudTypes, Shed
  PROVE  /\ publishes' \in [Publications -> Nat] /\ closes' \in [Publications -> Nat]
         /\ \A p \in Publications : publishes'[p] > 0 => PublishSent(p)
         /\ \A p \in Publications : closes'[p] > 0 => CloseSent(p)
  <1> HIDE DEF Publications
  <1>1. publishes \in [Publications -> Nat] /\ closes \in [Publications -> Nat]
    BY DEF CloudTypes
  <1>2. /\ publishes' = [p \in Publications |-> publishes'[p]]
        /\ closes' = [p \in Publications |-> closes'[p]]
    BY DEF Shed, OneMore
  <1>3. ASSUME NEW p \in Publications
        PROVE  /\ publishes'[p] \in Nat /\ (publishes'[p] > 0 => PublishSent(p))
               /\ closes'[p] \in Nat /\ (closes'[p] > 0 => CloseSent(p))
    <2>1. publishes[p] \in Nat /\ closes[p] \in Nat
      BY <1>1
    <2>2. \/ publishes'[p] = publishes[p]
          \/ publishes'[p] = publishes[p] + 1 /\ Request("publish", p, FALSE) \in awaited
      BY DEF Shed, OneMore
    <2>3. \/ closes'[p] = closes[p]
          \/ closes'[p] = closes[p] + 1 /\ Request("close", p, FALSE) \in awaited
      BY DEF Shed, OneMore
    <2>4. \A op : Request(op, p, FALSE).op = op /\ Request(op, p, FALSE).on = p
      BY DEF Request
    <2>5. publishes'[p] > 0 => PublishSent(p)
      BY <2>1, <2>2, <2>4 DEF PublishSent
    <2>6. closes'[p] > 0 => CloseSent(p)
      BY <2>1, <2>3, <2>4 DEF CloseSent
    <2>0. \A n \in Nat : n + 1 \in Nat
      OBVIOUS
    <2>7. publishes'[p] \in Nat
      BY <2>0, <2>1, <2>2, Zenon
    <2>8. closes'[p] \in Nat
      BY <2>0, <2>1, <2>3, Zenon
    <2> QED  BY <2>5, <2>6, <2>7, <2>8, Zenon
  <1> QED  BY <1>2, <1>3

LEMMA AskEffect ==
  ASSUME CloudTypes, NEW op \in {"publish", "close"}, NEW x \in Publications, NEW o \in BOOLEAN,
         Ask(Request(op, x, o))
  PROVE  /\ awaited' \subseteq Requests /\ reply' = "none" /\ endings' = endings
         /\ publishes' \in [Publications -> Nat] /\ closes' \in [Publications -> Nat]
         /\ \A r \in awaited' : r.op = op /\ r.on = x
         /\ \A p \in Publications : PublishSent(p)' => PublishSent(p) \/ (op = "publish" /\ p = x)
         /\ \A p \in Publications : CloseSent(p)' => CloseSent(p) \/ (op = "close" /\ p = x)
  <1>1. awaited' = {Request(op, x, o)} /\ reply' = "none" /\ endings' = endings /\ Shed
    BY DEF Ask
  <1>2. Request(op, x, o) \in Requests /\ Request(op, x, o).op = op /\ Request(op, x, o).on = x
    BY DEF Request, Requests
  <1> QED  BY <1>1, <1>2, ShedEffect DEF PublishSent, CloseSent

LEMMA GivenUpEffect ==
  ASSUME CloudTypes, GivenUp
  PROVE  /\ awaited' = {} /\ reply' = "none" /\ endings' = endings
         /\ publishes' \in [Publications -> Nat] /\ closes' \in [Publications -> Nat]
         /\ \A p \in Publications : (PublishSent(p)' => PublishSent(p)) /\ (CloseSent(p)' => CloseSent(p))
  BY ShedEffect DEF GivenUp, PublishSent, CloseSent

LEMMA CurrentType ==
  ASSUME WorkerTypes, jobs # <<>>
  PROVE  /\ Current \in JobType /\ Tail(jobs) \in Seq(JobType)
         /\ Current.kind # "ended" => Current.on \in Publications
         /\ Current.kind = "ended" => Current.on \in Lectures
  <1>1. Current \in JobType /\ Tail(jobs) \in Seq(JobType)
    BY Shortened DEF WorkerTypes, Current
  <1> QED  BY <1>1 DEF JobType

LEMMA StartsEmpty ==
  ASSUME WorkerTypes, at # "start"
  PROVE  jobs # <<>>
  BY DEF WorkerTypes

(* A publication that closes, opens, fails or is made keeps its record's   *)
(* shape, and so does its question.                                        *)
LEMMA PubChange ==
  ASSUME LocalTypes, NEW p \in Publications,
         NEW s \in {"none", "publishing", "open", "closed", "failed"},
         pub' = [pub EXCEPT ![p].state = s]
  PROVE  /\ pub' \in [Publications -> Publication]
         /\ pub'[p].state = s /\ pub'[p].question = pub[p].question /\ pub'[p].projector = pub[p].projector
         /\ \A x \in Publications : x # p => pub'[x] = pub[x]
  <1>1. \A r \in Publication : LET new == [r EXCEPT !.state = s] IN
          new \in Publication /\ new.state = s /\ new.question = r.question /\ new.projector = r.projector
    BY DEF Publication
  <1>2. pub \in [Publications -> Publication] /\ pub' = [pub EXCEPT ![p] = [pub[p] EXCEPT !.state = s]]
    BY DEF LocalTypes
  <1> HIDE DEF Publications
  <1> QED  BY <1>1, <1>2

LEMMA QuestionChange ==
  ASSUME LocalTypes, NEW q, NEW s \in {"draft", "sent", "closed", "discarded"},
         question' = [question EXCEPT ![q].state = s]
  PROVE  /\ question' \in [Questions -> QuestionType]
         /\ \A x \in Questions : question'[x].edition = question[x].edition
  <1>1. \A r \in QuestionType : LET new == [r EXCEPT !.state = s] IN
          new \in QuestionType /\ new.edition = r.edition
    BY DEF QuestionType
  <1>2. question \in [Questions -> QuestionType]
    BY DEF LocalTypes
  <1>3. CASE q \in Questions
    <2>1. question' = [question EXCEPT ![q] = [question[q] EXCEPT !.state = s]]
      OBVIOUS
    <2> QED  BY <1>1, <1>2, <1>3, <2>1
  <1>4. CASE q \notin Questions
    <2>1. question' = question
      BY <1>2, <1>4
    <2> QED  BY <1>2, <2>1
  <1> QED  BY <1>3, <1>4

LEMMA CloseRowEffect ==
  ASSUME Types, NEW p \in Publications, NEW r \in {"next-question", "lecturer-closed", "session-ended"},
         CloseRow(p, r)
  PROVE  /\ pub' \in [Publications -> Publication]
         /\ pub'[p].state = "closed" /\ pub'[p].projector = pub[p].projector
         /\ \A x \in Publications : x # p => pub'[x] = pub[x]
         /\ question' \in [Questions -> QuestionType]
         /\ \A x \in Questions : question'[x].edition = question[x].edition
         /\ UNCHANGED <<lecture, recording, sessionOf, cloudSession, cloudPub, closedLate>>
         /\ Ask(Request("close", p, FALSE))
  <1>1. \A row \in Publication : LET new == [row EXCEPT !.state = "closed", !.reason = r] IN
          new \in Publication /\ new.state = "closed" /\ new.projector = row.projector
    BY DEF Publication
  <1>2. pub \in [Publications -> Publication]
        /\ pub' = [pub EXCEPT ![p] = [pub[p] EXCEPT !.state = "closed", !.reason = r]]
    BY DEF Types, LocalTypes, CloseRow
  <1>3. /\ pub' \in [Publications -> Publication]
        /\ pub'[p].state = "closed" /\ pub'[p].projector = pub[p].projector
        /\ \A x \in Publications : x # p => pub'[x] = pub[x]
    <2> HIDE DEF Publications
    <2> QED  BY <1>1, <1>2
  <1>4. question' \in [Questions -> QuestionType] /\ \A x \in Questions : question'[x].edition = question[x].edition
    BY QuestionChange DEF Types, CloseRow
  <1> QED  BY <1>3, <1>4 DEF CloseRow, rows

LEMMA ProjectsEffect ==
  ASSUME LocalTypes, NEW what, Projects(what)
  PROVE  /\ pub' \in [Publications -> Publication]
         /\ \A p \in Publications : pub'[p].state = pub[p].state
         /\ \/ UNCHANGED <<pub, display, unsure>>
            \/ unsure' = TRUE /\ display' = what /\ UNCHANGED pub
            \/ /\ unsure' = FALSE /\ display' = what
               /\ \A p \in Publications :
                    pub'[p].projector = IF p = what THEN "showing"
                                        ELSE IF p \in TakenBack(what) THEN "withdrawn" ELSE pub[p].projector
  <1>1. pub \in [Publications -> Publication] /\ \A p \in Publications : pub[p] \in Publication
    BY DEF LocalTypes
  <1>2. CASE UNCHANGED pub /\ (UNCHANGED <<display, unsure>> \/ (unsure' = TRUE /\ display' = what))
    BY <1>1, <1>2
  <1>3. CASE /\ display' = what /\ unsure' = FALSE
             /\ pub' = [p \in Publications |->
                  IF p = what THEN [pub[p] EXCEPT !.projector = "showing"]
                  ELSE IF p \in TakenBack(what) THEN [pub[p] EXCEPT !.projector = "withdrawn"] ELSE pub[p]]
    <2>1. \A row \in Publication, x \in {"showing", "withdrawn"} : LET new == [row EXCEPT !.projector = x] IN
            new \in Publication /\ new.state = row.state /\ new.projector = x
      BY DEF Publication
    <2> HIDE DEF Publications
    <2>2. ASSUME NEW p \in Publications
          PROVE  /\ pub'[p] \in Publication /\ pub'[p].state = pub[p].state
                 /\ pub'[p].projector = IF p = what THEN "showing"
                                        ELSE IF p \in TakenBack(what) THEN "withdrawn" ELSE pub[p].projector
      <3>1. CASE p = what
        BY <1>1, <1>3, <2>1, <3>1
      <3>2. CASE p # what /\ p \in TakenBack(what)
        BY <1>1, <1>3, <2>1, <3>2
      <3>3. CASE p # what /\ p \notin TakenBack(what)
        BY <1>1, <1>3, <3>3
      <3> QED  BY <3>1, <3>2, <3>3
    <2>3. pub' \in [Publications -> Publication]
      BY <1>3, <2>2
    <2> QED  BY <1>3, <2>2, <2>3
  <1> QED  BY <1>2, <1>3 DEF Projects

(* The types of a step in three groups: the rows, the executor and its     *)
(* bounds, the service.                                                    *)
LEMMA LocalStep ==
  ASSUME Types, Next
  PROVE  LocalTypes'
  <1> USE Constants DEF Types, bounds, worker, projector, cloud, local
  <1>0. /\ question \in [Questions -> QuestionType] /\ \A x \in Questions : question[x].edition <= commands
        /\ lecture \in Lectures /\ recording \in BOOLEAN
        /\ pub \in [Publications -> Publication] /\ commands \in 0..MaxEvents /\ crashes \in Nat
        /\ \A x \in Publications : pub[x] \in Publication
    BY DEF LocalTypes, WorkerTypes
  <1> HIDE DEF Publications
  <1>1. ASSUME NEW q \in Questions, Send(q) PROVE LocalTypes'
    <2>1. PICK p \in Publications : pub' = [pub EXCEPT ![p].state = "publishing", ![p].question = q]
      BY <1>1 DEF Send, Unused, InState
    <2>2. \A row \in Publication : [row EXCEPT !.state = "publishing", !.question = q] \in Publication
      BY DEF Publication
    <2>3. pub' = [pub EXCEPT ![p] = [pub[p] EXCEPT !.state = "publishing", !.question = q]]
      BY <2>1
    <2>4. pub' \in [Publications -> Publication]
      BY <1>0, <2>2, <2>3
    <2>5. UNCHANGED <<question, lecture, recording, commands>>
      BY <1>1 DEF Send
    <2> QED  BY <1>0, <2>4, <2>5 DEF LocalTypes
  <1>2. ASSUME NEW q \in Questions, Edit(q) PROVE LocalTypes'
    <2>1. commands' = commands + 1 /\ commands' \in 0..MaxEvents /\ question' = [question EXCEPT ![q].edition = @ + 1]
          /\ UNCHANGED <<pub, lecture, recording>>
      BY <1>0, <1>2 DEF Edit, Counted
    <2>2. \A row \in QuestionType : row.edition <= commands =>
            LET new == [row EXCEPT !.edition = row.edition + 1] IN
            row.edition \in Nat /\ new \in QuestionType /\ new.edition = row.edition + 1
      BY <1>0, <2>1 DEF QuestionType
    <2>3. question' = [question EXCEPT ![q] = [question[q] EXCEPT !.edition = question[q].edition + 1]]
      BY <2>1
    <2>4. question' \in [Questions -> QuestionType]
      BY <1>0, <2>2, <2>3
    <2>5. \A x \in Questions : question'[x].edition <= commands'
      <3> SUFFICES ASSUME NEW x \in Questions PROVE question'[x].edition <= commands'
        OBVIOUS
      <3>1. question[x].edition \in Nat /\ question[x].edition <= commands
        BY <1>0, <2>2
      <3>2. CASE x = q
        BY <1>0, <2>1, <2>2, <2>3, <3>1, <3>2
      <3>3. CASE x # q
        BY <1>0, <2>1, <2>3, <3>1, <3>3
      <3> QED  BY <3>2, <3>3
    <2> QED  BY <1>0, <2>1, <2>4, <2>5 DEF LocalTypes
  <1>3. ASSUME NEW q \in Questions, Discard(q) PROVE LocalTypes'
    <2>1. question' = [question EXCEPT ![q].state = "discarded"]
          /\ commands' = commands + 1 /\ UNCHANGED <<pub, lecture, recording>>
      BY <1>3 DEF Discard, Counted
    <2>2. question' \in [Questions -> QuestionType] /\ \A x \in Questions : question'[x].edition = question[x].edition
      BY <2>1, QuestionChange
    <2>3. \A x \in Questions : question[x].edition \in Nat
      BY <1>0 DEF QuestionType
    <2> QED  BY <1>0, <2>1, <2>2, <2>3 DEF LocalTypes
  <1>4. ASSUME NEW p \in Publications, NEW r \in {"next-question", "lecturer-closed", "session-ended"},
               CloseRow(p, r), UNCHANGED commands
        PROVE  LocalTypes'
    BY <1>0, <1>4, CloseRowEffect DEF LocalTypes
  <1>5. ASSUME UNCHANGED <<question, lecture, recording>>, commands' \in {commands, commands + 1},
               pub' \in [Publications -> Publication]
        PROVE  LocalTypes'
    <2>1. \A x \in Questions : question[x].edition \in Nat /\ question[x].edition <= commands
      BY <1>0 DEF QuestionType
    <2> QED  BY <1>0, <1>5, <2>1 DEF LocalTypes
  <1>6. ASSUME StartSend PROVE LocalTypes'
    BY <1>0, <1>4, <1>5, <1>6 DEF StartSend, Publish, OpenIn, InState
  <1>7. ASSUME StartClose PROVE LocalTypes'
    <2>1. Current.on \in Publications
      BY <1>7, CurrentType DEF StartClose, Running
    <2> QED  BY <1>4, <1>7, <2>1 DEF StartClose
  <1>8. ASSUME EndCloses PROVE LocalTypes'
    BY <1>4, <1>8 DEF EndCloses, OpenIn, InState
  <1>9. ASSUME SendFails PROVE LocalTypes'
    <2>1. Current.on \in Publications
      BY <1>9, CurrentType DEF SendFails, Running
    <2>2. pub' \in [Publications -> Publication]
      BY <1>9, <2>1, PubChange DEF SendFails
    <2> QED  BY <1>5, <1>9, <2>2 DEF SendFails
  <1>10. ASSUME Accepted PROVE LocalTypes'
    <2>1. Current.on \in Publications
      BY <1>10, CurrentType DEF Accepted, Running
    <2>2. pub' \in [Publications -> Publication]
      BY <1>10, <2>1, PubChange DEF Accepted
    <2>3. question' \in [Questions -> QuestionType] /\ \A x \in Questions : question'[x].edition = question[x].edition
      BY <1>10, QuestionChange DEF Accepted
    <2> QED  BY <1>0, <1>10, <2>2, <2>3 DEF Accepted, LocalTypes
  <1>11. ASSUME NEW what, Projects(what) PROVE pub' \in [Publications -> Publication]
    BY <1>0, <1>11, ProjectsEffect
  <1>12. ASSUME ShowDone \/ WithdrawDone PROVE LocalTypes'
    BY <1>5, <1>11, <1>12 DEF ShowDone, WithdrawDone
  <1>13. ASSUME EndDone PROVE LocalTypes'
    <2>1. pub' \in [Publications -> Publication] /\ UNCHANGED <<question, lecture, recording, commands>>
      BY <1>0, <1>11, <1>13 DEF EndDone
    <2> QED  BY <1>0, <2>1 DEF LocalTypes
  <1>14. ASSUME EndLecture \/ StartLecture PROVE LocalTypes'
    <2>1. UNCHANGED <<question, pub, commands>>
      BY <1>14 DEF EndLecture, StartLecture
    <2>2. lecture' \in Lectures /\ recording' \in BOOLEAN
      BY <1>0, <1>14 DEF EndLecture, StartLecture
    <2> QED  BY <1>0, <2>1, <2>2 DEF LocalTypes
  <1>15. ASSUME \/ \E p \in Publications : Close(p) \/ Show(p)
                \/ Withdraw \/ SendGoesOn \/ Retry \/ CloseDone \/ StartShow \/ EndClosed \/ Cloud \/ Crash
         PROVE  LocalTypes'
    <2>1. UNCHANGED <<question, lecture, recording, pub>> /\ commands' \in {commands, commands + 1}
      BY <1>15 DEF Close, Show, Withdraw, Enqueued, Counted, SendGoesOn, Retry, Publish, CloseDone, StartShow,
                   EndClosed, Cloud, Crash
    <2> QED  BY <1>0, <1>5, <2>1
  <1> QED
    BY <1>1, <1>2, <1>3, <1>6, <1>7, <1>8, <1>9, <1>10, <1>12, <1>13, <1>14, <1>15 DEF Next, Command, Worker

LEMMA WorkerStep ==
  ASSUME Types, Next
  PROVE  WorkerTypes'
  <1> USE Constants DEF Types, bounds, worker, projector, cloud, local
  <1>0. /\ jobs \in Seq(JobType) /\ at \in {"start", "close", "publish", "project"} /\ tries \in 0..2
        /\ orphaned \in BOOLEAN /\ display \in {Slides} \cup Publications /\ unsure \in BOOLEAN
        /\ commands \in 0..MaxEvents /\ crashes \in 0..MaxEvents
        /\ jobs = <<>> => at = "start"
    BY DEF WorkerTypes
  <1> HIDE DEF Publications, Slides
  <1>1. ASSUME NEW job \in JobType, Queued(job), UNCHANGED projector,
               Counted \/ UNCHANGED bounds
        PROVE  WorkerTypes'
    <2>1. jobs' \in Seq(JobType) /\ jobs' # <<>> /\ UNCHANGED <<at, tries, orphaned>>
      BY <1>0, <1>1, Extended DEF Queued
    <2>2. commands' \in 0..MaxEvents /\ crashes' = crashes
      BY <1>0, <1>1 DEF Counted
    <2> QED  BY <1>0, <1>1, <2>1, <2>2 DEF WorkerTypes
  <1>2. ASSUME NEW k \in {"send", "close", "show", "withdraw"}, NEW p \in Publications, NEW e \in 0..MaxEvents
        PROVE  Job(k, p, e) \in JobType
    BY DEF Job, JobType
  <1>3. ASSUME NEW q \in Questions, Send(q) PROVE WorkerTypes'
    <2>1. PICK p \in Publications : Queued(Job("send", p, question[q].edition))
      BY <1>3 DEF Send, Unused, InState
    <2>2. question[q].edition \in 0..MaxEvents
      BY DEF LocalTypes, QuestionType
    <2> QED  BY <1>1, <1>2, <1>3, <2>1, <2>2 DEF Send
  <1>4. ASSUME NEW p \in Publications, Close(p) \/ Show(p) \/ Withdraw PROVE WorkerTypes'
    <2>1. 0 \in 0..MaxEvents
      OBVIOUS
    <2> QED  BY <1>1, <1>2, <1>4, <2>1 DEF Close, Show, Withdraw, Enqueued
  <1>5. ASSUME NEW q \in Questions, Edit(q) \/ Discard(q) PROVE WorkerTypes'
    BY <1>0, <1>5 DEF Edit, Discard, Counted, WorkerTypes
  <1>6. ASSUME EndLecture PROVE WorkerTypes'
    <2>1. Job("ended", lecture, 0) \in JobType
      BY DEF Job, JobType, LocalTypes
    <2> QED  BY <1>0, <1>6, <2>1, Extended DEF EndLecture, WorkerTypes
  <1>7. ASSUME jobs # <<>>, Done PROVE jobs' \in Seq(JobType) /\ at' = "start" /\ tries' = 0 /\ orphaned' \in BOOLEAN
    <2>1. jobs' \in Seq(JobType) /\ at' = "start" /\ tries' = 0
      BY <1>7, CurrentType DEF Done
    <2>2. orphaned' \in BOOLEAN
      BY <1>7, Zenon DEF Done
    <2> QED  BY <2>1, <2>2
  <1>8. ASSUME SendFails \/ CloseDone PROVE WorkerTypes'
    <2>1. jobs # <<>> /\ Done /\ UNCHANGED <<display, unsure, commands, crashes>>
      BY <1>8 DEF SendFails, CloseDone, Running
    <2> QED  BY <1>0, <1>7, <2>1 DEF WorkerTypes
  <1>9. ASSUME StartSend PROVE WorkerTypes'
    <2>1. jobs' = jobs /\ jobs # <<>> /\ at' \in {"close", "publish"} /\ tries' \in {0, 1} /\ orphaned' \in BOOLEAN
          /\ UNCHANGED <<display, unsure, commands, crashes>>
      BY <1>9 DEF StartSend, Running
    <2> QED  BY <1>0, <2>1 DEF WorkerTypes
  <1>10. ASSUME SendGoesOn \/ Retry PROVE WorkerTypes'
    BY <1>0, <1>10 DEF SendGoesOn, Retry, Running, WorkerTypes
  <1>11. ASSUME Accepted \/ StartClose \/ StartShow \/ EndCloses \/ EndClosed PROVE WorkerTypes'
    BY <1>0, <1>11 DEF Accepted, StartClose, StartShow, EndCloses, EndClosed, Goes, Running, WorkerTypes
  <1>12. ASSUME NEW what \in {Slides} \cup Publications, Projects(what)
         PROVE  display' \in {Slides} \cup Publications /\ unsure' \in BOOLEAN
    BY <1>0, <1>12 DEF Projects
  <1>13. ASSUME ShowDone \/ WithdrawDone PROVE WorkerTypes'
    <2>1. jobs # <<>>
      BY <1>13 DEF ShowDone, WithdrawDone, Running
    <2>2. ShowDone => Current.on \in {Slides} \cup Publications
      BY <2>1, CurrentType DEF ShowDone, Running
    <2>3. display' \in {Slides} \cup Publications /\ unsure' \in BOOLEAN
      BY <1>12, <1>13, <2>2 DEF ShowDone, WithdrawDone
    <2>4. jobs' \in Seq(JobType) /\ at' = "start" /\ tries' = 0 /\ orphaned' \in BOOLEAN
      BY <1>7, <1>13, <2>1 DEF ShowDone, WithdrawDone
    <2>5. UNCHANGED <<commands, crashes>>
      BY <1>13 DEF ShowDone, WithdrawDone
    <2>6. at' \in {"start", "close", "publish", "project"} /\ tries' \in 0..2 /\ orphaned' \in BOOLEAN
          /\ commands' \in 0..MaxEvents /\ crashes' \in 0..MaxEvents /\ (jobs' = <<>> => at' = "start")
      BY <1>0, <2>4, <2>5
    <2> QED  BY <2>3, <2>4, <2>6, Zenon DEF WorkerTypes
  <1>14. ASSUME EndDone PROVE WorkerTypes'
    <2>1. jobs # <<>>
      BY <1>14 DEF EndDone, Running
    <2>2. display' \in {Slides} \cup Publications /\ unsure' \in BOOLEAN
      BY <1>0, <1>12, <1>14 DEF EndDone
    <2> QED  BY <1>0, <1>7, <1>14, <2>1, <2>2 DEF EndDone, WorkerTypes
  <1>15. ASSUME Crash PROVE WorkerTypes'
    <2>1. <<>> \in Seq(JobType)
      BY EmptySeq
    <2>2. display' \in {Slides} \cup Publications /\ unsure' \in BOOLEAN
      <3>1. ASSUME at = "project", Current.kind \in {"send", "show"} PROVE Current.on \in Publications
        BY <3>1, CurrentType, StartsEmpty
      <3> QED  BY <1>0, <1>15, <3>1 DEF Crash
    <2>3. crashes' \in 0..MaxEvents /\ commands' = commands /\ jobs' = <<>> /\ at' = "start" /\ tries' = 0
      BY <1>0, <1>15 DEF Crash
    <2>5. orphaned' \in BOOLEAN
      BY <1>15, Zenon DEF Crash
    <2>4. at' \in {"start", "close", "publish", "project"} /\ tries' \in 0..2 /\ orphaned' \in BOOLEAN
          /\ commands' \in 0..MaxEvents /\ jobs' \in Seq(JobType) /\ (jobs' = <<>> => at' = "start")
      BY <1>0, <2>1, <2>3, <2>5
    <2> QED  BY <2>2, <2>3, <2>4, Zenon DEF WorkerTypes
  <1>16. ASSUME Cloud \/ StartLecture PROVE WorkerTypes'
    BY <1>0, <1>16 DEF Cloud, StartLecture, WorkerTypes
  <1> QED
    BY <1>3, <1>4, <1>5, <1>6, <1>8, <1>9, <1>10, <1>11, <1>13, <1>14, <1>15, <1>16, 1 \in Publications
       DEF Next, Command, Worker

LEMMA CloudStepTypes ==
  ASSUME Types, CloudStep
  PROVE  CloudTypes'
  <1> USE Constants
  <1> HIDE DEF Publications
  <1>0. CloudTypes
    BY DEF Types
  <1>1. \A l, p : ClosedBut(l, p) \in [Publications -> {"none", "open", "closed"}]
    BY <1>0 DEF ClosedBut, CloudTypes
  <1>2. ASSUME NEW sent \in [Publications -> Nat], NEW p \in Publications, sent[p] > 0
        PROVE  [sent EXCEPT ![p] = @ - 1] \in [Publications -> Nat]
    <2>1. sent[p] - 1 \in Nat
      BY <1>2
    <2> QED  BY <2>1
  <1>3. ASSUME NEW p \in Publications, HandlePublish(p) PROVE CloudTypes'
    <2>1. cloudPub' \in [Publications -> {"none", "open", "closed"}]
      <3>1. CASE cloudPub' = cloudPub
        BY <1>0, <3>1 DEF CloudTypes
      <3>2. CASE cloudPub' = [ClosedBut(sessionOf[p], p) EXCEPT ![p] = IF @ = "none" THEN "open" ELSE @]
        BY <1>1, <3>2
      <3> QED  BY <1>3, <3>1, <3>2 DEF HandlePublish
    <2>2. CASE Heard(Request("publish", p, FALSE), IF cloudSession[sessionOf[p]] = "open" THEN "ok" ELSE "refused")
               /\ UNCHANGED closedLate
      <3>1. reply' \in {"none", "ok", "refused"} /\ awaited' = {} /\ UNCHANGED <<publishes, closes, closedLate>>
        BY <2>2 DEF Heard
      <3> QED  BY <1>0, <1>3, <2>1, <3>1 DEF HandlePublish, CloudTypes
    <2>3. CASE OneLess(publishes, p) /\ closedLate' = closedLate \cup Closed /\ UNCHANGED closes
      <3>1. publishes' \in [Publications -> Nat] /\ UNCHANGED <<awaited, reply, closes>>
        BY <1>0, <1>2, <2>3 DEF OneLess, CloudTypes
      <3>2. closedLate' \subseteq Publications
        BY <1>0, <2>3 DEF Closed, CloudTypes
      <3> QED  BY <1>0, <1>3, <2>1, <3>1, <3>2 DEF HandlePublish, CloudTypes
    <2> QED  BY <1>3, <2>2, <2>3 DEF HandlePublish
  <1>4. ASSUME NEW p \in Publications, RefuseOrphaned(p) PROVE CloudTypes'
    BY <1>0, <1>4 DEF RefuseOrphaned, Heard, CloudTypes
  <1>5. ASSUME NEW p \in Publications, HandleClose(p) PROVE CloudTypes'
    <2>1. cloudPub' \in [Publications -> {"none", "open", "closed"}]
      BY <1>0, <1>5 DEF HandleClose, CloudTypes
    <2>2. CASE Heard(Request("close", p, FALSE), "ok")
      BY <1>0, <1>5, <2>1, <2>2 DEF HandleClose, Heard, CloudTypes
    <2>3. CASE OneLess(closes, p) /\ UNCHANGED publishes
      <3>1. closes' \in [Publications -> Nat] /\ UNCHANGED <<awaited, reply, publishes>>
        BY <1>0, <1>2, <2>3 DEF OneLess, CloudTypes
      <3> QED  BY <1>0, <1>5, <2>1, <3>1 DEF HandleClose, CloudTypes
    <2> QED  BY <1>5, <2>2, <2>3 DEF HandleClose
  <1>6. ASSUME NEW l \in Lectures, HandleCloseSession(l) PROVE CloudTypes'
    BY <1>0, <1>1, <1>6 DEF HandleCloseSession, CloudTypes
  <1> QED  BY <1>3, <1>4, <1>5, <1>6 DEF CloudStep

LEMMA RequestTypes ==
  ASSUME Types, Next
  PROVE  CloudTypes'
  <1> USE Constants DEF Types, bounds, worker, projector, cloud, local
  <1>1. ASSUME awaited' \subseteq Requests, reply' \in {"none", "ok", "refused"}, endings' \subseteq Lectures,
               publishes' \in [Publications -> Nat], closes' \in [Publications -> Nat],
               UNCHANGED <<sessionOf, cloudSession, cloudPub, closedLate>>
        PROVE  CloudTypes'
    BY <1>1 DEF CloudTypes
  <1>2. ASSUME NEW op \in {"publish", "close"}, NEW p \in Publications, NEW o \in BOOLEAN, Ask(Request(op, p, o)),
               UNCHANGED <<sessionOf, cloudSession, cloudPub, closedLate>>
        PROVE  CloudTypes'
    BY <1>1, <1>2, AskEffect DEF CloudTypes
  <1>3. ASSUME NEW p \in Publications, NEW r \in {"next-question", "lecturer-closed", "session-ended"}, CloseRow(p, r)
        PROVE  CloudTypes'
    BY <1>2, <1>3, CloseRowEffect
  <1>4. ASSUME jobs # <<>>, Current.kind = "send", NEW o \in BOOLEAN, Publish(o) PROVE CloudTypes'
    BY <1>2, <1>4, CurrentType DEF Publish, rows
  <1>5. ASSUME StartSend PROVE CloudTypes'
    <2>1. jobs # <<>> /\ Current.kind = "send" /\ orphaned' \in BOOLEAN
      BY <1>5 DEF StartSend, Running
    <2> QED  BY <1>3, <1>4, <1>5, <2>1 DEF StartSend, OpenIn, InState
  <1>6. ASSUME SendGoesOn \/ Retry PROVE CloudTypes'
    <2>1. jobs # <<>> /\ Current.kind = "send" /\ orphaned \in BOOLEAN /\ Publish(orphaned)
      BY <1>6 DEF SendGoesOn, Retry, Running, WorkerTypes
    <2> QED  BY <1>4, <2>1
  <1>7. ASSUME StartClose PROVE CloudTypes'
    <2>1. Current.on \in Publications
      BY <1>7, CurrentType DEF StartClose, Running
    <2> QED  BY <1>3, <1>7, <2>1 DEF StartClose
  <1>8. ASSUME EndCloses PROVE CloudTypes'
    BY <1>3, <1>8 DEF EndCloses, OpenIn, InState
  <1>9. ASSUME SendFails \/ CloseDone \/ EndClosed \/ Crash PROVE CloudTypes'
    <2>1. GivenUp /\ UNCHANGED <<sessionOf, cloudSession, cloudPub, closedLate>>
      BY <1>9 DEF SendFails, CloseDone, EndClosed, Crash, rows
    <2> QED  BY <1>1, <2>1, GivenUpEffect DEF CloudTypes
  <1>10. ASSUME Accepted PROVE CloudTypes'
    <2>1. /\ UNCHANGED <<awaited, publishes, closes, endings, sessionOf, cloudSession, cloudPub, closedLate>>
          /\ reply' = "none"
      BY <1>10 DEF Accepted, Answered, rows
    <2> QED  BY <1>1, <2>1 DEF CloudTypes
  <1>11. ASSUME EndLecture PROVE CloudTypes'
    <2>1. endings' \subseteq Lectures
      BY <1>11 DEF EndLecture, CloudTypes, LocalTypes
    <2> QED  BY <1>1, <1>11, <2>1 DEF EndLecture, CloudTypes, rows
  <1>12. ASSUME StartLecture PROVE CloudTypes'
    <2>1. cloudSession' \in [Lectures -> {"none", "open", "closed"}]
      BY <1>12 DEF StartLecture, CloudTypes
    <2> QED  BY <1>12, <2>1 DEF StartLecture, CloudTypes, traffic
  <1>13. ASSUME NEW q \in Questions, Send(q) PROVE CloudTypes'
    <2>1. PICK p \in Publications : sessionOf' = [sessionOf EXCEPT ![p] = LectureOf[q]]
      BY <1>13 DEF Send, Unused, InState
    <2>2. LectureOf[q] \in Lectures
      OBVIOUS
    <2>3. sessionOf' \in [Publications -> Lectures \cup {0}]
      <3> HIDE DEF Publications
      <3> QED  BY <2>1, <2>2 DEF CloudTypes
    <2> QED  BY <1>13, <2>3 DEF Send, CloudTypes, traffic
  <1>14. ASSUME \/ \E q \in Questions : Edit(q) \/ Discard(q)
                \/ \E p \in Publications : Close(p) \/ Show(p)
                \/ Withdraw \/ StartShow \/ ShowDone \/ WithdrawDone \/ EndDone
         PROVE  CloudTypes'
    <2>1. UNCHANGED cloud
      BY <1>14 DEF Edit, Discard, Close, Show, Withdraw, Enqueued, StartShow, ShowDone, WithdrawDone, EndDone
    <2> QED  BY <2>1 DEF CloudTypes
  <1>15. ASSUME Cloud PROVE CloudTypes'
    BY <1>15, CloudStepTypes DEF Cloud
  <1> QED
    BY <1>5, <1>6, <1>7, <1>8, <1>9, <1>10, <1>11, <1>12, <1>13, <1>14, <1>15 DEF Next, Command, Worker

LEMMA TypesStep ==
  ASSUME Types, [Next]_vars
  PROVE  Types'
  <1>1. CASE Next
    BY <1>1, LocalStep, WorkerStep, RequestTypes DEF Types
  <1>2. CASE UNCHANGED vars
    BY <1>2 DEF vars, local, worker, projector, bounds, cloud, Types, LocalTypes, WorkerTypes, CloudTypes
  <1> QED  BY <1>1, <1>2

LEMMA TypesInit ==
  Init => Types
  <1> SUFFICES ASSUME Init PROVE Types
    OBVIOUS
  <1> USE Constants DEF Init, CloudInit
  <1>1. LocalTypes
    BY DEF LocalTypes, QuestionType, Publication
  <1>2. WorkerTypes
    <2>1. orphaned \in BOOLEAN /\ unsure \in BOOLEAN
      BY Zenon
    <2> QED  BY <2>1, EmptySeq DEF WorkerTypes
  <1>3. CloudTypes
    BY DEF CloudTypes
  <1> QED  BY <1>1, <1>2, <1>3 DEF Types

-----------------------------------------------------------------------------
(* The executor and the rows                                               *)

SendAt(i, p) == i \in 1..Len(jobs) /\ jobs[i].kind = "send" /\ jobs[i].on = p
State(p) == pub[p].state

(* What queued work was made for is still as it was, except what the head  *)
(* has done already; nothing of its session is open while one is           *)
(* published.                                                              *)
JobsOK ==
  /\ \A i, p : SendAt(i, p) => State(p) = "publishing" \/ (i = 1 /\ at = "project" /\ State(p) = "open")
  /\ \A i, j, p : SendAt(i, p) /\ SendAt(j, p) => i = j
  /\ \A i \in 1..Len(jobs) : jobs[i].kind = "close" => State(jobs[i].on) \in {"open", "closed"}
  /\ \A i \in 1..Len(jobs) : jobs[i].kind = "show" => State(jobs[i].on) # "none"
  /\ \A p, q \in Publications : State(p) = "open" /\ State(q) = "open" /\ sessionOf[p] = sessionOf[q] => p = q
  /\ jobs # <<>> /\ jobs[1].kind = "send" /\ at \in {"close", "publish"} =>
       \A p \in Publications : State(p) = "open" => sessionOf[p] # sessionOf[jobs[1].on]

Waiting(p) == \E i : SendAt(i, p) /\ (i > 1 \/ at \in {"start", "close"})
Publishing(p) == SendAt(1, p) /\ at = "publish"

(* What the service has of a publication, and what may still reach it.     *)
Served ==
  /\ \A p \in Publications :
       /\ State(p) # "closed" => ~CloseSent(p)
       /\ State(p) = "none" \/ Waiting(p) => cloudPub[p] = "none" /\ ~PublishSent(p)
       /\ (State(p) = "open" \/ Publishing(p)) /\ cloudPub[p] = "closed" => Over(sessionOf[p]) \/ p \in closedLate
       /\ State(p) = "open" \/ (Publishing(p) /\ reply = "ok") => cloudPub[p] # "none"
  /\ \A r \in awaited :
       reply = "none" /\ (r.op = "publish" => Publishing(r.on)) /\ (r.op = "close" => at = "close")
  /\ \A l \in endings : Over(l)

Shown ==
  /\ \A p \in Publications : State(p) = "none" => pub[p].projector = "not-shown"
  /\ ~unsure => \A p \in Publications :
       IF display = Slides THEN pub[p].projector # "showing"
       ELSE sessionOf[p] = sessionOf[display] => (pub[p].projector = "showing" <=> p = display)

LEMMA JobFacts ==
  ASSUME WorkerTypes
  PROVE  /\ Len(jobs) \in Nat
         /\ \A i, p : SendAt(i, p) => p \in Publications /\ i \in Nat
         /\ \A i \in 1..Len(jobs) : jobs[i].kind # "ended" => jobs[i].on \in Publications
         /\ jobs # <<>> => 1 \in 1..Len(jobs) /\ Current = jobs[1]
  <1>1. jobs \in Seq(JobType) /\ Len(jobs) \in Nat
    BY LenProperties DEF WorkerTypes
  <1>2. \A i \in 1..Len(jobs) : jobs[i] \in JobType
    BY <1>1, ElementOfSeq
  <1>3. jobs # <<>> => 1 \in 1..Len(jobs) /\ Current = jobs[1]
    BY <1>1, Shortened DEF Current
  <1>4. \A i \in 1..Len(jobs) : jobs[i].kind # "ended" => jobs[i].on \in Publications
    BY <1>2 DEF JobType
  <1> QED  BY <1>1, <1>3, <1>4 DEF SendAt

(* How the end of a lecture stands over a step.                            *)
LEMMA StaysOver ==
  ASSUME LocalTypes,
         \/ lecture' = lecture /\ (recording' => recording)
         \/ lecture' = lecture + 1
  PROVE  \A l \in Nat : Over(l) => Over(l)'
  <1>1. lecture \in Nat
    BY Constants DEF LocalTypes
  <1> QED  BY <1>1 DEF Over

(* What a step of the device has to leave alone for Served to hold.        *)
LEMMA ServedStep ==
  ASSUME Types, Served, UNCHANGED <<cloudPub, closedLate>>,
         \A l \in Nat : Over(l) => Over(l)',
         \A l \in endings' : Over(l)',
         \A p \in Publications :
           /\ State(p)' # "closed" => State(p) # "closed" /\ (CloseSent(p)' => CloseSent(p))
           /\ State(p)' = "none" \/ Waiting(p)' =>
                (State(p) = "none" \/ Waiting(p)) /\ (PublishSent(p)' => PublishSent(p))
           /\ State(p)' = "open" \/ Publishing(p)' =>
                sessionOf'[p] = sessionOf[p] /\ (State(p) = "open" \/ Publishing(p) \/ Waiting(p))
           /\ State(p)' = "open" \/ (Publishing(p)' /\ reply' = "ok") =>
                State(p) = "open" \/ (Publishing(p) /\ reply = "ok"),
         \A r \in awaited' :
           reply' = "none" /\ (r.op = "publish" => Publishing(r.on)') /\ (r.op = "close" => at' = "close")
  PROVE  Served'
  <1>1. \A p \in Publications : sessionOf[p] \in Nat
    <2>1. sessionOf \in [Publications -> Lectures \cup {0}]
      BY DEF Types, CloudTypes
    <2>2. \A l \in Lectures \cup {0} : l \in Nat
      BY Constants
    <2> HIDE DEF Publications
    <2> QED  BY <2>1, <2>2
  <1>2. ASSUME NEW p \in Publications
        PROVE  /\ State(p)' # "closed" => ~CloseSent(p)'
               /\ State(p)' = "none" \/ Waiting(p)' => cloudPub'[p] = "none" /\ ~PublishSent(p)'
               /\ State(p)' = "open" \/ (Publishing(p)' /\ reply' = "ok") => cloudPub'[p] # "none"
    BY DEF Served
  <1>3. ASSUME NEW p \in Publications, State(p)' = "open" \/ Publishing(p)', cloudPub'[p] = "closed"
        PROVE  Over(sessionOf[p])' \/ p \in closedLate'
    <2>1. sessionOf'[p] = sessionOf[p] /\ cloudPub[p] = "closed" /\ (State(p) = "open" \/ Publishing(p))
      BY <1>3 DEF Served
    <2>2. Over(sessionOf[p]) \/ p \in closedLate
      BY <2>1 DEF Served
    <2>3. PICK l \in Nat : l = sessionOf[p]
      BY <1>1
    <2>4. Over(l)' => Over(sessionOf[p])'
      BY <2>1, <2>3 DEF Over
    <2> QED  BY <2>2, <2>3, <2>4
  <1> QED  BY <1>2, <1>3 DEF Served

(* A step at which the queue and the states stand still.                   *)
LEMMA StandStill ==
  ASSUME WorkerTypes, JobsOK, UNCHANGED <<jobs, sessionOf>>,
         \A p \in Publications : State(p)' = State(p),
         at' = at \/ jobs[1].kind # "send"
  PROVE  JobsOK'
  <1>1. \A i, p : SendAt(i, p)' <=> SendAt(i, p)
    BY DEF SendAt
  <1>2. \A i, p : SendAt(i, p) => p \in Publications
    BY JobFacts
  <1>3. \A i \in 1..Len(jobs) : jobs[i].kind \in {"close", "show"} => jobs[i].on \in Publications
    BY JobFacts
  <1>4. \A i, p : SendAt(i, p) /\ i = 1 => jobs[1].kind = "send"
    BY DEF SendAt
  <1>5. \A i, p : SendAt(i, p)' => State(p)' = "publishing" \/ (i = 1 /\ at' = "project" /\ State(p)' = "open")
    BY <1>1, <1>2, <1>4 DEF JobsOK
  <1>6. \A i \in 1..Len(jobs') :
          /\ jobs'[i].kind = "close" => pub'[jobs'[i].on].state \in {"open", "closed"}
          /\ jobs'[i].kind = "show" => pub'[jobs'[i].on].state # "none"
    BY <1>3 DEF JobsOK, State
  <1>7. \A p, q \in Publications :
          State(p)' = "open" /\ State(q)' = "open" /\ sessionOf'[p] = sessionOf'[q] => p = q
    BY DEF JobsOK
  <1>8. jobs' # <<>> /\ jobs'[1].kind = "send" /\ at' \in {"close", "publish"} =>
          \A p \in Publications : State(p)' = "open" => sessionOf'[p] # sessionOf'[jobs'[1].on]
    BY DEF JobsOK
  <1> QED  BY <1>1, <1>5, <1>6, <1>7, <1>8 DEF JobsOK, State

QInv == Types /\ JobsOK /\ Served /\ Shown

LEMMA AppendJob ==
  ASSUME WorkerTypes, NEW job \in JobType, jobs' = Append(jobs, job)
  PROVE  LET n == Len(jobs) IN
         /\ n \in Nat /\ Len(jobs') = n + 1 /\ jobs' # <<>>
         /\ \A i, p : SendAt(i, p) => SendAt(i, p)'
         /\ \A i, p : SendAt(i, p)' => SendAt(i, p) \/ (i = n + 1 /\ job.kind = "send" /\ job.on = p)
         /\ \A i \in 1..(n + 1) : (i \in 1..n /\ jobs'[i] = jobs[i]) \/ (i = n + 1 /\ jobs'[i] = job)
         /\ jobs # <<>> => jobs'[1] = jobs[1]
         /\ jobs = <<>> => at = "start" /\ n = 0
  <1> DEFINE n == Len(jobs)
  <1>1. /\ Len(jobs') = n + 1 /\ jobs' # <<>> /\ n \in Nat
        /\ \A i \in 1..n : jobs'[i] = jobs[i]
        /\ jobs'[n + 1] = job
    BY Extended, LenProperties DEF WorkerTypes
  <1>2. jobs # <<>> => n > 0
    BY EmptySeq DEF WorkerTypes
  <1>3. jobs = <<>> => at = "start" /\ n = 0
    BY EmptySeq DEF WorkerTypes
  <1> HIDE DEF n
  <1>4. \A i \in 1..(n + 1) : (i \in 1..n /\ jobs'[i] = jobs[i]) \/ (i = n + 1 /\ jobs'[i] = job)
    BY <1>1
  <1>5. \A i \in 1..n : i \in 1..(n + 1)
    BY <1>1
  <1>6. \A i, p : SendAt(i, p) => SendAt(i, p)'
    BY <1>1, <1>5 DEF SendAt, n
  <1>7. \A i, p : SendAt(i, p)' => SendAt(i, p) \/ (i = n + 1 /\ job.kind = "send" /\ job.on = p)
    BY <1>1, <1>4 DEF SendAt, n
  <1>8. jobs # <<>> => jobs'[1] = jobs[1]
    BY <1>1, <1>2
  <1> QED  BY <1>1, <1>3, <1>4, <1>6, <1>7, <1>8 DEF n

(* Work other than sending is queued; or the lecture ends.                 *)
LEMMA QueueStep ==
  ASSUME Types, JobsOK, Served, NEW job \in JobType, jobs' = Append(jobs, job), UNCHANGED <<at, pub>>,
         job.kind # "send", job.kind = "close" => State(job.on) = "open",
         job.kind = "show" => State(job.on) # "none",
         UNCHANGED <<sessionOf, cloudPub, closedLate, awaited, reply, publishes, closes>>,
         \A l \in Nat : Over(l) => Over(l)',
         \A l \in endings' : Over(l)'
  PROVE  JobsOK' /\ Served'
  <1> DEFINE n == Len(jobs)
  <1>1. /\ n \in Nat /\ Len(jobs') = n + 1 /\ jobs' # <<>>
        /\ \A i, p : SendAt(i, p) => SendAt(i, p)'
        /\ \A i, p : SendAt(i, p)' => SendAt(i, p)
        /\ \A i \in 1..(n + 1) : (i \in 1..n /\ jobs'[i] = jobs[i]) \/ (i = n + 1 /\ jobs'[i] = job)
        /\ jobs # <<>> => jobs'[1] = jobs[1]
        /\ jobs = <<>> => at = "start"
    BY AppendJob DEF Types
  <1>2. \A p : State(p)' = State(p)
    BY DEF State
  <1> HIDE DEF n
  <1>3. JobsOK'
    <2>1. \A i, p : SendAt(i, p)' => State(p)' = "publishing" \/ (i = 1 /\ at' = "project" /\ State(p)' = "open")
      BY <1>1, <1>2 DEF JobsOK
    <2>2. \A i, j, p : SendAt(i, p)' /\ SendAt(j, p)' => i = j
      BY <1>1 DEF JobsOK
    <2>3. \A i \in 1..Len(jobs') :
            /\ jobs'[i].kind = "close" => pub'[jobs'[i].on].state \in {"open", "closed"}
            /\ jobs'[i].kind = "show" => pub'[jobs'[i].on].state # "none"
      BY <1>1 DEF JobsOK, State, n
    <2>4. jobs' # <<>> /\ jobs'[1].kind = "send" /\ at' \in {"close", "publish"} =>
            \A p \in Publications : State(p)' = "open" => sessionOf'[p] # sessionOf'[jobs'[1].on]
      BY <1>1, <1>2 DEF JobsOK
    <2>5. \A p, q \in Publications :
            State(p)' = "open" /\ State(q)' = "open" /\ sessionOf'[p] = sessionOf'[q] => p = q
      BY <1>2 DEF JobsOK
    <2> QED  BY <2>1, <2>2, <2>3, <2>4, <2>5 DEF JobsOK, State
  <1>4. \A p : (Waiting(p)' <=> Waiting(p)) /\ (Publishing(p)' <=> Publishing(p))
    BY <1>1 DEF Waiting, Publishing
  <1>5. \A p : (PublishSent(p)' <=> PublishSent(p)) /\ (CloseSent(p)' <=> CloseSent(p))
    BY DEF PublishSent, CloseSent
  <1>6. \A r \in awaited' :
          reply' = "none" /\ (r.op = "publish" => Publishing(r.on)') /\ (r.op = "close" => at' = "close")
    <2>1. \A r \in awaited :
            reply = "none" /\ (r.op = "publish" => Publishing(r.on)) /\ (r.op = "close" => at = "close")
      BY DEF Served
    <2>2. \A r \in awaited' : Publishing(r.on) => Publishing(r.on)'
      BY <1>1 DEF Publishing
    <2> QED  BY <2>1, <2>2
  <1>7. Served'
    BY <1>2, <1>4, <1>5, <1>6, ServedStep
  <1> QED  BY <1>3, <1>7

(* A lecture that was over is still over, and so is one whose end is told. *)
LEMMA SameEndings ==
  ASSUME Types, Served, endings' = endings, lecture' = lecture, recording' = recording
  PROVE  (\A l \in Nat : Over(l) => Over(l)') /\ (\A l \in endings' : Over(l)')
  <1>1. \A l : Over(l) => Over(l)'
    BY DEF Over
  <1> QED  BY <1>1 DEF Served

(* The device waits for a request only while it publishes or closes.       *)
LEMMA NothingAwaited ==
  ASSUME Types, Served, at \in {"start", "project"} \/ reply # "none"
  PROVE  awaited = {}
  <1>1. \A r \in awaited : r.op \in {"publish", "close"}
    BY DEF Types, CloudTypes, Requests
  <1>2. \A r \in awaited : reply = "none" /\ (r.op = "publish" => at = "publish") /\ (r.op = "close" => at = "close")
    BY DEF Served, Publishing
  <1> QED  BY <1>1, <1>2

LEMMA SendStep ==
  ASSUME Types, JobsOK, Served, NEW q \in Questions, Send(q)
  PROVE  JobsOK' /\ Served'
  <1> DEFINE n == Len(jobs)
  <1>1. PICK x \in Publications :
          /\ State(x) = "none"
          /\ pub' = [pub EXCEPT ![x].state = "publishing", ![x].question = q]
          /\ sessionOf' = [sessionOf EXCEPT ![x] = LectureOf[q]]
          /\ Queued(Job("send", x, question[q].edition))
    BY DEF Send, Unused, InState, State
  <1> DEFINE job == Job("send", x, question[q].edition)
  <1>2. job \in JobType /\ job.kind = "send" /\ job.on = x
    BY DEF Job, JobType, Types, LocalTypes, QuestionType
  <1>3. State(x)' = "publishing" /\ \A p \in Publications : p # x => State(p)' = State(p)
    <2>1. pub \in [Publications -> Publication]
      BY DEF Types, LocalTypes
    <2>2. pub' = [pub EXCEPT ![x] = [pub[x] EXCEPT !.state = "publishing", !.question = q]]
      BY <1>1
    <2>3. [pub[x] EXCEPT !.state = "publishing", !.question = q].state = "publishing"
      BY <2>1 DEF Publication
    <2> HIDE DEF Publications
    <2> QED  BY <2>1, <2>2, <2>3 DEF State
  <1>4. /\ jobs' = Append(jobs, job) /\ at' = at
        /\ UNCHANGED <<lecture, recording, cloudPub, closedLate, awaited, reply, publishes, closes, endings>>
    BY <1>1 DEF Send, Queued, traffic
  <1>5. \A p \in Publications : p # x => sessionOf'[p] = sessionOf[p]
    BY <1>1 DEF Types, CloudTypes
  <1> HIDE DEF job
  <1>6. /\ n \in Nat /\ Len(jobs') = n + 1 /\ jobs' # <<>>
        /\ \A i, p : SendAt(i, p) => SendAt(i, p)'
        /\ \A i, p : SendAt(i, p)' => SendAt(i, p) \/ (i = n + 1 /\ p = x)
        /\ \A i \in 1..(n + 1) : (i \in 1..n /\ jobs'[i] = jobs[i]) \/ (i = n + 1 /\ jobs'[i] = job)
        /\ jobs # <<>> => jobs'[1] = jobs[1]
        /\ jobs = <<>> => at = "start" /\ n = 0
    BY <1>2, <1>4, AppendJob DEF Types
  <1> HIDE DEF n
  <1>7. \A i, p : SendAt(i, p) => p \in Publications /\ p # x
    BY <1>1, JobFacts DEF JobsOK, Types
  <1>8. JobsOK'
    <2>1. \A i, p : SendAt(i, p)' => State(p)' = "publishing" \/ (i = 1 /\ at' = "project" /\ State(p)' = "open")
      BY <1>3, <1>4, <1>6, <1>7 DEF JobsOK
    <2>2. \A i, j, p : SendAt(i, p)' /\ SendAt(j, p)' => i = j
      BY <1>6, <1>7 DEF JobsOK
    <2>3. ASSUME NEW i \in 1..Len(jobs')
          PROVE  /\ jobs'[i].kind = "close" => pub'[jobs'[i].on].state \in {"open", "closed"}
                 /\ jobs'[i].kind = "show" => pub'[jobs'[i].on].state # "none"
      <3>1. CASE i \in 1..n /\ jobs'[i] = jobs[i] /\ jobs[i].kind \in {"close", "show"}
        <4>1. PICK p \in Publications : p = jobs[i].on
          BY <3>1, JobFacts DEF n, Types
        <4>2. State(p) # "none" /\ (jobs[i].kind = "close" => State(p) \in {"open", "closed"})
          BY <3>1, <4>1 DEF JobsOK, n
        <4>3. State(p)' = State(p)
          BY <1>1, <1>3, <4>2
        <4> QED  BY <3>1, <4>1, <4>2, <4>3 DEF State
      <3> QED  BY <1>2, <1>6, <3>1
    <2>4. ASSUME NEW p \in Publications, NEW r \in Publications, State(p)' = "open", State(r)' = "open",
                 sessionOf'[p] = sessionOf'[r]
          PROVE  p = r
      BY <1>3, <1>5, <2>4 DEF JobsOK
    <2>5. ASSUME jobs'[1].kind = "send", at' \in {"close", "publish"}, NEW p \in Publications, State(p)' = "open"
          PROVE  sessionOf'[p] # sessionOf'[jobs'[1].on]
      <3>1. jobs # <<>> /\ jobs'[1] = jobs[1] /\ State(p) = "open" /\ p # x
        BY <1>3, <1>4, <1>6, <2>5
      <3>2. jobs[1].on \in Publications /\ jobs[1].on # x
        BY <1>7, <2>5, <3>1, JobFacts DEF SendAt, Types
      <3>3. sessionOf[p] # sessionOf[jobs[1].on]
        BY <1>4, <2>5, <3>1 DEF JobsOK
      <3> QED  BY <1>5, <3>1, <3>2, <3>3
    <2> QED  BY <2>1, <2>2, <2>3, <2>4, <2>5 DEF JobsOK, State
  <1>9. Served'
    <2>1. \A p : (PublishSent(p)' <=> PublishSent(p)) /\ (CloseSent(p)' <=> CloseSent(p))
      BY <1>4 DEF PublishSent, CloseSent
    <2>2. \A p : p # x => (Waiting(p)' => Waiting(p)) /\ (Publishing(p)' => Publishing(p))
      BY <1>4, <1>6 DEF Waiting, Publishing
    <2>3. ~Publishing(x)'
      BY <1>4, <1>6, <1>7 DEF Publishing
    <2>4. \A r \in awaited :
            reply = "none" /\ (r.op = "publish" => Publishing(r.on)) /\ (r.op = "close" => at = "close")
      BY DEF Served
    <2>5. \A p : Publishing(p) => Publishing(p)'
      BY <1>4, <1>6 DEF Publishing
    <2>6. \A r \in awaited' :
            reply' = "none" /\ (r.op = "publish" => Publishing(r.on)') /\ (r.op = "close" => at' = "close")
      BY <1>4, <2>4, <2>5
    <2> QED  BY <1>1, <1>3, <1>4, <1>5, <2>1, <2>2, <2>3, <2>6, SameEndings, ServedStep
  <1> QED  BY <1>8, <1>9

(* The head is finished; a publish that is given up has failed.            *)
LEMMA DoneStep ==
  ASSUME Types, JobsOK, Served, jobs # <<>>, jobs' = Tail(jobs), at' = "start", awaited' = {},
         UNCHANGED <<lecture, recording, endings, sessionOf, cloudPub, closedLate>>,
         \A p \in Publications : (PublishSent(p)' => PublishSent(p)) /\ (CloseSent(p)' => CloseSent(p)),
         \A p \in Publications :
           \/ State(p)' = State(p)
           \/ State(p)' = "failed" /\ SendAt(1, p) /\ at = "publish"
  PROVE  JobsOK' /\ Served'
  <1> DEFINE n == Len(jobs)
  <1>1. n \in Nat \ {0} /\ Len(jobs') = n - 1 /\ \A i \in 1..(n - 1) : jobs'[i] = jobs[i + 1]
    BY Shortened DEF Types, WorkerTypes
  <1>2. \A i \in 1..(n - 1) : i + 1 \in 1..n /\ i + 1 > 1
    BY <1>1
  <1> HIDE DEF n
  <1>3. \A i, p : SendAt(i, p)' => i \in 1..(n - 1) /\ SendAt(i + 1, p) /\ i + 1 > 1
    BY <1>1, <1>2 DEF SendAt, n
  <1>4. \A i, p : SendAt(i, p) => p \in Publications
    BY JobFacts DEF Types
  <1>5. \A i, p : SendAt(i, p)' => State(p)' = "publishing" /\ ~SendAt(1, p)
    <2> SUFFICES ASSUME NEW i, NEW p, SendAt(i, p)'
                 PROVE  State(p)' = "publishing" /\ ~SendAt(1, p)
      OBVIOUS
    <2>1. SendAt(i + 1, p) /\ i \in Nat /\ i + 1 # 1
      BY <1>1, <1>3
    <2>2. ~SendAt(1, p) /\ State(p) = "publishing" /\ p \in Publications
      BY <1>4, <2>1 DEF JobsOK
    <2> QED  BY <2>2
  <1>6. \A p \in Publications :
          (State(p)' = "none" => State(p) = "none") /\ (State(p)' = "open" => State(p) = "open")
          /\ (State(p) \in {"open", "closed"} => State(p)' = State(p)) /\ (State(p) # "none" => State(p)' # "none")
    <2>1. \A p : SendAt(1, p) /\ at = "publish" => State(p) = "publishing"
      BY DEF JobsOK
    <2> QED  BY <2>1
  <1>7. JobsOK'
    <2>1. \A i, j, p : SendAt(i, p)' /\ SendAt(j, p)' => i = j
      <3> SUFFICES ASSUME NEW i, NEW j, NEW p, SendAt(i, p)', SendAt(j, p)'
                   PROVE  i = j
        OBVIOUS
      <3>1. i + 1 = j + 1 /\ i \in Nat /\ j \in Nat
        BY <1>1, <1>3 DEF JobsOK
      <3> QED  BY <3>1
    <2>2. ASSUME NEW i \in 1..Len(jobs'), jobs'[i].kind \in {"close", "show"}
          PROVE  /\ jobs'[i].kind = "close" => pub'[jobs'[i].on].state \in {"open", "closed"}
                 /\ jobs'[i].kind = "show" => pub'[jobs'[i].on].state # "none"
      <3>1. i + 1 \in 1..n /\ jobs'[i] = jobs[i + 1]
        BY <1>1, <1>2
      <3>2. PICK p \in Publications : p = jobs[i + 1].on
        BY <2>2, <3>1, JobFacts DEF n, Types
      <3>3. State(p) # "none" /\ (jobs[i + 1].kind = "close" => State(p) \in {"open", "closed"})
        BY <2>2, <3>1, <3>2 DEF JobsOK, n
      <3>4. pub'[p].state # "none" /\ (jobs[i + 1].kind = "close" => pub'[p].state \in {"open", "closed"})
        BY <1>6, <3>3 DEF State
      <3> QED  BY <3>1, <3>2, <3>4
    <2>3. \A p, q \in Publications :
            State(p)' = "open" /\ State(q)' = "open" /\ sessionOf'[p] = sessionOf'[q] => p = q
      BY <1>6 DEF JobsOK
    <2> QED  BY <1>5, <2>1, <2>2, <2>3 DEF JobsOK, State
  <1>8. Served'
    <2>1. \A p : (Waiting(p)' => Waiting(p)) /\ ~Publishing(p)'
      BY <1>3 DEF Waiting, Publishing
    <2>2. \A p \in Publications : State(p)' # "closed" => State(p) # "closed"
      BY <1>6
    <2> QED  BY <1>6, <2>1, <2>2, SameEndings, ServedStep
  <1> QED  BY <1>7, <1>8

(* The head closes a publication: its own, or the one that is open.        *)
LEMMA CloseStep ==
  ASSUME Types, JobsOK, Served, NEW x \in Publications,
         NEW r \in {"next-question", "lecturer-closed", "session-ended"}, CloseRow(x, r),
         jobs # <<>>, jobs' = jobs, at = "start", at' = "close", State(x) \in {"open", "closed"},
         jobs[1].kind = "send" => State(x) = "open" /\ sessionOf[x] = sessionOf[jobs[1].on]
  PROVE  JobsOK' /\ Served'
  <1>1. /\ State(x)' = "closed" /\ \A p \in Publications : p # x => State(p)' = State(p)
        /\ UNCHANGED <<lecture, recording, sessionOf, cloudPub, closedLate>> /\ Ask(Request("close", x, FALSE))
    BY CloseRowEffect DEF State
  <1>2. \A i, p : SendAt(i, p)' <=> SendAt(i, p)
    BY DEF SendAt
  <1>3. \A i, p : SendAt(i, p) => p \in Publications /\ State(p) = "publishing" /\ p # x
    BY JobFacts DEF JobsOK, Types
  <1>4. \A p \in Publications : State(p)' = "open" => State(p) = "open" /\ p # x
    BY <1>1
  <1>5. JobsOK'
    <2>1. \A i, p : SendAt(i, p)' => State(p)' = "publishing"
      BY <1>1, <1>2, <1>3
    <2>2. \A i, j, p : SendAt(i, p)' /\ SendAt(j, p)' => i = j
      BY <1>2 DEF JobsOK
    <2>3. ASSUME NEW i \in 1..Len(jobs), jobs[i].kind \in {"close", "show"}
          PROVE  /\ jobs'[i].kind = "close" => pub'[jobs'[i].on].state \in {"open", "closed"}
                 /\ jobs'[i].kind = "show" => pub'[jobs'[i].on].state # "none"
      <3>1. PICK p \in Publications : p = jobs[i].on
        BY <2>3, JobFacts DEF Types
      <3>2. State(p) # "none" /\ (jobs[i].kind = "close" => State(p) \in {"open", "closed"})
        BY <2>3, <3>1 DEF JobsOK
      <3>3. State(p)' # "none" /\ (jobs[i].kind = "close" => State(p)' \in {"open", "closed"})
        BY <1>1, <3>2
      <3> QED  BY <3>1, <3>3 DEF State
    <2>4. \A p, q \in Publications :
            State(p)' = "open" /\ State(q)' = "open" /\ sessionOf'[p] = sessionOf'[q] => p = q
      BY <1>1, <1>4 DEF JobsOK
    <2>5. jobs'[1].kind = "send" => \A p \in Publications : State(p)' = "open" => sessionOf'[p] # sessionOf'[jobs'[1].on]
      BY <1>1, <1>4 DEF JobsOK
    <2> QED  BY <2>1, <2>2, <2>3, <2>4, <2>5 DEF JobsOK, State
  <1>6. Served'
    <2>1. /\ reply' = "none" /\ endings' = endings
          /\ \A r0 \in awaited' : r0.op = "close" /\ r0.on = x
          /\ \A p \in Publications : (PublishSent(p)' => PublishSent(p)) /\ (CloseSent(p)' => CloseSent(p) \/ p = x)
      BY <1>1, AskEffect DEF Types
    <2>2. \A p : (Waiting(p)' => Waiting(p)) /\ ~Publishing(p)'
      BY <1>2 DEF Waiting, Publishing
    <2>3. \A p \in Publications : /\ State(p)' = "none" => State(p) = "none"
                                  /\ State(p)' # "closed" => State(p) # "closed" /\ p # x
      BY <1>1
    <2> QED  BY <1>1, <1>4, <2>1, <2>2, <2>3, SameEndings, ServedStep
  <1> QED  BY <1>5, <1>6

(* The head asks for its publication, for the first time or again.         *)
LEMMA PublishStep ==
  ASSUME Types, JobsOK, Served, jobs # <<>>, jobs[1].kind = "send", NEW o \in BOOLEAN, Publish(o),
         jobs' = jobs, at \in {"start", "close", "publish"}, at' = "publish",
         \A p \in Publications : State(p) = "open" => sessionOf[p] # sessionOf[jobs[1].on]
  PROVE  JobsOK' /\ Served'
  <1>0. PICK c \in Publications : c = jobs[1].on
    BY JobFacts DEF Types
  <1>1. c = Current.on /\ SendAt(1, c)
    BY <1>0, JobFacts DEF Types, SendAt
  <1>2. UNCHANGED <<lecture, recording, sessionOf, cloudPub, closedLate, pub>> /\ Ask(Request("publish", c, o))
    BY <1>1 DEF Publish, local, rows
  <1>3. \A p : State(p)' = State(p)
    BY <1>2 DEF State
  <1>4. \A i, p : SendAt(i, p)' <=> SendAt(i, p)
    BY DEF SendAt
  <1>5. State(c) = "publishing"
    BY <1>1 DEF JobsOK
  <1>6. JobsOK'
    <2>1. \A i, p : SendAt(i, p)' => State(p)' = "publishing"
      BY <1>3, <1>4 DEF JobsOK
    <2>2. \A i \in 1..Len(jobs') :
            /\ jobs'[i].kind = "close" => pub'[jobs'[i].on].state \in {"open", "closed"}
            /\ jobs'[i].kind = "show" => pub'[jobs'[i].on].state # "none"
      BY <1>2 DEF JobsOK, State
    <2>3. \A p, q \in Publications :
            State(p)' = "open" /\ State(q)' = "open" /\ sessionOf'[p] = sessionOf'[q] => p = q
      BY <1>2, <1>3 DEF JobsOK
    <2>4. \A p \in Publications : State(p)' = "open" => sessionOf'[p] # sessionOf'[jobs'[1].on]
      BY <1>2, <1>3
    <2>5. \A i, j, p : SendAt(i, p)' /\ SendAt(j, p)' => i = j
      BY <1>4 DEF JobsOK
    <2> QED  BY <2>1, <2>2, <2>3, <2>4, <2>5 DEF JobsOK, State
  <1>7. Served'
    <2>1. /\ reply' = "none" /\ endings' = endings
          /\ \A r \in awaited' : r.op = "publish" /\ r.on = c
          /\ \A p \in Publications : (PublishSent(p)' => PublishSent(p) \/ p = c) /\ (CloseSent(p)' => CloseSent(p))
      BY <1>2, AskEffect DEF Types
    <2>2. (Waiting(c) \/ Publishing(c)) /\ Publishing(c)'
      BY <1>1, <1>4 DEF Waiting, Publishing
    <2>3. \A p : Publishing(p)' => p = c
      BY <1>0, <1>4 DEF Publishing, SendAt
    <2>4. \A p : Waiting(p)' => Waiting(p) /\ p # c
      <3> SUFFICES ASSUME NEW p, NEW i, SendAt(i, p), i > 1
                   PROVE  Waiting(p) /\ p # c
        BY <1>4 DEF Waiting
      <3>1. i \in Nat /\ i # 1
        BY JobFacts DEF Types
      <3> QED  BY <1>1, <3>1 DEF Waiting, JobsOK
    <2>5. \A r \in awaited' :
            reply' = "none" /\ (r.op = "publish" => Publishing(r.on)') /\ (r.op = "close" => at' = "close")
      BY <2>1, <2>2
    <2> QED  BY <1>2, <1>3, <1>5, <2>1, <2>2, <2>3, <2>4, <2>5, SameEndings, ServedStep
  <1> QED  BY <1>6, <1>7

LEMMA AcceptedStep ==
  ASSUME Types, JobsOK, Served, Accepted
  PROVE  JobsOK' /\ Served'
  <1>0. PICK c \in Publications : c = jobs[1].on
    BY JobFacts DEF Types, Accepted, Running
  <1>1. jobs # <<>> /\ jobs[1].kind = "send" /\ at = "publish" /\ c = Current.on /\ SendAt(1, c) /\ reply = "ok"
    BY <1>0, JobFacts DEF Types, SendAt, Accepted, Running, Answered
  <1>2. /\ pub' = [pub EXCEPT ![c].state = "open"] /\ jobs' = jobs /\ at' = "project"
        /\ UNCHANGED <<lecture, recording, sessionOf, cloudPub, closedLate, awaited, publishes, closes, endings>>
    BY <1>1 DEF Accepted, Goes, Answered, rows
  <1>3. State(c)' = "open" /\ \A p \in Publications : p # c => State(p)' = State(p)
    BY <1>1, <1>2, PubChange DEF State, Types
  <1>4. \A i, p : SendAt(i, p)' <=> SendAt(i, p)
    BY <1>2 DEF SendAt
  <1>5. State(c) = "publishing" /\ \A p \in Publications : State(p) = "open" => sessionOf[p] # sessionOf[c]
    BY <1>0, <1>1 DEF JobsOK
  <1>6. \A i, p : SendAt(i, p) => p \in Publications /\ State(p) = "publishing" /\ (p = c => i = 1)
    BY <1>1, JobFacts DEF JobsOK, Types
  <1>7. JobsOK'
    <2>1. \A i, p : SendAt(i, p)' => State(p)' = "publishing" \/ (i = 1 /\ at' = "project" /\ State(p)' = "open")
      BY <1>2, <1>3, <1>4, <1>6
    <2>2. \A i, j, p : SendAt(i, p)' /\ SendAt(j, p)' => i = j
      BY <1>4 DEF JobsOK
    <2>3. ASSUME NEW i \in 1..Len(jobs), jobs[i].kind \in {"close", "show"}
          PROVE  /\ jobs[i].kind = "close" => pub'[jobs[i].on].state \in {"open", "closed"}
                 /\ jobs[i].kind = "show" => pub'[jobs[i].on].state # "none"
      <3>1. PICK p \in Publications : p = jobs[i].on
        BY <2>3, JobFacts DEF Types
      <3>2. State(p) # "none" /\ (jobs[i].kind = "close" => State(p) \in {"open", "closed"})
        BY <2>3, <3>1 DEF JobsOK
      <3>3. State(p)' # "none" /\ (jobs[i].kind = "close" => State(p)' \in {"open", "closed"})
        BY <1>3, <3>2
      <3> QED  BY <3>1, <3>3 DEF State
    <2>4. \A p, q \in Publications :
            State(p)' = "open" /\ State(q)' = "open" /\ sessionOf'[p] = sessionOf'[q] => p = q
      BY <1>2, <1>3, <1>5 DEF JobsOK
    <2> QED  BY <1>2, <2>1, <2>2, <2>3, <2>4 DEF JobsOK, State
  <1>8. Served'
    <2>1. \A p : (PublishSent(p)' <=> PublishSent(p)) /\ (CloseSent(p)' <=> CloseSent(p))
      BY <1>2 DEF PublishSent, CloseSent
    <2>2. Publishing(c) /\ awaited' = {}
      BY <1>1, <1>2, NothingAwaited DEF Publishing
    <2>3. \A p : (Waiting(p)' => Waiting(p)) /\ ~Publishing(p)'
      BY <1>2, <1>4 DEF Waiting, Publishing
    <2>4. \A p \in Publications : /\ State(p)' = "none" => State(p) = "none"
                                  /\ State(p)' # "closed" => State(p) # "closed"
                                  /\ State(p)' = "open" => State(p) = "open" \/ p = c
      BY <1>3, <1>5
    <2> QED  BY <1>1, <1>2, <2>1, <2>2, <2>3, <2>4, SameEndings, ServedStep
  <1> QED  BY <1>7, <1>8

(* The executor goes on with other work; or a command changes no state, or *)
(* the next lecture starts.                                                *)
LEMMA GoesOnStep ==
  ASSUME Types, JobsOK, Served, UNCHANGED <<jobs, endings, sessionOf, cloudPub, closedLate>>,
         \/ lecture' = lecture /\ (recording' => recording)
         \/ lecture' = lecture + 1,
         \A p \in Publications :
           State(p)' = State(p) /\ (PublishSent(p)' => PublishSent(p)) /\ (CloseSent(p)' => CloseSent(p)),
         \/ at' = at /\ UNCHANGED <<awaited, reply>>
         \/ jobs # <<>> /\ jobs[1].kind # "send" /\ at' = "project" /\ awaited' = {}
  PROVE  JobsOK' /\ Served'
  <1>1. JobsOK'
    BY StandStill DEF Types
  <1>2. \A i, p : SendAt(i, p)' <=> SendAt(i, p)
    BY DEF SendAt
  <1>3. \A p : (Waiting(p)' => Waiting(p)) /\ (Publishing(p)' => Publishing(p) /\ reply' = reply)
    <2>1. CASE at' = at /\ UNCHANGED <<awaited, reply>>
      BY <1>2, <2>1 DEF Waiting, Publishing
    <2>2. CASE at' = "project"
      BY <1>2, <2>2 DEF Waiting, Publishing
    <2> QED  BY <2>1, <2>2
  <1>4. \A r \in awaited' :
          reply' = "none" /\ (r.op = "publish" => Publishing(r.on)') /\ (r.op = "close" => at' = "close")
    <2>1. CASE at' = at /\ UNCHANGED <<awaited, reply>>
      <3>1. \A p : Publishing(p)' <=> Publishing(p)
        BY <1>2, <2>1 DEF Publishing
      <3> QED  BY <2>1, <3>1 DEF Served
    <2>2. CASE awaited' = {}
      BY <2>2
    <2> QED  BY <2>1, <2>2
  <1>5. (\A l \in Nat : Over(l) => Over(l)') /\ (\A l \in endings' : Over(l)')
    <2>1. \A l \in Nat : Over(l) => Over(l)'
      BY StaysOver DEF Types
    <2>2. endings \subseteq Nat
      BY Constants DEF Types, CloudTypes
    <2> QED  BY <2>1, <2>2 DEF Served
  <1>6. Served'
    BY <1>3, <1>4, <1>5, ServedStep
  <1> QED  BY <1>1, <1>6

LEMMA CrashStep ==
  ASSUME Types, JobsOK, Served, Crash
  PROVE  JobsOK' /\ Served'
  <1>1. /\ jobs' = <<>> /\ at' = "start" /\ GivenUp
        /\ UNCHANGED <<pub, lecture, recording, sessionOf, cloudPub, closedLate>>
    BY DEF Crash, local, rows
  <1>2. \A i : i \notin 1..Len(jobs')
    <2>1. Len(jobs') = 0
      BY <1>1
    <2> QED  BY <2>1
  <1>3. \A i, p : ~SendAt(i, p)'
    BY <1>2 DEF SendAt
  <1>4. \A p : State(p)' = State(p)
    BY <1>1 DEF State
  <1>5. JobsOK'
    BY <1>1, <1>2, <1>3, <1>4 DEF JobsOK
  <1>6. Served'
    <2>1. /\ awaited' = {} /\ endings' = endings
          /\ \A p \in Publications : (PublishSent(p)' => PublishSent(p)) /\ (CloseSent(p)' => CloseSent(p))
      BY <1>1, GivenUpEffect DEF Types
    <2>2. \A p : ~Waiting(p)' /\ ~Publishing(p)'
      BY <1>3 DEF Waiting, Publishing
    <2> QED  BY <1>1, <1>4, <2>1, <2>2, SameEndings, ServedStep
  <1> QED  BY <1>5, <1>6

(* What a publish handled does to the publications.                        *)
LEMMA PublishedEffect ==
  ASSUME CloudTypes, NEW x \in Publications, HandlePublish(x), NEW p \in Publications
  PROVE  /\ cloudPub[p] \in {"none", "open", "closed"} /\ cloudPub'[p] \in {"none", "open", "closed"}
         /\ cloudPub'[p] # cloudPub[p] =>
              \/ p = x /\ cloudPub[p] = "none" /\ cloudPub'[p] = "open"
              \/ p # x /\ cloudPub[p] = "open" /\ cloudPub'[p] = "closed" /\ sessionOf[p] = sessionOf[x]
         /\ cloudSession[sessionOf[x]] = "open" /\ p = x => cloudPub'[p] # "none"
  <1> HIDE DEF Publications
  <1>1. cloudPub \in [Publications -> {"none", "open", "closed"}]
    BY DEF CloudTypes
  <1>2. CASE cloudPub' = cloudPub /\ cloudSession[sessionOf[x]] # "open"
    BY <1>1, <1>2
  <1>3. CASE cloudPub' = [ClosedBut(sessionOf[x], x) EXCEPT ![x] = IF @ = "none" THEN "open" ELSE @]
    <2>1. \A y \in Publications : ClosedBut(sessionOf[x], x)[y] =
            IF y # x /\ sessionOf[y] = sessionOf[x] /\ cloudPub[y] = "open" THEN "closed" ELSE cloudPub[y]
      BY DEF ClosedBut
    <2>2. ClosedBut(sessionOf[x], x) = [y \in Publications |-> ClosedBut(sessionOf[x], x)[y]]
      BY DEF ClosedBut
    <2>3. CASE p = x
      <3>1. cloudPub'[p] = IF cloudPub[p] = "none" THEN "open" ELSE cloudPub[p]
        BY <1>3, <2>1, <2>2, <2>3
      <3> QED  BY <1>1, <2>3, <3>1
    <2>4. CASE p # x
      <3>1. cloudPub'[p] = IF sessionOf[p] = sessionOf[x] /\ cloudPub[p] = "open" THEN "closed" ELSE cloudPub[p]
        BY <1>3, <2>1, <2>2, <2>4
      <3> QED  BY <1>1, <2>4, <3>1
    <2> QED  BY <2>3, <2>4
  <1> QED  BY <1>2, <1>3 DEF HandlePublish

(* A step of the service.                                                  *)
LEMMA ServiceStep ==
  ASSUME Types, JobsOK, Served, Cloud
  PROVE  JobsOK' /\ Served'
  <1>1. UNCHANGED <<jobs, at, pub, lecture, recording>> /\ CloudStep
    BY DEF Cloud, local, worker
  <1>2. UNCHANGED <<sessionOf>>
    BY <1>1 DEF CloudStep, HandlePublish, RefuseOrphaned, HandleClose, HandleCloseSession
  <1>3. \A p : State(p)' = State(p)
    BY <1>1 DEF State
  <1>4. JobsOK'
    BY <1>1, <1>2, <1>3, StandStill DEF Types
  <1>5. \A p : (Waiting(p)' <=> Waiting(p)) /\ (Publishing(p)' <=> Publishing(p))
    BY <1>1 DEF Waiting, Publishing, SendAt
  <1>6. (\A l : Over(l)' <=> Over(l)) /\ \A p : Over(sessionOf[p])' <=> Over(sessionOf[p])
    BY <1>1, <1>2 DEF Over
  <1>7. \A p \in Publications : Publishing(p) => State(p) = "publishing" /\ p = jobs[1].on /\ jobs # <<>>
                                               /\ jobs[1].kind = "send" /\ at = "publish"
    BY EmptySeq DEF Publishing, SendAt, JobsOK, Types, WorkerTypes
  <1>8. ASSUME NEW x \in Publications, HandlePublish(x) PROVE Served'
    <2>0. \A op, o : Request(op, x, o).op = op /\ Request(op, x, o).on = x
      BY DEF Request
    <2>1. PublishSent(x) /\ endings' = endings
      BY <1>8, <2>0, Zenon DEF HandlePublish, PublishSent
    <2>2. CASE Heard(Request("publish", x, FALSE), IF cloudSession[sessionOf[x]] = "open" THEN "ok" ELSE "refused")
               /\ UNCHANGED closedLate
      <3>1. /\ Request("publish", x, FALSE) \in awaited /\ awaited' = {} /\ UNCHANGED <<publishes, closes, closedLate>>
            /\ reply' = IF cloudSession[sessionOf[x]] = "open" THEN "ok" ELSE "refused"
        BY <2>2 DEF Heard
      <3>2. Publishing(x)
        <4>1. \A r \in awaited : r.op = "publish" => Publishing(r.on)
          BY DEF Served
        <4>2. \A r, y : r.on = y /\ Publishing(r.on) => Publishing(y)
          BY DEF Publishing, SendAt
        <4> HIDE DEF Publications
        <4> QED  BY <2>0, <3>1, <4>1, <4>2, Zenon
      <3>3. \A p : (PublishSent(p)' => PublishSent(p)) /\ (CloseSent(p)' => CloseSent(p))
        BY <3>1 DEF PublishSent, CloseSent
      <3>4. \A p \in Publications : State(p) = "open" => sessionOf[p] # sessionOf[x]
        BY <1>7, <3>2 DEF JobsOK
      <3>5. ASSUME NEW p \in Publications
            PROVE  /\ State(p) = "none" \/ Waiting(p) => cloudPub'[p] = "none"
                   /\ State(p) = "open" \/ Publishing(p) => (cloudPub'[p] = "closed" => cloudPub[p] = "closed")
                   /\ State(p) = "open" \/ (Publishing(p) /\ reply' = "ok") => cloudPub'[p] # "none"
        <4>1. State(p) = "none" \/ Waiting(p) => cloudPub[p] = "none" /\ p # x
          BY <2>1 DEF Served
        <4>2. State(p) = "open" => cloudPub[p] # "none" /\ sessionOf[p] # sessionOf[x]
          BY <3>4 DEF Served
        <4>3. Publishing(p) => p = x
          BY <1>7, <3>2
        <4> QED  BY <1>8, <3>1, <4>1, <4>2, <4>3, PublishedEffect DEF Types
      <3> QED  BY <1>3, <1>5, <1>6, <2>1, <3>1, <3>3, <3>5 DEF Served
    <2>3. CASE OneLess(publishes, x) /\ closedLate' = closedLate \cup Closed /\ UNCHANGED closes
      <3>1. /\ publishes' = [publishes EXCEPT ![x] = @ - 1] /\ publishes[x] > 0 /\ UNCHANGED <<awaited, reply, closes>>
            /\ publishes \in [Publications -> Nat]
        BY <2>3 DEF OneLess, Types, CloudTypes
      <3>2. \A p \in Publications : publishes'[p] > 0 => publishes[p] > 0
        <4> HIDE DEF Publications
        <4> QED  BY <3>1
      <3>3. \A p \in Publications : (PublishSent(p)' => PublishSent(p)) /\ (CloseSent(p)' => CloseSent(p))
        BY <3>1, <3>2 DEF PublishSent, CloseSent
      <3>4. ASSUME NEW p \in Publications
            PROVE  /\ State(p) = "none" \/ Waiting(p) => cloudPub'[p] = "none"
                   /\ cloudPub'[p] = "closed" => cloudPub[p] = "closed" \/ p \in closedLate'
                   /\ cloudPub[p] # "none" => cloudPub'[p] # "none"
        <4>1. State(p) = "none" \/ Waiting(p) => cloudPub[p] = "none" /\ p # x
          BY <2>1 DEF Served
        <4>2. cloudPub[p] = "open" /\ cloudPub'[p] = "closed" => p \in closedLate'
          BY <2>3 DEF Closed
        <4>3. /\ cloudPub[p] \in {"none", "open", "closed"} /\ cloudPub'[p] \in {"none", "open", "closed"}
              /\ cloudPub'[p] # cloudPub[p] =>
                   \/ p = x /\ cloudPub[p] = "none" /\ cloudPub'[p] = "open"
                   \/ p # x /\ cloudPub[p] = "open" /\ cloudPub'[p] = "closed"
          BY <1>8, PublishedEffect DEF Types
        <4> QED  BY <4>1, <4>2, <4>3
      <3>5. \A p \in closedLate : p \in closedLate'
        BY <2>3
      <3> QED  BY <1>1, <1>3, <1>5, <1>6, <2>1, <3>1, <3>3, <3>4, <3>5 DEF Served
    <2> QED  BY <1>8, <2>2, <2>3 DEF HandlePublish
  <1>9. ASSUME NEW x \in Publications, RefuseOrphaned(x) PROVE Served'
    <2>1. /\ awaited' = {} /\ reply' = "refused"
          /\ UNCHANGED <<publishes, closes, cloudPub, endings, closedLate>>
      BY <1>9 DEF RefuseOrphaned, Heard
    <2>2. \A p : (PublishSent(p)' => PublishSent(p)) /\ (CloseSent(p)' => CloseSent(p))
      BY <2>1 DEF PublishSent, CloseSent
    <2> QED  BY <1>3, <1>5, <1>6, <2>1, <2>2 DEF Served
  <1>10. ASSUME NEW x \in Publications, HandleClose(x) PROVE Served'
    <2>0. \A op, o : Request(op, x, o).op = op /\ Request(op, x, o).on = x
      BY DEF Request
    <2>1. CloseSent(x)
      BY <1>10, <2>0 DEF HandleClose, Heard, OneLess, CloseSent
    <2>2. State(x) = "closed" /\ ~Publishing(x) /\ ~Waiting(x)
      <3>1. State(x) = "closed"
        BY <2>1 DEF Served
      <3>2. \A i : SendAt(i, x) => State(x) = "publishing" \/ State(x) = "open"
        BY DEF JobsOK
      <3> QED  BY <3>1, <3>2 DEF Publishing, Waiting
    <2>3. \A p \in Publications : p # x => cloudPub'[p] = cloudPub[p]
      BY <1>10 DEF HandleClose, Types, CloudTypes
    <2>4. UNCHANGED <<endings, closedLate>>
      BY <1>10 DEF HandleClose
    <2>5. CASE Heard(Request("close", x, FALSE), "ok")
      <3>1. Request("close", x, FALSE) \in awaited /\ awaited' = {} /\ UNCHANGED <<publishes, closes>>
        BY <2>5 DEF Heard
      <3>2. at = "close"
        BY <2>0, <3>1 DEF Served
      <3>3. \A p : (PublishSent(p)' => PublishSent(p)) /\ (CloseSent(p)' => CloseSent(p))
        BY <3>1 DEF PublishSent, CloseSent
      <3>4. \A p : ~Publishing(p)
        BY <3>2 DEF Publishing
      <3> QED  BY <1>3, <1>5, <1>6, <2>2, <2>3, <2>4, <3>1, <3>3, <3>4 DEF Served
    <2>6. CASE OneLess(closes, x) /\ UNCHANGED publishes
      <3>1. /\ closes' = [closes EXCEPT ![x] = @ - 1] /\ closes[x] > 0 /\ UNCHANGED <<awaited, reply, publishes>>
            /\ closes \in [Publications -> Nat]
        BY <2>6 DEF OneLess, Types, CloudTypes
      <3>2. \A p \in Publications : closes'[p] > 0 => closes[p] > 0
        <4> HIDE DEF Publications
        <4> QED  BY <3>1
      <3>3. \A p \in Publications : (PublishSent(p)' => PublishSent(p)) /\ (CloseSent(p)' => CloseSent(p))
        BY <3>1, <3>2 DEF PublishSent, CloseSent
      <3> QED  BY <1>1, <1>3, <1>5, <1>6, <2>2, <2>3, <2>4, <3>1, <3>3 DEF Served
    <2> QED  BY <1>10, <2>5, <2>6 DEF HandleClose
  <1>11. ASSUME NEW l \in Lectures, HandleCloseSession(l) PROVE Served'
    <2>1. /\ l \in endings /\ endings' = endings \ {l} /\ cloudPub' = ClosedBut(l, 0)
          /\ UNCHANGED <<awaited, reply, publishes, closes, closedLate>>
      BY <1>11 DEF HandleCloseSession
    <2>2. Over(l)
      BY <2>1 DEF Served
    <2>3. ASSUME NEW p \in Publications
          PROVE  cloudPub'[p] = cloudPub[p]
                 \/ (cloudPub[p] = "open" /\ cloudPub'[p] = "closed" /\ Over(sessionOf[p]))
      BY <2>1, <2>2 DEF ClosedBut
    <2>4. \A p : (PublishSent(p)' => PublishSent(p)) /\ (CloseSent(p)' => CloseSent(p))
      BY <2>1 DEF PublishSent, CloseSent
    <2> QED  BY <1>1, <1>3, <1>5, <1>6, <2>1, <2>3, <2>4 DEF Served
  <1> QED  BY <1>1, <1>4, <1>8, <1>9, <1>10, <1>11 DEF CloudStep

LEMMA InvStep ==
  ASSUME Types, JobsOK, Served, [Next]_vars
  PROVE  JobsOK' /\ Served'
  <1> USE DEF local, worker, projector, cloud, rows, traffic
  <1>0. /\ jobs # <<>> => Current = jobs[1] /\ 1 \in 1..Len(jobs)
        /\ jobs # <<>> /\ Current.kind # "ended" => Current.on \in Publications
        /\ \A k, p, e : Job(k, p, e).kind = k /\ Job(k, p, e).on = p
        /\ \A k \in {"close", "show", "withdraw"}, p \in Publications : Job(k, p, 0) \in JobType
        /\ \A l \in Lectures : Job("ended", l, 0) \in JobType
    BY JobFacts, CurrentType, Constants DEF Types, Job, JobType
  <1>1. ASSUME NEW k \in {"close", "show", "withdraw"}, NEW p \in Publications, Enqueued(Job(k, p, 0)),
               k = "close" => State(p) = "open", k = "show" => State(p) # "none"
        PROVE  JobsOK' /\ Served'
    <2>1. /\ jobs' = Append(jobs, Job(k, p, 0))
          /\ UNCHANGED <<at, pub, lecture, recording, sessionOf, cloudPub, closedLate, awaited, reply, publishes,
                         closes, endings>>
      BY <1>1 DEF Enqueued, Queued
    <2> QED  BY <1>0, <1>1, <2>1, SameEndings, QueueStep
  <1>2. ASSUME NEW p \in Publications, Close(p) \/ Show(p) \/ Withdraw PROVE JobsOK' /\ Served'
    BY <1>1, <1>2, Constants DEF Close, Show, Withdraw, State
  <1>3. ASSUME EndLecture PROVE JobsOK' /\ Served'
    <2>1. /\ jobs' = Append(jobs, Job("ended", lecture, 0)) /\ endings' = endings \cup {lecture}
          /\ lecture' = lecture /\ recording' = FALSE
          /\ UNCHANGED <<at, pub, sessionOf, cloudPub, closedLate, awaited, reply, publishes, closes>>
      BY <1>3 DEF EndLecture
    <2>2. \A l \in Nat : Over(l) => Over(l)'
      BY <2>1, StaysOver DEF Types
    <2>3. Over(lecture)' /\ endings \subseteq Nat /\ lecture \in Lectures
      BY <2>1, Constants DEF Over, Types, LocalTypes, CloudTypes
    <2>4. \A l \in endings' : Over(l)'
      BY <2>1, <2>2, <2>3 DEF Served, Over
    <2> QED  BY <1>0, <2>1, <2>2, <2>3, <2>4, QueueStep
  <1>4. ASSUME StartLecture PROVE JobsOK' /\ Served'
    <2>1. /\ UNCHANGED <<jobs, at, pub, endings, sessionOf, cloudPub, closedLate, awaited, reply, publishes, closes>>
          /\ lecture' = lecture + 1
      BY <1>4 DEF StartLecture
    <2>2. \A p : State(p)' = State(p) /\ (PublishSent(p)' <=> PublishSent(p)) /\ (CloseSent(p)' <=> CloseSent(p))
      BY <2>1 DEF State, PublishSent, CloseSent
    <2> QED  BY <2>1, <2>2, GoesOnStep
  <1>5. ASSUME UNCHANGED <<awaited, publishes, closes>>
        PROVE  \A p : (PublishSent(p)' => PublishSent(p)) /\ (CloseSent(p)' => CloseSent(p))
    BY <1>5 DEF PublishSent, CloseSent
  <1>6. ASSUME (\E q \in Questions : Edit(q) \/ Discard(q)) \/ UNCHANGED vars PROVE JobsOK' /\ Served'
    <2>1. UNCHANGED <<jobs, at, pub, lecture, recording, cloud>>
      BY <1>6 DEF Edit, Discard, vars
    <2> QED  BY <1>5, <2>1, GoesOnStep DEF State
  <1>7. ASSUME StartShow PROVE JobsOK' /\ Served'
    <2>1. /\ UNCHANGED <<jobs, pub, lecture, recording, cloud>> /\ at = "start" /\ at' = "project"
          /\ jobs # <<>> /\ jobs[1].kind # "send"
      BY <1>0, <1>7 DEF StartShow, Running, Goes
    <2>2. awaited' = {}
      BY <2>1, NothingAwaited
    <2> QED  BY <1>5, <2>1, <2>2, GoesOnStep DEF State
  <1>8. ASSUME EndClosed PROVE JobsOK' /\ Served'
    <2>1. /\ UNCHANGED <<jobs, pub, lecture, recording, sessionOf, cloudPub, closedLate>> /\ at' = "project"
          /\ jobs # <<>> /\ jobs[1].kind # "send" /\ GivenUp
      BY <1>0, <1>8 DEF EndClosed, Running, Goes
    <2> QED  BY <2>1, GivenUpEffect, GoesOnStep DEF State, Types
  <1>9. ASSUME StartSend PROVE JobsOK' /\ Served'
    <2>1. jobs # <<>> /\ jobs[1].kind = "send" /\ jobs' = jobs /\ at = "start" /\ orphaned' \in BOOLEAN
          /\ Current = jobs[1]
      BY <1>0, <1>9 DEF StartSend, Running
    <2>2. ASSUME NEW p \in OpenIn(sessionOf[Current.on]), CloseRow(p, "next-question"), at' = "close"
          PROVE  JobsOK' /\ Served'
      BY <2>1, <2>2, CloseStep DEF OpenIn, InState, State
    <2>3. ASSUME OpenIn(sessionOf[Current.on]) = {}, Publish(orphaned'), at' = "publish" PROVE JobsOK' /\ Served'
      <3>1. \A p \in Publications : State(p) = "open" => sessionOf[p] # sessionOf[jobs[1].on]
        BY <2>1, <2>3 DEF OpenIn, InState, State
      <3>2. \E o \in BOOLEAN : Publish(o)
        BY <2>1, <2>3
      <3> QED  BY <2>1, <2>3, <3>1, <3>2, PublishStep
    <2> QED  BY <1>9, <2>2, <2>3 DEF StartSend
  <1>10. ASSUME SendGoesOn \/ Retry PROVE JobsOK' /\ Served'
    <2>1. /\ jobs # <<>> /\ jobs[1].kind = "send" /\ jobs' = jobs /\ at \in {"close", "publish"} /\ at' = "publish"
          /\ orphaned \in BOOLEAN /\ Publish(orphaned)
      BY <1>0, <1>10 DEF SendGoesOn, Retry, Running, Types, WorkerTypes
    <2>2. \A p \in Publications : State(p) = "open" => sessionOf[p] # sessionOf[jobs[1].on]
      BY <2>1 DEF JobsOK
    <2> QED  BY <2>1, <2>2, PublishStep
  <1>11. ASSUME SendFails PROVE JobsOK' /\ Served'
    <2>1. PICK c \in Publications : c = Current.on /\ SendAt(1, c)
      BY <1>0, <1>11 DEF SendFails, Running, SendAt
    <2>2. /\ jobs # <<>> /\ jobs' = Tail(jobs) /\ at' = "start" /\ at = "publish" /\ GivenUp
          /\ UNCHANGED <<lecture, recording, sessionOf, cloudPub, closedLate>>
      BY <1>11 DEF SendFails, Running, Done
    <2>3. State(c)' = "failed" /\ \A p \in Publications : p # c => State(p)' = State(p)
      BY <1>11, <2>1, PubChange DEF SendFails, State, Types
    <2> QED  BY <2>1, <2>2, <2>3, GivenUpEffect, DoneStep DEF Types
  <1>12. ASSUME StartClose PROVE JobsOK' /\ Served'
    <2>1. PICK c \in Publications : c = Current.on /\ c = jobs[1].on
      BY <1>0, <1>12 DEF StartClose, Running
    <2>2. /\ jobs # <<>> /\ jobs[1].kind = "close" /\ jobs' = jobs /\ at = "start" /\ at' = "close"
          /\ CloseRow(c, "lecturer-closed")
      BY <1>0, <1>12, <2>1 DEF StartClose, Running, Goes
    <2>3. State(c) \in {"open", "closed"}
      BY <1>0, <2>1, <2>2 DEF JobsOK
    <2> QED  BY <2>2, <2>3, CloseStep
  <1>13. ASSUME EndCloses PROVE JobsOK' /\ Served'
    <2>1. PICK c \in Publications : State(c) = "open" /\ CloseRow(c, "session-ended")
      BY <1>13 DEF EndCloses, OpenIn, InState, State
    <2>2. jobs # <<>> /\ jobs[1].kind = "ended" /\ jobs' = jobs /\ at = "start" /\ at' = "close"
      BY <1>0, <1>13 DEF EndCloses, Running, Goes
    <2> QED  BY <2>1, <2>2, CloseStep
  <1>14. ASSUME CloseDone PROVE JobsOK' /\ Served'
    <2>1. /\ jobs # <<>> /\ jobs' = Tail(jobs) /\ at' = "start" /\ GivenUp
          /\ UNCHANGED <<pub, lecture, recording, sessionOf, cloudPub, closedLate>>
      BY <1>14 DEF CloseDone, Running, Done
    <2> QED  BY <2>1, GivenUpEffect, DoneStep DEF State, Types
  <1>15. ASSUME ShowDone \/ WithdrawDone \/ EndDone PROVE JobsOK' /\ Served'
    <2>1. /\ jobs # <<>> /\ jobs' = Tail(jobs) /\ at \in {"start", "project"} /\ at' = "start"
          /\ UNCHANGED <<lecture, recording, cloud>>
      BY <1>15 DEF ShowDone, WithdrawDone, EndDone, Running, Done
    <2>2. awaited' = {}
      BY <2>1, NothingAwaited
    <2>3. UNCHANGED pub \/ \E what : Projects(what)
      BY <1>15 DEF ShowDone, WithdrawDone, EndDone
    <2>4. \A p \in Publications : State(p)' = State(p)
      BY <2>3, ProjectsEffect DEF Types, State
    <2> QED  BY <1>5, <2>1, <2>2, <2>4, DoneStep
  <1> QED
    BY <1>2, <1>3, <1>4, <1>6, <1>7, <1>8, <1>9, <1>10, <1>11, <1>12, <1>13, <1>14, <1>15, Constants,
       SendStep, AcceptedStep, CrashStep, ServiceStep DEF Next, Command, Worker

-----------------------------------------------------------------------------
(* The projector                                                           *)

LEMMA ShownStep ==
  ASSUME Types, JobsOK, Served, Shown, [Next]_vars
  PROVE  Shown'
  <1> USE DEF local, worker, projector
  <1>0. UNCHANGED sessionOf \/ \E q \in Questions : Send(q)
    BY DEF Next, Command, Worker, Edit, Discard, Close, Show, Withdraw, Enqueued, EndLecture, StartLecture,
           StartSend, SendGoesOn, Retry, SendFails, Accepted, StartClose, CloseDone, StartShow, ShowDone,
           WithdrawDone, EndCloses, EndClosed, EndDone, Crash, Publish, CloseRow, Cloud, CloudStep,
           HandlePublish, RefuseOrphaned, HandleClose, HandleCloseSession, vars, cloud, rows
  <1>1. ASSUME UNCHANGED <<display, unsure, sessionOf>>,
               \A p \in Publications : pub'[p].projector = pub[p].projector,
               \A p \in Publications : State(p)' = "none" => State(p) = "none"
        PROVE  Shown'
    BY <1>1 DEF Shown, State
  <1>2. ASSUME UNCHANGED <<display, unsure, pub, sessionOf>> PROVE Shown'
    BY <1>1, <1>2 DEF State
  <1>3. ASSUME NEW x \in Publications, NEW r \in {"next-question", "lecturer-closed", "session-ended"},
               CloseRow(x, r), UNCHANGED <<display, unsure>>
        PROVE  Shown'
    <2>1. \A p \in Publications :
            pub'[p].projector = pub[p].projector /\ (State(p)' = "none" => State(p) = "none")
      BY <1>3, CloseRowEffect DEF State
    <2> QED  BY <1>1, <1>3, <2>1, CloseRowEffect
  <1>4. ASSUME NEW q \in Questions, Send(q) PROVE Shown'
    <2>1. PICK x \in Publications : /\ State(x) = "none"
                                    /\ pub' = [pub EXCEPT ![x].state = "publishing", ![x].question = q]
                                    /\ sessionOf' = [sessionOf EXCEPT ![x] = LectureOf[q]]
      BY <1>4 DEF Send, Unused, InState, State
    <2>2. pub \in [Publications -> Publication] /\ pub[x] \in Publication /\ UNCHANGED <<display, unsure>>
      BY <1>4 DEF Types, LocalTypes, Send
    <2>3. pub' = [pub EXCEPT ![x] = [pub[x] EXCEPT !.state = "publishing", !.question = q]]
      BY <2>1
    <2>4. LET new == [pub[x] EXCEPT !.state = "publishing", !.question = q] IN
          new.projector = pub[x].projector /\ new.state = "publishing"
      BY <2>2 DEF Publication
    <2>5. \A p \in Publications :
            pub'[p].projector = pub[p].projector /\ (State(p)' = "none" => State(p) = "none")
      <3> HIDE DEF Publications
      <3> QED  BY <2>2, <2>3, <2>4 DEF State
    <2>6. pub[x].projector = "not-shown"
      BY <2>1 DEF Shown
    <2>7. \A p \in Publications : p # x => sessionOf'[p] = sessionOf[p]
      BY <2>1 DEF Types, CloudTypes
    <2>8. ASSUME ~unsure, NEW p \in Publications
          PROVE  IF display = Slides THEN pub'[p].projector # "showing"
                 ELSE sessionOf'[p] = sessionOf'[display] => (pub'[p].projector = "showing" <=> p = display)
      <3>1. CASE display = Slides
        BY <2>5, <2>8, <3>1 DEF Shown
      <3>2. CASE display # Slides
        <4>1. display \in Publications
          BY <3>2 DEF Types, WorkerTypes
        <4>2. pub[display].projector = "showing"
          BY <2>8, <3>2, <4>1 DEF Shown
        <4>3. display # x
          BY <2>6, <4>2
        <4>4. CASE p = x
          BY <2>5, <2>6, <3>2, <4>3, <4>4
        <4>5. CASE p # x
          <5>1. sessionOf'[p] = sessionOf[p] /\ sessionOf'[display] = sessionOf[display]
            BY <2>7, <4>1, <4>3, <4>5
          <5>2. sessionOf[p] = sessionOf[display] => (pub[p].projector = "showing" <=> p = display)
            BY <2>8, <3>2 DEF Shown
          <5> QED  BY <2>5, <3>2, <5>1, <5>2
        <4> QED  BY <4>4, <4>5
      <3> QED  BY <3>1, <3>2
    <2> QED  BY <2>2, <2>5, <2>8 DEF Shown, State
  <1>5. ASSUME SendFails \/ Accepted PROVE Shown'
    <2>1. Current.on \in Publications
      BY <1>5, CurrentType DEF SendFails, Accepted, Running, Types
    <2>2. PICK s \in {"failed", "open"} : pub' = [pub EXCEPT ![Current.on].state = s]
      BY <1>5 DEF SendFails, Accepted
    <2>3. \A p \in Publications :
            pub'[p].projector = pub[p].projector /\ (State(p)' = "none" => State(p) = "none")
      BY <2>1, <2>2, PubChange DEF Types, State
    <2> QED  BY <1>1, <1>5, <2>3 DEF SendFails, Accepted, rows
  <1>6. ASSUME StartClose \/ StartSend \/ EndCloses PROVE Shown'
    <2>1. StartClose => Current.on \in Publications
      BY CurrentType DEF StartClose, Running, Types
    <2>2. UNCHANGED <<display, unsure>>
      BY <1>6 DEF StartClose, StartSend, EndCloses
    <2>3. \/ UNCHANGED <<pub, sessionOf>>
          \/ \E x \in Publications, r \in {"next-question", "lecturer-closed", "session-ended"} : CloseRow(x, r)
      BY <1>6, <2>1 DEF StartClose, StartSend, EndCloses, Publish, OpenIn, InState, rows
    <2> QED  BY <1>2, <1>3, <2>2, <2>3
  <1>7. ASSUME NEW what \in {Slides} \cup Publications, Projects(what), UNCHANGED sessionOf,
               what # Slides => State(what) # "none"
        PROVE  Shown'
    <2>1. /\ \A p \in Publications : State(p)' = State(p)
          /\ \/ UNCHANGED <<pub, display, unsure>>
             \/ unsure' = TRUE /\ UNCHANGED pub
             \/ /\ unsure' = FALSE /\ display' = what
                /\ \A p \in Publications :
                     pub'[p].projector = IF p = what THEN "showing"
                                         ELSE IF p \in TakenBack(what) THEN "withdrawn" ELSE pub[p].projector
      BY <1>7, ProjectsEffect DEF Types, State
    <2>2. CASE UNCHANGED <<pub, display, unsure>>
      BY <1>2, <1>7, <2>2
    <2>3. CASE unsure' = TRUE /\ UNCHANGED pub
      BY <2>3 DEF Shown, State
    <2>4. CASE /\ unsure' = FALSE /\ display' = what
               /\ \A p \in Publications :
                    pub'[p].projector = IF p = what THEN "showing"
                                        ELSE IF p \in TakenBack(what) THEN "withdrawn" ELSE pub[p].projector
      <3>1. \A p \in Publications : p \in TakenBack(what) <=>
              p # what /\ pub[p].projector = "showing" /\ (what = Slides \/ sessionOf[p] = sessionOf[what])
        BY DEF TakenBack, Showing
      <3>2. \A p \in Publications : State(p)' = "none" => pub'[p].projector = "not-shown"
        BY <1>7, <2>1, <2>4, <3>1 DEF Shown
      <3>3. \A p \in Publications :
              IF display' = Slides THEN pub'[p].projector # "showing"
              ELSE sessionOf'[p] = sessionOf'[display'] => (pub'[p].projector = "showing" <=> p = display')
        BY <1>7, <2>4, <3>1
      <3> QED  BY <3>2, <3>3 DEF Shown, State
    <2> QED  BY <2>1, <2>2, <2>3, <2>4
  <1>8. ASSUME ShowDone PROVE Shown'
    <2>1. jobs # <<>> /\ at = "project" /\ Current.kind \in {"send", "show"}
      BY <1>8 DEF ShowDone, Running
    <2>2. Current.on \in Publications /\ Current = jobs[1] /\ 1 \in 1..Len(jobs)
      BY <2>1, CurrentType, JobFacts DEF Types
    <2>3. State(Current.on) # "none"
      <3>1. CASE jobs[1].kind = "send"
        <4>1. SendAt(1, jobs[1].on)
          BY <2>2, <3>1 DEF SendAt
        <4> QED  BY <2>2, <4>1 DEF JobsOK
      <3>2. CASE jobs[1].kind = "show"
        BY <2>2, <3>2 DEF JobsOK
      <3> QED  BY <2>1, <2>2, <3>1, <3>2
    <2>4. Projects(Current.on) /\ UNCHANGED sessionOf
      BY <1>8 DEF ShowDone, cloud
    <2> QED  BY <1>7, <2>2, <2>3, <2>4
  <1>9. ASSUME WithdrawDone \/ EndDone PROVE Shown'
    <2>1. UNCHANGED sessionOf /\ (UNCHANGED <<display, unsure, pub>> \/ Projects(Slides))
      BY <1>9 DEF WithdrawDone, EndDone, cloud
    <2> QED  BY <1>2, <1>7, <2>1
  <1>10. ASSUME Crash PROVE Shown'
    <2>0. UNCHANGED <<pub, sessionOf>>
      BY <1>10 DEF Crash, rows
    <2>1. CASE UNCHANGED projector
      BY <1>2, <2>0, <2>1
    <2>2. CASE unsure' = TRUE
      BY <2>0, <2>2 DEF Shown, State
    <2> QED  BY <1>10, <2>1, <2>2 DEF Crash
  <1>11. ASSUME \/ \E q \in Questions : Edit(q) \/ Discard(q)
                \/ \E p \in Publications : Close(p) \/ Show(p)
                \/ Withdraw \/ EndLecture \/ StartLecture \/ SendGoesOn \/ Retry \/ CloseDone \/ StartShow
                \/ EndClosed \/ Cloud \/ UNCHANGED vars
         PROVE  Shown'
    <2>1. UNCHANGED <<display, unsure, pub>>
      BY <1>11 DEF Edit, Discard, Close, Show, Withdraw, Enqueued, EndLecture, StartLecture, SendGoesOn, Retry,
                   Publish, CloseDone, StartShow, EndClosed, Cloud, vars
    <2> QED  BY <1>0, <1>2, <1>4, <2>1
  <1> QED  BY <1>4, <1>5, <1>6, <1>8, <1>9, <1>10, <1>11 DEF Next, Command, Worker

LEMMA InvInit ==
  Init => QInv
  <1> SUFFICES ASSUME Init PROVE QInv
    OBVIOUS
  <1>1. jobs = <<>> /\ \A i : i \notin 1..Len(jobs)
    <2>1. jobs = <<>>
      BY DEF Init
    <2>2. Len(jobs) = 0
      BY <2>1
    <2> QED  BY <2>1, <2>2
  <1>2. /\ \A p \in Publications : /\ State(p) = "none" /\ cloudPub[p] = "none" /\ pub[p].projector = "not-shown"
                                   /\ publishes[p] = 0 /\ closes[p] = 0
        /\ awaited = {} /\ endings = {}
    BY DEF Init, CloudInit, State
  <1>3. JobsOK
    BY <1>1, <1>2 DEF JobsOK, SendAt
  <1>4. \A p \in Publications : ~PublishSent(p) /\ ~CloseSent(p) /\ ~Publishing(p)
    BY <1>1, <1>2 DEF PublishSent, CloseSent, Publishing, SendAt
  <1>5. Served
    BY <1>2, <1>4 DEF Served
  <1>6. Shown
    BY <1>2 DEF Init, Shown
  <1> QED  BY <1>3, <1>5, <1>6, TypesInit DEF QInv

-----------------------------------------------------------------------------
(* The theorems                                                            *)

THEOREM InvariantHolds == Spec => []QInv
  <1>1. QInv /\ [Next]_vars => QInv'
    BY TypesStep, InvStep, ShownStep DEF QInv
  <1> QED  BY InvInit, <1>1, PTL DEF Spec

(* The rows, the executor, the projector and the service keep their types. *)
THEOREM TypeCorrect == Spec => []TypeOK
  <1>1. QInv => TypeOK
    <2> SUFFICES ASSUME QInv PROVE TypeOK
      OBVIOUS
    <2>1. \A i \in 1..Len(jobs) : jobs[i] \in JobType
      BY ElementOfSeq DEF QInv, Types, WorkerTypes
    <2>2. DOMAIN jobs = 1..Len(jobs)
      BY LenProperties DEF QInv, Types, WorkerTypes
    <2>3. \A i \in DOMAIN jobs :
            /\ jobs[i].kind \in {"send", "close", "show", "withdraw", "ended"}
            /\ jobs[i].on \in (IF jobs[i].kind = "ended" THEN Lectures ELSE Publications)
            /\ jobs[i].edition \in 0..MaxEvents
      BY <2>1, <2>2 DEF JobType
    <2>4. question \in [Questions -> [state : {"draft", "sent", "closed", "discarded"}, edition : 0..MaxEvents]]
      BY DEF QInv, Types, LocalTypes, QuestionType
    <2>5. pub \in [Publications -> [state : {"none", "publishing", "open", "closed", "failed"},
                               question : Questions \cup {NoQuestion},
                               reason : {"none", "next-question", "lecturer-closed", "session-ended"},
                               projector : {"not-shown", "showing", "withdrawn"}]]
      BY DEF QInv, Types, LocalTypes, Publication
    <2> HIDE DEF Publications, Slides
    <2> QED  BY <2>3, <2>4, <2>5 DEF TypeOK, QInv, Types, LocalTypes, WorkerTypes, CloudTypes
  <1> QED  BY InvariantHolds, <1>1, PTL

(* At most one publication of a quiz session is open: work that was queued *)
(* finds its publication as the command left it, and a publish that is     *)
(* accepted finds none open (INV-QPUB-1).                                  *)
THEOREM OneIsOpen == Spec => []OneOpen
  <1>1. QInv => OneOpen
    <2> SUFFICES ASSUME QInv, NEW l \in Lectures PROVE Cardinality(OpenIn(l)) <= 1
      BY DEF OneOpen
    <2>1. \A p, q \in OpenIn(l) : p = q
      BY DEF QInv, JobsOK, State, OpenIn, InState
    <2>2. CASE OpenIn(l) = {}
      BY <2>2, FS_EmptySet
    <2>3. CASE OpenIn(l) # {}
      <3>1. PICK p : OpenIn(l) = {p}
        BY <2>1, <2>3
      <3>2. Cardinality({p}) = 1
        BY FS_Singleton
      <3> QED  BY <3>1, <3>2
    <2> QED  BY <2>2, <2>3
  <1> QED  BY InvariantHolds, <1>1, PTL

(* Students can answer the publication that is open while its lecture      *)
(* runs, in whatever order the service handles what was asked of it before *)
(* and given up, unless one of these requests is a publish that closes it. *)
THEOREM OpenCanBeAnswered == Spec => []OpenIsAnswerable
  <1>1. QInv => OpenIsAnswerable
    <2> SUFFICES ASSUME QInv, NEW p \in Publications, State(p) = "open"
                 PROVE  cloudPub[p] = "open" \/ Over(sessionOf[p]) \/ p \in closedLate
      BY DEF OpenIsAnswerable, InState, State
    <2>1. cloudPub[p] \in {"none", "open", "closed"}
      BY DEF QInv, Types, CloudTypes
    <2> QED  BY <2>1 DEF QInv, Served
  <1> QED  BY InvariantHolds, <1>1, PTL

(* Of the quiz session of what is on the projector, that is said to be     *)
(* shown and nothing else is, and nothing at all with the slides, unless   *)
(* the answer of the last call was lost.                                   *)
THEOREM ShownIsProjected == Spec => []ShowingIsDisplayed
  <1>1. QInv => ShowingIsDisplayed
    <2> SUFFICES ASSUME QInv, ~unsure
                 PROVE  IF display = Slides THEN Showing = {}
                        ELSE {p \in Showing : sessionOf[p] = sessionOf[display]} = {display}
      BY DEF ShowingIsDisplayed
    <2>1. display \in {Slides} \cup Publications
      BY DEF QInv, Types, WorkerTypes
    <2>2. CASE display = Slides
      BY <2>2 DEF QInv, Shown, Showing
    <2>3. CASE display # Slides
      <3>1. display \in Publications
        BY <2>1, <2>3
      <3>2. \A p \in Publications : sessionOf[p] = sessionOf[display] => (p \in Showing <=> p = display)
        BY <2>3 DEF QInv, Shown, Showing
      <3>3. Showing \subseteq Publications
        BY DEF Showing
      <3> HIDE DEF Publications, Slides
      <3> QED  BY <2>3, <3>1, <3>2, <3>3
    <2> QED  BY <2>2, <2>3
  <1> QED  BY InvariantHolds, <1>1, PTL

===============================================================================
