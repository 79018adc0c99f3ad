------------------------------- MODULE AnswerSync -------------------------------
(***************************************************************************)
(* The answers of the students on their way to the device, for one quiz    *)
(* session. The quiz service numbers each answer it accepts; the device    *)
(* opens a stream, says up to which number it has them (sync.hello), gets  *)
(* the rest and then what is accepted, collected about once a second       *)
(* (quiz-service student/answers.ts, device/stream.ts, device/batchers.ts; *)
(* core-api modules/quiz/sync/stream.ts, responses.ts, session.ts).        *)
(* Streams break and are reopened, and either side may restart.            *)
(*                                                                         *)
(* Modules QuizPublication and QuizCloud say when a publication is open;   *)
(* here they open one after another. Participant counts are left out.      *)
(***************************************************************************)
EXTENDS Naturals, Sequences, FiniteSets

CONSTANTS
  Students,
  MaxPublications,
  ChunkSize,      \* answers in one frame
  MaxAnswers,     \* bound on answers accepted
  MaxStreams,     \* bound on streams opened
  MaxEdits        \* bound on options removed by edits

ASSUME BoundsAssumption ==
  /\ MaxPublications \in Nat /\ MaxAnswers \in Nat /\ ChunkSize \in Nat \ {0}
  /\ MaxStreams \in Nat /\ MaxEdits \in Nat

VARIABLES
  answers,      \* the service's answers, in the order of their seq
  published,    \* publications opened so far; the newest
  accepting,    \* is open
  stream,       \* the device's newest stream; none is older than it
  link,         \* what the device has of it
  hellos,       \* sync.hello of a stream on its way to the service
  hub,          \* the stream the service has registered, 0 for none
  watermark,    \* DeviceBatcher: last number sent on it
  dirty,        \* DeviceBatcher: answers came since the last flush
  flushes,      \* flushes reading the database
  wire,         \* frames on their way to the device on its stream
  rows,         \* the device's answer_projections, by seq
  lastAnswerSeq,\* quiz_session_projections.last_answer_seq
  draft,        \* publications whose question core-api still takes for a draft
  gone,         \* <<publication, student>>: the option was removed by an edit
  syncState,    \* machine 4d as the session machine has it
  pubSync,      \* question_publications.sync_state
  adopted       \* the publication open and stale when core-api restarted last

service == <<answers, published, accepting>>
batcher == <<hub, watermark, dirty, flushes>>
transport == <<stream, link, hellos, wire>>
device == <<rows, lastAnswerSeq>>
question == <<draft, gone>>
marks == <<syncState, pubSync, adopted>>
vars == <<service, batcher, transport, device, question, marks>>

Publications == 1..MaxPublications
Spare == stream < MaxStreams      \* the last stream does not break
Frame == [from : Nat, to : Nat]   \* the answers numbered from + 1 to to

TypeOK ==
  /\ answers \in Seq(Publications \X Students)
  /\ published \in 0..MaxPublications /\ accepting \in BOOLEAN
  /\ stream \in 0..MaxStreams /\ link \in {"down", "connecting", "up"}
  /\ hellos \subseteq [stream : 1..MaxStreams, after : Nat]
  /\ hub \in 0..MaxStreams /\ watermark \in Nat /\ dirty \in BOOLEAN
  /\ flushes \subseteq [stream : 1..MaxStreams, from : Nat, to : Nat]
  /\ wire \in Seq(Frame)
  /\ rows \subseteq Nat /\ lastAnswerSeq \in Nat
  /\ syncState \in {"synced", "stale", "failed"}
  /\ pubSync \in [Publications -> {"synced", "stale"}]
  /\ draft \subseteq Publications /\ gone \subseteq Publications \X Students
  /\ adopted \in 0..MaxPublications

Init ==
  /\ answers = <<>> /\ published = 0 /\ accepting = FALSE
  /\ stream = 0 /\ link = "down" /\ hellos = {} /\ wire = <<>>
  /\ hub = 0 /\ watermark = 0 /\ dirty = FALSE /\ flushes = {}
  /\ rows = {} /\ lastAnswerSeq = 0
  /\ syncState = "synced" /\ pubSync = [p \in Publications |-> "synced"]
  /\ draft = Publications /\ gone = {} /\ adopted = 0

----------------------------------------------------------------------------
(* The quiz service                                                        *)

(* The next publication opens, the one before is closed; or it closes.     *)
OpenNext ==
  /\ published < MaxPublications
  /\ published' = published + 1 /\ accepting' = TRUE
  /\ UNCHANGED <<answers, batcher, transport, device, question, marks>>

CloseOpen ==
  /\ accepting
  /\ accepting' = FALSE
  /\ UNCHANGED <<answers, published, batcher, transport, device, question, marks>>

(* submitAnswer: one of each student for each publication; numbered and    *)
(* stored in one transaction, then the stream's batcher is told.           *)
Submit(s) ==
  /\ accepting /\ Len(answers) < MaxAnswers
  /\ \A n \in DOMAIN answers : answers[n] # <<published, s>>
  /\ answers' = Append(answers, <<published, s>>)
  /\ dirty' = (hub # 0)
  /\ UNCHANGED <<published, accepting, hub, watermark, flushes, transport, device, question, marks>>

(* Rows above a watermark, as frames of at most ChunkSize answers.         *)
Chunks(from, to) ==
  [i \in 1..((to - from + ChunkSize - 1) \div ChunkSize) |->
     [from |-> from + (i - 1) * ChunkSize,
      to |-> IF from + i * ChunkSize < to THEN from + i * ChunkSize ELSE to]]

(* What the service sends arrives while the stream it sends on is the      *)
(* device's and both have it.                                              *)
Sent(to, frames) == wire' = IF to = stream /\ link = "up" THEN wire \o frames ELSE wire

(* Mutant: a new stream goes on where the one before stopped.              *)
AttachFromWatermark(hello) ==
  /\ hello.stream = stream \/ hub # stream \/ Spare
  /\ hellos' = hellos \ {hello}
  /\ hub' = hello.stream
  /\ watermark' = Len(answers)
  /\ dirty' = FALSE
  /\ Sent(hello.stream, Chunks(watermark, Len(answers)))
  /\ UNCHANGED <<service, stream, link, flushes, device, question, marks>>

(* DeviceStreamHub.attach, one at a time with the answers of the session:  *)
(* the stream replaces the one registered, and is sent what the device     *)
(* does not have; the batcher starts after that.                           *)
Attach(hello) ==
  /\ hello.stream = stream \/ hub # stream \/ Spare
  /\ hellos' = hellos \ {hello}
  /\ hub' = hello.stream
  /\ watermark' = Len(answers)
  /\ dirty' = FALSE
  /\ Sent(hello.stream, Chunks(hello.after, Len(answers)))
  /\ UNCHANGED <<service, stream, link, flushes, device, question, marks>>

(* DeviceBatcher.#flush: the flag is cleared, the rows are read, then they *)
(* are sent; a flush may start before the one before it has read.          *)
StartFlush ==
  /\ hub # 0 /\ dirty
  /\ dirty' = FALSE
  /\ flushes' = flushes \cup {[stream |-> hub, from |-> watermark, to |-> Len(answers)]}
  /\ UNCHANGED <<service, hub, watermark, transport, device, question, marks>>

(* Mutant: the flag is cleared after the rows are sent.                    *)
FlushClearsLate(f) ==
  /\ flushes' = flushes \ {f}
  /\ dirty' = FALSE
  /\ IF f.stream = hub
     THEN /\ watermark' = IF f.from < f.to THEN f.to ELSE watermark
          /\ Sent(hub, Chunks(f.from, f.to))
     ELSE UNCHANGED <<watermark, wire>>
  /\ UNCHANGED <<service, hub, stream, link, hellos, device, question, marks>>

Flush(f) ==
  /\ flushes' = flushes \ {f}
  /\ IF f.stream = hub
     THEN /\ watermark' = IF f.from < f.to THEN f.to ELSE watermark
          /\ Sent(hub, Chunks(f.from, f.to))
     ELSE UNCHANGED <<watermark, wire>>
  /\ UNCHANGED <<service, hub, dirty, stream, link, hellos, device, question, marks>>

(* The stream is closed at the service: the socket closed, failed, or was  *)
(* silent too long (#detach, #armIdle).                                    *)
Detach ==
  /\ hub # 0 /\ (hub = stream => Spare)
  /\ hub' = 0 /\ dirty' = FALSE
  /\ UNCHANGED <<service, watermark, flushes, transport, device, question, marks>>

RestartService ==
  /\ Spare
  /\ hub' = 0 /\ dirty' = FALSE /\ flushes' = {} /\ hellos' = {}
  /\ UNCHANGED <<service, watermark, stream, link, wire, device, question, marks>>

----------------------------------------------------------------------------
(* The device                                                              *)

Connect ==
  /\ link = "down" /\ Spare
  /\ stream' = stream + 1 /\ link' = "connecting" /\ wire' = <<>>
  /\ UNCHANGED <<service, batcher, hellos, device, question, marks>>

(* The stream opens: hello with the durable watermark.                     *)
Hello ==
  /\ link = "connecting"
  /\ link' = "up"
  /\ hellos' = hellos \cup {[stream |-> stream, after |-> lastAnswerSeq]}
  /\ UNCHANGED <<service, batcher, stream, wire, device, question, marks>>

(* The stream is closed or lost at the device.                             *)
Drop ==
  /\ link # "down" /\ Spare
  /\ link' = "down" /\ wire' = <<>>
  /\ UNCHANGED <<service, batcher, stream, hellos, device, question, marks>>

(* recordSyncActivity: any frame counts. The marks of the session and of   *)
(* the publication that is open are taken back.                            *)
Open == IF accepting THEN published ELSE 0

TakenByAnswersOnly(ps) == [p \in Publications |-> IF p \in ps THEN "synced" ELSE pubSync[p]] \* mutant

Taken(ps) == [p \in Publications |-> IF p \in ps \/ (p = Open /\ syncState # "synced") THEN "synced" ELSE pubSync[p]]

Heartbeat ==
  /\ link = "up" /\ hub = stream
  /\ syncState' = "synced" /\ pubSync' = Taken({})
  /\ UNCHANGED <<service, batcher, transport, device, question, adopted>>

(* The first frame names an option that is no longer there.                *)
Refused == \E a \in (Head(wire).from + 1)..Head(wire).to : answers[a] \in gone

(* ingestAnswers: rows and watermark in one transaction.                   *)
Ingest ==
  /\ wire # <<>> /\ ~Refused
  /\ LET f == Head(wire) IN
     /\ rows' = rows \cup (f.from + 1)..f.to
     /\ lastAnswerSeq' = IF f.to > lastAnswerSeq THEN f.to ELSE lastAnswerSeq
     /\ pubSync' = Taken({answers[a][1] : a \in (f.from + 1)..f.to})
  /\ wire' = Tail(wire)
  /\ syncState' = "synced"
  /\ UNCHANGED <<service, batcher, stream, link, hellos, question, adopted>>

(* #goStale and #goFailed: no frame for 15 and for 60 seconds.             *)
GoStale ==
  /\ syncState = "synced"
  /\ syncState' = "stale"
  /\ pubSync' = [p \in Publications |-> IF p = Open THEN "stale" ELSE pubSync[p]]
  /\ UNCHANGED <<service, batcher, transport, device, question, adopted>>

(* Mutant: the open publication fails with the session.                    *)
GoFailedMarks ==
  /\ syncState = "stale"
  /\ syncState' = "failed"
  /\ pubSync' = [p \in Publications |-> IF p = Open THEN "failed" ELSE pubSync[p]]
  /\ UNCHANGED <<service, batcher, transport, device, question, adopted>>

GoFailed ==
  /\ syncState = "stale"
  /\ syncState' = "failed"
  /\ UNCHANGED <<service, batcher, transport, device, question, pubSync, adopted>>

(* core-api ends, restarts and adopts its open session as synced.          *)
Restarted ==
  /\ link' = "down" /\ wire' = <<>>
  /\ syncState' = "synced"
  /\ adopted' = IF Open # 0 /\ pubSync[Open] = "stale" THEN Open ELSE adopted
  /\ UNCHANGED <<service, batcher, stream, hellos, device, question, pubSync>>

RestartDevice == Spare /\ Restarted

(* The transaction of ingestAnswers fails on the foreign key and nothing   *)
(* catches it: core-api ends, and is sent the same rows on every stream.   *)
IngestFails == wire # <<>> /\ Refused /\ Restarted

(* The publish of p is answered: the question is no draft any more.        *)
MarkSent(p) ==
  /\ p \in draft /\ p <= published
  /\ draft' = draft \ {p}
  /\ UNCHANGED <<service, batcher, transport, device, gone, marks>>

(* editQuestion while the publish is under way or after it was given up:   *)
(* the option that s selects goes. The foreign key keeps the options of    *)
(* stored answers.                                                         *)
EditQuestion(p, s) ==
  /\ p \in draft /\ p <= published
  /\ Cardinality(gone) < MaxEdits
  /\ \A n \in rows : answers[n] # <<p, s>>
  /\ gone' = gone \cup {<<p, s>>}
  /\ UNCHANGED <<service, batcher, transport, device, draft, marks>>

----------------------------------------------------------------------------
Service ==
  \/ OpenNext \/ CloseOpen
  \/ \E s \in Students : Submit(s)
  \/ \E h \in hellos : Attach(h)
  \/ StartFlush \/ \E f \in flushes : Flush(f)
  \/ Detach \/ RestartService

Device ==
  \/ Connect \/ Hello \/ Drop
  \/ Heartbeat \/ Ingest \/ IngestFails
  \/ GoStale \/ GoFailed
  \/ RestartDevice
  \/ \E p \in Publications : MarkSent(p) \/ \E s \in Students : EditQuestion(p, s)

Next == Service \/ Device

Spec == Init /\ [][Next]_vars

(* A stream the service has closed is found closed by the device.          *)
Closed == link = "up" /\ hub # stream /\ \A h \in hellos : h.stream # stream

(* The stream is reopened without end, the service reads and sends what    *)
(* it has, and its heartbeats arrive.                                      *)
FairSpec ==
  /\ Spec
  /\ WF_vars(Connect) /\ WF_vars(Hello) /\ WF_vars(Closed /\ Drop)
  /\ WF_vars(\E h \in hellos : h.stream = stream /\ Attach(h))
  /\ WF_vars(StartFlush) /\ WF_vars(\E f \in flushes : Flush(f))
  /\ WF_vars(Ingest) /\ WF_vars(Heartbeat)

----------------------------------------------------------------------------
(* Properties                                                              *)

(* The device has every answer up to its watermark and none above it,      *)
(* whatever frames were lost, repeated or sent by overlapping flushes.     *)
NoGap == rows = 1..lastAnswerSeq

(* The stream delivers the answers in order and keeps them, and delivers   *)
(* all while none among them names an option that was removed.             *)
Delivery == INSTANCE AnswerDelivery WITH
  accepted <- Len(answers), delivered <- lastAnswerSeq,
  barred <- {n \in DOMAIN answers : answers[n] \in gone}

DeliverySafe == Delivery!Safety
Delivered == Delivery!Spec

(* The answers to the open publication are marked stale only while the     *)
(* session is, but for one that was stale when core-api restarted and      *)
(* adopted the session as synced (Z-30, Z-31).                             *)
MarkOfOpenIsTrue ==
  Open # 0 /\ pubSync[Open] = "stale" => syncState # "synced" \/ Open = adopted

----------------------------------------------------------------------------
(* What the documents say                                                  *)

(* No answer is sent twice on one stream.                                  *)
SentOnce == \A i, j \in DOMAIN wire : i < j => wire[i].to <= wire[j].from
================================================================================
