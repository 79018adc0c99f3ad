------------------------------- MODULE QuizCloud -------------------------------
(***************************************************************************)
(* The quiz service as the device drives it: a quiz session for each       *)
(* lecture, its publications, and the requests of the device that have not *)
(* been handled (quiz-service/src/device/publication-routes.ts and         *)
(* session-routes.ts). Each request is an HTTP call of its own and waits   *)
(* for the device's authentication before it takes its turn in the         *)
(* session's serial, so any request may be handled next: one that the      *)
(* device has given up, long after those it has sent since.                *)
(***************************************************************************)
EXTENDS Naturals, Sequences

CONSTANTS
  MaxSends,    \* bound on commands that send a question to the projector
  MaxLectures  \* bound on lectures

ASSUME SendsAssumption == MaxSends \in Nat \ {0} /\ MaxLectures \in Nat \ {0}

Publications == 1..MaxSends
Lectures == 1..MaxLectures

VARIABLES
  sessionOf,     \* quizSessionId of a publication, by its lecture; 0: not made yet
  cloudSession,  \* quiz_sessions.state, none when there is no row
  cloudPub,      \* publications.state, none when there is no row
  awaited,       \* the request the device waits for, if any
  reply,         \* to the request the device waits for
  publishes,     \* of each publication, publishes given up that may still be handled
  closes,        \* and closes given up that may still be handled
  endings,       \* lectures whose end the service has still to hear of
  closedLate     \* publications closed by a publish that had been given up

cloud == <<sessionOf, cloudSession, cloudPub, awaited, reply, publishes, closes, endings, closedLate>>

(* A publish is orphaned when its correct option is not an option of it.   *)
Requests == [op : {"publish", "close"}, on : Publications, orphaned : BOOLEAN]
Request(op, p, orphaned) == [op |-> op, on |-> p, orphaned |-> orphaned]

CloudInit ==
  /\ sessionOf = [p \in Publications |-> 0]
  /\ cloudSession = [l \in Lectures |-> IF l = 1 THEN "open" ELSE "none"]
  /\ cloudPub = [p \in Publications |-> "none"]
  /\ awaited = {} /\ reply = "none"
  /\ publishes = [p \in Publications |-> 0] /\ closes = [p \in Publications |-> 0]
  /\ endings = {} /\ closedLate = {}

(* A request given up may still be handled; if it is lost, it never is.    *)
(* Nothing becomes of an orphaned publish: it is refused unseen.           *)
OneMore(sent, op) ==
  [p \in Publications |-> IF Request(op, p, FALSE) \in awaited THEN sent[p] + 1 ELSE sent[p]]
Shed == publishes' = OneMore(publishes, "publish") /\ closes' = OneMore(closes, "close")

(* The device waits for a request, the one before answered or given up.    *)
Ask(request) == awaited' = {request} /\ reply' = "none" /\ Shed /\ UNCHANGED endings

(* The wait ends: with the answer, or with the connection lost or the      *)
(* deadline over, the request handled or not.                              *)
Answered(r) == reply = r /\ reply' = "none" /\ UNCHANGED <<awaited, publishes, closes, endings>>
GivenUp == awaited' = {} /\ reply' = "none" /\ Shed /\ UNCHANGED endings

(* A request is handled while it is waited for, or when it is not.         *)
Heard(request, outcome) ==
  /\ request \in awaited
  /\ awaited' = {} /\ reply' = outcome
  /\ UNCHANGED <<publishes, closes>>
OneLess(sent, p) == sent[p] > 0 /\ sent' = [sent EXCEPT ![p] = @ - 1] /\ UNCHANGED <<awaited, reply>>

(* quizSyncPublish: refused when the session is not open or the correct    *)
(* option is not among the options; closes the session's open publication  *)
(* when that is another one; a publication that exists keeps its state.    *)
ClosedAll(l, p) == [x \in Publications |-> IF sessionOf[x] = l /\ cloudPub[x] = "open" THEN "closed" ELSE cloudPub[x]] \* mutant
ClosedBut(l, p) == [x \in Publications |->
  IF x # p /\ sessionOf[x] = l /\ cloudPub[x] = "open" THEN "closed" ELSE cloudPub[x]]

Closed == {p \in Publications : cloudPub[p] = "open" /\ cloudPub'[p] = "closed"}

HandlePublish(p) ==
  /\ Request("publish", p, FALSE) \in awaited \/ publishes[p] > 0
  /\ cloudPub' = IF cloudSession[sessionOf[p]] # "open" THEN cloudPub
                 ELSE [ClosedBut(sessionOf[p], p) EXCEPT ![p] = IF @ = "none" THEN "open" ELSE @]
  /\ \/ /\ Heard(Request("publish", p, FALSE), IF cloudSession[sessionOf[p]] = "open" THEN "ok" ELSE "refused")
        /\ UNCHANGED closedLate
     \/ /\ OneLess(publishes, p)
        /\ closedLate' = closedLate \cup Closed
        /\ UNCHANGED closes
  /\ UNCHANGED <<sessionOf, cloudSession, endings>>

RefuseOrphaned(p) ==
  /\ Heard(Request("publish", p, TRUE), "refused")
  /\ UNCHANGED <<sessionOf, cloudSession, cloudPub, endings, closedLate>>

(* quizSyncClosePublication: answers 204 whatever it finds.                *)
HandleClose(p) ==
  /\ \/ Heard(Request("close", p, FALSE), "ok")
     \/ OneLess(closes, p) /\ UNCHANGED publishes
  /\ cloudPub' = [cloudPub EXCEPT ![p] = IF @ = "open" THEN "closed" ELSE @]
  /\ UNCHANGED <<sessionOf, cloudSession, endings, closedLate>>

(* quizSyncCloseSession closes the open publication with the session; the  *)
(* device does not wait for it.                                            *)
HandleCloseSession(l) ==
  /\ l \in endings /\ endings' = endings \ {l}
  /\ cloudSession' = [cloudSession EXCEPT ![l] = "closed"]
  /\ cloudPub' = ClosedBut(l, 0)
  /\ UNCHANGED <<sessionOf, awaited, reply, publishes, closes, closedLate>>

CloudStep ==
  \/ \E p \in Publications : HandlePublish(p) \/ RefuseOrphaned(p) \/ HandleClose(p)
  \/ \E l \in Lectures : HandleCloseSession(l)
================================================================================
