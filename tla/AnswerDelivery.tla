----------------------------- MODULE AnswerDelivery -----------------------------
(***************************************************************************)
(* What the link between the quiz service and the device promises (machine *)
(* 4d): the device has the answers the service accepted up to some number, *)
(* no answer before it is missing, and what it has it keeps. It gets all   *)
(* of them while it can store every one; an answer whose option an edit    *)
(* removed is barred, and the device never gets past it.                   *)
(***************************************************************************)
EXTENDS Naturals

CONSTANT MaxAnswers

VARIABLES accepted, delivered, barred

vars == <<accepted, delivered, barred>>

Init == accepted = 0 /\ delivered = 0 /\ barred = {}

Accept ==
  /\ accepted < MaxAnswers
  /\ accepted' = accepted + 1
  /\ barred' \in {barred, barred \cup {accepted + 1}}
  /\ UNCHANGED delivered

Deliver ==
  /\ delivered' \in (delivered + 1)..accepted
  /\ barred \cap 1..delivered' = {}
  /\ UNCHANGED <<accepted, barred>>

(* Only answers that are not stored yet.                                   *)
Bar ==
  /\ barred \subseteq barred' /\ barred' \subseteq (delivered + 1)..accepted
  /\ UNCHANGED <<accepted, delivered>>

Next == Accept \/ Deliver \/ Bar

Safety == Init /\ [][Next]_vars
Spec == Safety /\ WF_vars(barred = {} /\ Deliver)
================================================================================
