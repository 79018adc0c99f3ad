----------------------------- MODULE PmEventFeed -----------------------------
(***************************************************************************)
(* What core-api is promised of the events of the pipeline manager:        *)
(* however connections break and managers restart, the events it hears are *)
(* heard in the order they were published and none is heard twice, and     *)
(* whatever it does not hear is covered by a status read later.            *)
(*                                                                         *)
(* Events are numbered in the order of their publication.                  *)
(***************************************************************************)
EXTENDS Naturals

VARIABLES
  published,   \* number of events published so far
  heard,       \* the events core-api has passed on to its listeners
  informed     \* the last event covered by a status it has passed on

feed == <<published, heard, informed>>

FeedInit == published \in Nat /\ heard = {} /\ informed = 0

PublishNext == published' = published + 1 /\ UNCHANGED <<heard, informed>>

Hear(n) ==
  /\ n \in 1..published
  /\ \A h \in heard : h < n
  /\ heard' = heard \cup {n}
  /\ UNCHANGED <<published, informed>>

Inform(n) ==
  /\ n \in 1..published /\ n > informed
  /\ informed' = n
  /\ UNCHANGED <<published, heard>>

FeedNext ==
  \/ PublishNext
  \/ \E n \in 1..published : Hear(n) \/ Inform(n)

FeedSafety == FeedInit /\ [][FeedNext]_feed

FeedSpec == FeedSafety /\ WF_feed(\E n \in 1..published : Inform(n))
=============================================================================
