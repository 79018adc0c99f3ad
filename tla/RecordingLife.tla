----------------------------- MODULE RecordingLife -----------------------------
(***************************************************************************)
(* What the library promises of a recording from the moment it is queued   *)
(* for upload: it is queued once and stays queued, a delivery is kept by   *)
(* the lecture server, and its media are removed once and for good, by an  *)
(* administrator at any time, by the system only after the delivery.       *)
(***************************************************************************)
CONSTANT Recordings

VARIABLES
  queued,      \* recordings that have an upload job
  delivered,   \* those the lecture server holds, complete
  removed      \* who removed the media of each, "none" while they are there

life == <<queued, delivered, removed>>

LifeInit ==
  /\ queued = {} /\ delivered = {}
  /\ removed = [r \in Recordings |-> "none"]

Queue(r) ==
  /\ r \notin queued
  /\ queued' = queued \cup {r}
  /\ UNCHANGED <<delivered, removed>>

(* A transfer under way is not aborted when the media are removed. *)
Deliver(r) ==
  /\ r \in queued \ delivered
  /\ delivered' = delivered \cup {r}
  /\ UNCHANGED <<queued, removed>>

Remove(r, why) ==
  /\ r \in queued /\ removed[r] = "none"
  /\ why = "system" => r \in delivered
  /\ removed' = [removed EXCEPT ![r] = why]
  /\ UNCHANGED <<queued, delivered>>

LifeNext ==
  \E r \in Recordings :
    \/ Queue(r) \/ Deliver(r)
    \/ \E why \in {"admin", "system"} : Remove(r, why)

LifeSpec == LifeInit /\ [][LifeNext]_life
================================================================================
