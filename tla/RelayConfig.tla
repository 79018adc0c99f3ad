------------------------------ MODULE RelayConfig ------------------------------
(***************************************************************************)
(* The push targets of the streaming relay (modules/relay/config.ts). The  *)
(* activator caches the digest of the last reload the helper confirmed and *)
(* compares with it before it awaits the helper, so two operations may     *)
(* overlap. A digest is a number: Empty, or one for each edition of the    *)
(* configured targets.                                                     *)
(***************************************************************************)
EXTENDS Naturals

CONSTANT MaxEdits   \* bound on edits of the stream targets

ASSUME EditsAssumption == MaxEdits \in Nat

VARIABLES
  configured,   \* #activeConfiguredIds is not null
  edition,      \* the targets as the database has them
  lastDigest,   \* #lastDigest
  pushed,       \* what the relay pushes to: the digest the helper applied last
  reloads       \* requests to the helper under way

relay == <<configured, edition, lastDigest, pushed, reloads>>

Empty == 0
Never == MaxEdits + 2
Digest(on, e) == IF on THEN e + 1 ELSE Empty

RelayInit ==
  /\ configured = FALSE /\ edition = 0
  /\ lastDigest = Never /\ pushed = Empty /\ reloads = {}

(* #reload: nothing to do when the digest is the cached one.               *)
Reload(op, n, digest) ==
  reloads' = IF digest = lastDigest THEN reloads
             ELSE reloads \cup {[op |-> op, n |-> n, at |-> "sent", digest |-> digest]}

Activate(n) ==
  /\ configured' = TRUE
  /\ Reload("activate", n, Digest(TRUE, edition))
  /\ UNCHANGED <<edition, lastDigest, pushed>>

Deactivate(n) ==
  /\ configured' = FALSE
  /\ Reload("deactivate", n, Empty)
  /\ UNCHANGED <<edition, lastDigest, pushed>>

(* A target is edited and refresh() called, which does nothing while the   *)
(* channel is off.                                                         *)
EditTargets ==
  /\ edition < MaxEdits
  /\ edition' = edition + 1
  /\ IF configured THEN Reload("refresh", edition', Digest(TRUE, edition'))
     ELSE UNCHANGED reloads
  /\ UNCHANGED <<configured, lastDigest, pushed>>

(* Every request has a connection of its own: the helper may apply them in *)
(* any order.                                                              *)
HelperApplies(r) ==
  /\ r.at = "sent"
  /\ pushed' = r.digest
  /\ reloads' = (reloads \ {r}) \cup {[r EXCEPT !.at = "applied"]}
  /\ UNCHANGED <<configured, edition, lastDigest>>

ReloadAnswered(r) ==
  /\ r.at = "applied"
  /\ lastDigest' = r.digest
  /\ reloads' = reloads \ {r}
  /\ UNCHANGED <<configured, edition, pushed>>

(* An error or the client's timeout: the digest is not cached, whether the *)
(* helper has applied it or not.                                           *)
ReloadFails(r) ==
  /\ reloads' = reloads \ {r}
  /\ UNCHANGED <<configured, edition, lastDigest, pushed>>
=============================================================================
