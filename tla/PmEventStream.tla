---------------------------- MODULE PmEventStream ----------------------------
(***************************************************************************)
(* The event stream from the pipeline manager to core-api: the EventBroker *)
(* with its bounded replay and subscriber's queue (api/events.py), the     *)
(* handler of GET /events (api/routes.py) and the bridge that reads status *)
(* and stream in a loop and polls the status besides (pm/dispatcher.ts).   *)
(*                                                                         *)
(* The id of an event starts again at 1 when the manager restarts. `base'  *)
(* is the number of events of the managers before, so base + id numbers    *)
(* events over all managers. The bridge knows nothing of it.               *)
(***************************************************************************)
EXTENDS Naturals, Sequences

CONSTANTS
  ReplaySize,    \* events the broker retains, 512
  QueueSize,     \* events a subscriber may be behind, 100
  WireSize,      \* frames the connection buffers
  MaxEvents,     \* bound on events published
  MaxRestarts,   \* bound on restarts of the manager
  MaxBreaks      \* bound on connections and calls lost while it lives

ASSUME SizesAssumption == {ReplaySize, QueueSize, WireSize} \subseteq Nat \ {0}
ASSUME BoundsAssumption == {MaxEvents, MaxRestarts, MaxBreaks} \subseteq Nat

VARIABLES
  base,       \* events published by earlier managers
  sequence,   \* EventBroker._sequence
  restarts,
  breaks,     \* connections and calls lost while the manager lives
  conn,       \* the connection of GET /events: its phase and its manager's base
  replay,     \* ids the handler has still to send before it subscribes
  queue,      \* the subscriber's queue
  wire,       \* ids sent and not yet read by the bridge
  loop,       \* where the bridge's loop waits
  ask,        \* the GET /status of the loop and of the poll
  last,       \* #lastSequence
  snap,       \* the status the loop read before it connected
  heard,      \* events dispatched, by number
  informed,   \* the last event covered by a status published
  late        \* events published while a replay was being sent

manager == <<base, sequence, restarts, breaks>>
stream == <<conn, replay, queue, wire>>
bridge == <<loop, ask, last, snap, heard, informed>>
vars == <<manager, stream, bridge, late>>

published == base + sequence
Asker == {"loop", "poll"}
Resync == 0   \* evt.pm.resync-required: no event has this id
Closed == [at |-> "closed", base |-> 0]
NotAsked == [at |-> "idle", base |-> 0, sequence |-> 0]
Pending == [NotAsked EXCEPT !.at = "sent"]
Refused == [NotAsked EXCEPT !.at = "failed"]
Covers(status) == status.base + status.sequence

(* core-api starts, possibly long after the pipeline manager.              *)
Init ==
  /\ base = 0 /\ sequence \in 0..MaxEvents /\ restarts = 0 /\ breaks = 0
  /\ conn = Closed /\ replay = <<>> /\ queue = <<>> /\ wire = <<>>
  /\ loop = "status"
  /\ ask = [w \in Asker |-> IF w = "loop" THEN Pending ELSE NotAsked]
  /\ last = 0 /\ snap = NotAsked
  /\ heard = {} /\ informed = 0 /\ late = {}

----------------------------------------------------------------------------
(* The pipeline manager.                                                   *)

(* An overflow closes the subscriber. The handler then returns, after one  *)
(* more event if it was already about to send it.                          *)
Publish ==
  /\ published < MaxEvents
  /\ sequence' = sequence + 1
  /\ IF conn.at = "live"
       THEN IF Len(queue) < QueueSize
              THEN queue' = Append(queue, sequence + 1) /\ UNCHANGED conn
              ELSE /\ queue' \in {<<>>, <<Head(queue)>>}
                   /\ conn' = [conn EXCEPT !.at = "overflown"]
       ELSE UNCHANGED <<conn, queue>>
  /\ late' = IF conn.at = "replaying" THEN late \cup {published + 1} ELSE late
  /\ UNCHANGED <<base, restarts, breaks, replay, wire, bridge>>

OldestRetained == IF sequence > ReplaySize THEN sequence - ReplaySize + 1 ELSE 1

AfterLast == [i \in 1..(sequence - last) |-> last + i]

(* A handler that sends no events of before. *)
AnswerWithoutReplay ==
  /\ conn.at = "asked"
  /\ conn' = [at |-> "live", base |-> base]
  /\ UNCHANGED <<manager, replay, queue, wire, bridge, late>>

(* replay_since and the branches of the handler: nothing to send, too old, *)
(* or the events after the watermark.                                      *)
AnswerEvents ==
  /\ conn.at = "asked"
  /\ IF last >= sequence
       THEN /\ conn' = [at |-> "live", base |-> base]
            /\ UNCHANGED <<replay, wire>>
     ELSE IF last + 1 < OldestRetained
       THEN /\ conn' = [at |-> "ended", base |-> base]
            /\ wire' = <<Resync>>
            /\ UNCHANGED replay
     ELSE /\ conn' = [at |-> "replaying", base |-> base]
          /\ replay' = AfterLast
          /\ UNCHANGED wire
  /\ UNCHANGED <<manager, queue, bridge, late>>

SendReplay ==
  /\ conn.at = "replaying" /\ replay # <<>> /\ Len(wire) < WireSize
  /\ wire' = Append(wire, Head(replay))
  /\ replay' = Tail(replay)
  /\ UNCHANGED <<manager, conn, queue, bridge, late>>

(* A subscription made before the replay is computed would miss nothing;   *)
(* this is made when the last frame of the replay has been sent.           *)
Subscribe ==
  /\ conn.at = "replaying" /\ replay = <<>>
  /\ conn' = [conn EXCEPT !.at = "live"]
  /\ UNCHANGED <<manager, replay, queue, wire, bridge, late>>

SendLive ==
  /\ conn.at \in {"live", "overflown"} /\ queue # <<>> /\ Len(wire) < WireSize
  /\ wire' = Append(wire, Head(queue))
  /\ queue' = Tail(queue)
  /\ UNCHANGED <<manager, conn, replay, bridge, late>>

(* The handler returns and unsubscribes.                                   *)
EndStream ==
  /\ conn.at = "overflown" /\ queue = <<>>
  /\ conn' = [conn EXCEPT !.at = "ended"]
  /\ UNCHANGED <<manager, replay, queue, wire, bridge, late>>

ReadStatus(w) ==
  /\ ask[w] = Pending
  /\ ask' = [ask EXCEPT ![w] = [at |-> "answered", base |-> base, sequence |-> sequence]]
  /\ UNCHANGED <<manager, stream, loop, last, snap, heard, informed, late>>

(* The connection is gone, perhaps with frames unread. *)
Cut ==
  /\ conn' = IF conn.at = "closed" THEN conn ELSE [conn EXCEPT !.at = "ended"]
  /\ replay' = <<>> /\ queue' = <<>>
  /\ wire' \in {wire, <<>>}
  /\ UNCHANGED <<loop, last, snap, heard, informed, late>>

(* The manager restarts: its sequence begins anew, calls it has not        *)
(* answered fail, and the connection ends.                                 *)
RestartManager ==
  /\ restarts < MaxRestarts /\ restarts' = restarts + 1
  /\ base' = published /\ sequence' = 0
  /\ Cut
  /\ ask' = [w \in Asker |-> IF ask[w] = Pending THEN Refused ELSE ask[w]]
  /\ UNCHANGED breaks

(* The connection breaks, or GET /events fails, while the manager lives.   *)
Break ==
  /\ breaks < MaxBreaks /\ breaks' = breaks + 1
  /\ conn.at # "closed"
  /\ Cut
  /\ UNCHANGED <<base, sequence, restarts, ask>>

(* GET /status fails while the manager lives.                              *)
AskFails(w) ==
  /\ breaks < MaxBreaks /\ breaks' = breaks + 1
  /\ ask[w] = Pending
  /\ ask' = [ask EXCEPT ![w] = Refused]
  /\ UNCHANGED <<base, sequence, restarts, stream, loop, last, snap, heard, informed, late>>

----------------------------------------------------------------------------
(* The bridge.                                                             *)

(* A status published on the bus says all that happened until it was read. *)
PublishStatus(status) ==
  informed' = IF Covers(status) > informed THEN Covers(status) ELSE informed

LoopResyncs ==
  /\ loop = "status" /\ ask["loop"].at = "answered"
  /\ PublishStatus(ask["loop"])
  /\ snap' = ask["loop"]
  /\ ask' = [ask EXCEPT !["loop"] = NotAsked]
  /\ loop' = "stream"
  /\ conn' = [at |-> "asked", base |-> base]
  /\ UNCHANGED <<manager, replay, queue, wire, last, heard, late>>

BackOff == loop' = "backoff" /\ conn' = Closed

LoopFails ==
  /\ loop = "status" /\ ask["loop"] = Refused
  /\ ask' = [ask EXCEPT !["loop"] = NotAsked]
  /\ BackOff
  /\ UNCHANGED <<manager, replay, queue, wire, last, snap, heard, informed, late>>

(* The stream ends, or GET /events fails.                                  *)
StreamEnds ==
  /\ loop = "stream" /\ conn.at = "ended" /\ wire = <<>>
  /\ BackOff
  /\ UNCHANGED <<manager, replay, queue, wire, ask, last, snap, heard, informed, late>>

(* A new connection that takes the poll's answer for its own. *)
AskAgainWithPoll ==
  /\ loop' = "status"
  /\ ask' = [ask EXCEPT !["loop"] = IF ask["poll"].at = "answered" THEN ask["poll"] ELSE Pending]

AskAgain == loop' = "status" /\ ask' = [ask EXCEPT !["loop"] = Pending]

BackoffEnds ==
  /\ loop = "backoff"
  /\ AskAgain
  /\ UNCHANGED <<manager, stream, last, snap, heard, informed, late>>

Arrived(id) == loop = "stream" /\ wire # <<>> /\ id = Head(wire)
Number(id) == conn.base + id
HearIt(id) == last' = id /\ heard' = heard \cup {Number(id)}

(* An id at or below the watermark is a duplicate.                         *)
ApplyFrame(id) ==
  /\ Arrived(id) /\ id # Resync
  /\ IF id > last THEN HearIt(id) ELSE UNCHANGED <<last, heard>>
  /\ wire' = Tail(wire)
  /\ UNCHANGED <<manager, conn, replay, queue, loop, ask, snap, informed, late>>

(* The watermark becomes the sequence of the status read before.           *)
ResyncRequired(id) ==
  /\ Arrived(id) /\ id = Resync
  /\ last' = snap.sequence
  /\ AskAgain
  /\ conn' = Closed /\ wire' = <<>>
  /\ UNCHANGED <<manager, replay, queue, snap, heard, informed, late>>

(* A poll only while there is no stream. *)
AskForPollIfDown ==
  /\ ask["poll"] = NotAsked /\ loop = "backoff"
  /\ ask' = [ask EXCEPT !["poll"] = Pending]
  /\ UNCHANGED <<manager, stream, loop, last, snap, heard, informed, late>>

(* The poll of the status, every half T-HEALTH-STALE, whatever the loop    *)
(* does: its answer may be older than events heard since it was read.      *)
AskForPoll ==
  /\ ask["poll"] = NotAsked
  /\ ask' = [ask EXCEPT !["poll"] = Pending]
  /\ UNCHANGED <<manager, stream, loop, last, snap, heard, informed, late>>

PollAnswered ==
  /\ ask["poll"].at \in {"answered", "failed"}
  /\ PublishStatus(ask["poll"])
  /\ ask' = [ask EXCEPT !["poll"] = NotAsked]
  /\ UNCHANGED <<manager, stream, loop, last, snap, heard, late>>

----------------------------------------------------------------------------
Manager == Publish \/ RestartManager
Handler == AnswerEvents \/ SendReplay \/ Subscribe \/ SendLive \/ EndStream \/ \E w \in Asker : ReadStatus(w)
Frame == Arrived(Head(wire)) /\ (ApplyFrame(Head(wire)) \/ ResyncRequired(Head(wire)))
Loop == LoopResyncs \/ LoopFails \/ StreamEnds \/ BackoffEnds \/ Frame
Poll == AskForPoll \/ PollAnswered

Network == Break \/ \E w \in Asker : AskFails(w)

Next == Manager \/ Handler \/ Network \/ Loop \/ Poll

(* Answers arrive and timers fire; nothing is promised of events, restarts  *)
(* and breaks.                                                             *)
Fairness ==
  /\ WF_vars(AnswerEvents) /\ WF_vars(SendReplay) /\ WF_vars(Subscribe) /\ WF_vars(SendLive) /\ WF_vars(EndStream)
  /\ \A w \in Asker : WF_vars(ReadStatus(w))
  /\ WF_vars(Loop) /\ WF_vars(Poll)

Spec == Init /\ [][Next]_vars
FairSpec == Spec /\ Fairness

----------------------------------------------------------------------------
Id == 0..MaxEvents
Status == [at : {"idle", "sent", "answered", "failed"}, base : Id, sequence : Id]

TypeOK ==
  /\ base \in Id /\ sequence \in Id /\ restarts \in 0..MaxRestarts /\ breaks \in 0..MaxBreaks
  /\ conn \in [at : {"closed", "asked", "replaying", "live", "overflown", "ended"}, base : Id]
  /\ replay \in Seq(Id) /\ queue \in Seq(Id) /\ wire \in Seq(Id)
  /\ loop \in {"status", "stream", "backoff"}
  /\ ask \in [Asker -> Status] /\ snap \in Status
  /\ last \in Id
  /\ heard \subseteq Id /\ informed \in Id /\ late \subseteq Id

----------------------------------------------------------------------------
(* A status read on connecting is not older than an event already heard:   *)
(* the projection a listener makes of both never goes back in time by it.  *)
LoopNeverStale ==
  [][snap' # snap => \A n \in heard : n <= Covers(snap')]_vars

(* The same of the status the poll publishes.                              *)
PollNeverStale ==
  [][ask["poll"].at = "answered" /\ ask'["poll"] = NotAsked
       => \A n \in heard : n <= Covers(ask["poll"])]_vars

(* Without the poll, too, and however the watermark is out of reach of the *)
(* retained events: each event is heard in the end or covered by a status  *)
(* of the loop, but for those published during a replay and for restarts.  *)
EachHeardOrCovered ==
  \A n \in 1..MaxEvents :
    published >= n ~> (n \in heard \cup late \/ n <= Covers(snap) \/ restarts > 0)

(* The stream implements the feed: order, no event twice, and a status for *)
(* what was not heard, over restarts of the manager.                       *)
Feed == INSTANCE PmEventFeed
FeedImplemented == Feed!FeedSpec
=============================================================================
