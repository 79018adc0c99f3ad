-------------------------- MODULE PmEventStreamProofs --------------------------
(***************************************************************************)
(* The event stream implements the feed for every size of the replay, the  *)
(* queue and the wire, and for any number of events, restarts and breaks,  *)
(* as far as safety goes; and no status read on connecting is stale.       *)
(*                                                                         *)
(* The invariant says how far core-api can have heard: not past the        *)
(* watermark counted from the connection's manager, nor past it counted    *)
(* from the present one, and when the loop has not yet connected not past  *)
(* the status it has.                                                      *)
(***************************************************************************)
EXTENDS PmEventStream, TLAPS

UpTo(limit) == \A h \in heard : h <= limit
Streaming == {"replaying", "live", "overflown"}

Answer == [at : {"idle", "sent", "answered", "failed"}, base : Nat, sequence : Nat]
Connection == [at : {"closed", "asked", "replaying", "live", "overflown", "ended"}, base : Nat]

StreamTypes ==
  /\ base \in Nat /\ sequence \in Nat /\ restarts \in Nat /\ breaks \in Nat
  /\ conn \in Connection
  /\ replay \in Seq(Nat) /\ queue \in Seq(Nat) /\ wire \in Seq(Nat)
  /\ loop \in {"status", "stream", "backoff"}
  /\ ask \in [Asker -> Answer] /\ snap \in Answer
  /\ last \in Nat /\ heard \subseteq Nat /\ informed \in Nat

(* Where the connection is, and whose it is.                               *)
ConnectionOK ==
  /\ loop = "stream" <=> conn.at # "closed"
  /\ conn.base <= base
  /\ conn.at \in Streaming \cup {"asked"} => conn.base = base
  /\ conn.at # "replaying" => replay = <<>>
  /\ conn.at \notin {"live", "overflown"} => queue = <<>>
  /\ conn.at \in {"closed", "asked"} => wire = <<>>

(* The frames under way are of events published, in the connection's       *)
(* manager's numbers; a resync is alone on its wire.                       *)
FramesOK ==
  /\ \A i \in DOMAIN replay : replay[i] \in 1..sequence
  /\ \A i \in DOMAIN queue : queue[i] \in 1..sequence
  /\ \A i \in DOMAIN wire : conn.base + wire[i] <= base + sequence
  /\ \A i \in DOMAIN wire : conn.base # base => conn.base + wire[i] <= base
  /\ \/ \A i \in DOMAIN wire : wire[i] > 0
     \/ conn.at = "ended" /\ wire = <<Resync>> /\ UpTo(Covers(snap))

(* How far core-api can have heard.                                        *)
HeardOK ==
  /\ UpTo(base + sequence)
  /\ UpTo(base + last)
  /\ conn.at \notin {"closed", "asked"} => UpTo(conn.base + last)
  /\ conn.at = "asked" => UpTo(Covers(snap))
  /\ loop = "status" /\ ask["loop"].at = "answered" => UpTo(Covers(ask["loop"]))

(* A status is of the past.                                                *)
StatusOK ==
  /\ \A w \in Asker : Covers(ask[w]) <= base + sequence /\ ask[w].base <= base
  /\ snap.base <= base

IInv == StreamTypes /\ ConnectionOK /\ FramesOK /\ HeardOK /\ StatusOK

LEMMA NoAnswer ==
  \A s \in {NotAsked, Pending, Refused} :
    s \in Answer /\ Covers(s) = 0 /\ s.base = 0 /\ s.at # "answered"
BY DEF NotAsked, Pending, Refused, Answer, Covers

LEMMA Further == \A a, b, c, h \in Nat : a <= b /\ h <= a + c => h <= b + c
OBVIOUS

LEMMA InitInv == Init => IInv
<1> SUFFICES ASSUME Init PROVE IInv
    OBVIOUS
<1> USE DEF Init
<1>1. StreamTypes
  BY BoundsAssumption DEF StreamTypes, Answer, Connection, Closed, NotAsked, Pending, Asker
<1>2. ConnectionOK /\ FramesOK /\ HeardOK
  BY BoundsAssumption DEF ConnectionOK, FramesOK, HeardOK, UpTo, Closed, Streaming, Covers
<1>3. StatusOK
  BY BoundsAssumption DEF StatusOK, Covers, NotAsked, Pending, Asker
<1> QED
  BY <1>1, <1>2, <1>3 DEF IInv

LEMMA PublishInv == IInv /\ Publish => IInv'
<1> SUFFICES ASSUME IInv, Publish PROVE IInv'
    OBVIOUS
<1> USE DEF IInv
<1>1. sequence \in Nat /\ sequence' = sequence + 1
  BY DEF Publish, StreamTypes, Answer, Connection
<1>2. /\ queue' \in Seq(Nat)
      /\ \A i \in DOMAIN queue' : queue'[i] \in 1..sequence'
  <2>1. CASE queue' = Append(queue, sequence + 1)
    BY <2>1, <1>1 DEF StreamTypes, Answer, Connection, FramesOK
  <2>2. CASE queue' = <<>>
    BY <2>2, <1>1 DEF StreamTypes, Answer, Connection
  <2>4. CASE queue' = <<Head(queue)>> /\ queue # <<>>
    <3>1. Head(queue) \in 1..sequence
      BY <2>4, <1>1 DEF StreamTypes, Answer, Connection, FramesOK
    <3> QED
      BY <3>1, <2>4, <1>1
  <2>3. CASE queue' = queue
    BY <2>3, <1>1 DEF StreamTypes, Answer, Connection, FramesOK
  <2>5. Len(queue) < QueueSize \/ queue # <<>>
    BY SizesAssumption
  <2> QED
    BY <2>1, <2>2, <2>3, <2>4, <2>5 DEF Publish
<1>3. /\ \/ conn' = conn
         \/ conn' = [conn EXCEPT !.at = "overflown"] /\ conn.at = "live"
      /\ conn.at # "live" => queue' = queue
      /\ UNCHANGED <<base, restarts, breaks, replay, wire, loop, ask, last, snap, heard, informed>>
  BY DEF Publish, bridge
<1>4. StreamTypes'
  BY <1>1, <1>2, <1>3 DEF StreamTypes, Answer, Connection
<1>7. ConnectionOK'
  BY <1>1, <1>3 DEF StreamTypes, Answer, Connection, ConnectionOK, Streaming
<1>5. FramesOK'
  <2>1. conn'.base = conn.base /\ (wire = <<Resync>> /\ conn.at = "ended" => conn'.at = "ended")
    BY <1>3 DEF StreamTypes, Answer, Connection
  <2>2. UNCHANGED <<base, replay, wire, snap, heard>> /\ base \in Nat /\ wire \in Seq(Nat) /\ conn.base \in Nat
    BY <1>3 DEF StreamTypes, Answer, Connection
  <2>3. \A i \in DOMAIN replay : replay'[i] \in 1..sequence'
    BY <1>1, <2>2 DEF FramesOK, StreamTypes, Answer, Connection
  <2>4. \A i \in DOMAIN wire : conn.base + wire[i] <= base + sequence'
    BY <1>1, <2>2 DEF FramesOK
  <2>5. \/ \A i \in DOMAIN wire' : wire'[i] > 0
        \/ (conn.at = "ended" /\ wire = <<Resync>> /\ UpTo(Covers(snap)))
    BY <2>2 DEF FramesOK
  <2> QED
    BY <1>2, <2>1, <2>2, <2>3, <2>4, <2>5 DEF FramesOK, UpTo, Covers
<1>6. HeardOK'
  <2>1. conn'.base = conn.base /\ (conn'.at \in {"closed", "asked"} <=> conn.at \in {"closed", "asked"})
        /\ (conn'.at = "asked" <=> conn.at = "asked")
    BY <1>3 DEF StreamTypes, Answer, Connection
  <2>2. UNCHANGED <<base, last, loop, ask, snap, heard>> /\ base \in Nat /\ heard \subseteq Nat
    BY <1>3 DEF StreamTypes
  <2>3. sequence \in Nat /\ sequence' \in Nat /\ sequence <= sequence'
    BY <1>1 DEF StreamTypes
  <2>4. UpTo(base + sequence)'
    <3>1. \A h \in heard : h \in Nat /\ h <= base + sequence
      BY <2>2 DEF HeardOK, UpTo
    <3>2. /\ base \in Nat /\ sequence \in Nat /\ sequence' \in Nat /\ sequence <= sequence'
          /\ heard' = heard /\ base' = base
      BY <2>2, <2>3
    <3> HIDE DEF IInv
    <3>3. \A h \in heard : h <= base + sequence'
      BY <3>1, <3>2
    <3> QED  BY <3>2, <3>3 DEF UpTo
  <2>5. UpTo(base + last)' /\ (conn'.at \notin {"closed", "asked"} => UpTo(conn.base + last)')
    BY <2>1, <2>2 DEF HeardOK, UpTo
  <2>6. /\ conn'.at = "asked" => UpTo(Covers(snap))'
        /\ loop' = "status" /\ ask'["loop"].at = "answered" => UpTo(Covers(ask["loop"]))'
    BY <2>1, <2>2 DEF HeardOK, UpTo, Covers
  <2> QED
    BY <2>1, <2>4, <2>5, <2>6 DEF HeardOK, UpTo
<1>8. StatusOK'
  BY <1>1, <1>3 DEF StreamTypes, Answer, Connection, StatusOK, Covers
<1> QED
  BY <1>4, <1>5, <1>6, <1>7, <1>8

LEMMA AnswerEventsInv == IInv /\ AnswerEvents => IInv'
<1> SUFFICES ASSUME IInv, AnswerEvents PROVE IInv'
    OBVIOUS
<1> USE DEF IInv
<1>0. /\ conn.at = "asked" /\ wire = <<>> /\ replay = <<>> /\ queue = <<>> /\ loop = "stream"
      /\ UNCHANGED <<base, sequence, restarts, breaks, queue, loop, ask, last, snap, heard, informed>>
      /\ base \in Nat /\ sequence \in Nat /\ last \in Nat
  BY DEF AnswerEvents, ConnectionOK, Streaming, manager, bridge, StreamTypes, Answer, Connection
<1>1. CASE last >= sequence
  <2>1. conn' = [at |-> "live", base |-> base] /\ replay' = replay /\ wire' = wire
    BY <1>1 DEF AnswerEvents
  <2> QED
    BY <1>0, <2>1 DEF StreamTypes, Answer, Connection, ConnectionOK, FramesOK, HeardOK, StatusOK, UpTo, Covers, Streaming
<1>2. CASE ~(last >= sequence) /\ last + 1 < OldestRetained
  <2>1. conn' = [at |-> "ended", base |-> base] /\ replay' = replay /\ wire' = <<Resync>>
    BY <1>2 DEF AnswerEvents
  <2>2. UpTo(Covers(snap))'
    BY <1>0 DEF HeardOK, UpTo, Covers
  <2>3. DOMAIN wire' = {1} /\ wire'[1] = 0 /\ wire' \in Seq(Nat)
    BY <2>1 DEF Resync
  <2> QED
    BY <1>0, <2>1, <2>2, <2>3 DEF StreamTypes, Answer, Connection, ConnectionOK, FramesOK, HeardOK, StatusOK, UpTo, Covers, Streaming
<1>3. CASE ~(last >= sequence) /\ ~(last + 1 < OldestRetained)
  <2>1. conn' = [at |-> "replaying", base |-> base] /\ replay' = AfterLast /\ wire' = wire
    BY <1>3 DEF AnswerEvents
  <2>2. replay' \in Seq(Nat) /\ \A i \in DOMAIN replay' : replay'[i] \in 1..sequence
    BY <1>0, <2>1, <1>3 DEF AfterLast
  <2> QED
    BY <1>0, <2>1, <2>2 DEF StreamTypes, Answer, Connection, ConnectionOK, FramesOK, HeardOK, StatusOK, UpTo, Covers, Streaming
<1> QED
  BY <1>1, <1>2, <1>3

(* A frame of the handler goes on the wire.                                *)
LEMMA SendInv == IInv /\ (SendReplay \/ SendLive) => IInv'
<1> SUFFICES ASSUME IInv, SendReplay \/ SendLive PROVE IInv'
    OBVIOUS
<1> USE DEF IInv
<1>0. /\ conn.at \in Streaming /\ conn.base = base /\ base \in Nat /\ sequence \in Nat
      /\ UNCHANGED <<base, sequence, restarts, breaks, conn, loop, ask, last, snap, heard, informed>>
      /\ wire \in Seq(Nat) /\ queue \in Seq(Nat) /\ replay \in Seq(Nat)
      /\ \A i \in DOMAIN wire : wire[i] > 0
  <2>1. base \in Nat /\ sequence \in Nat /\ wire \in Seq(Nat) /\ queue \in Seq(Nat) /\ replay \in Seq(Nat)
    BY DEF StreamTypes
  <2>2. conn.at \in {"replaying", "live", "overflown"}
    BY DEF SendReplay, SendLive
  <2>3. conn.at \in Streaming /\ conn.base = base
    BY <2>2 DEF ConnectionOK, Streaming
  <2>4. UNCHANGED <<base, sequence, restarts, breaks, conn, loop, ask, last, snap, heard, informed>>
    BY DEF SendReplay, SendLive, manager, bridge
  <2>5. \A i \in DOMAIN wire : wire[i] > 0
    BY <2>3 DEF FramesOK, Streaming
  <2> QED
    BY <2>1, <2>3, <2>4, <2>5
<1>1. PICK id \in 1..sequence : wire' = Append(wire, id)
  BY <1>0 DEF SendReplay, SendLive, FramesOK
<1>2. /\ replay' \in Seq(Nat) /\ queue' \in Seq(Nat)
      /\ \A i \in DOMAIN replay' : replay'[i] \in 1..sequence
      /\ \A i \in DOMAIN queue' : queue'[i] \in 1..sequence
  <2>1. CASE SendReplay
    BY <1>0, <2>1 DEF SendReplay, FramesOK
  <2>2. CASE SendLive
    BY <1>0, <2>2 DEF SendLive, FramesOK
  <2> QED
    BY <2>1, <2>2
<1>3. /\ wire' \in Seq(Nat)
      /\ \A i \in DOMAIN wire' : wire'[i] > 0 /\ conn.base + wire'[i] <= base + sequence
  BY <1>0, <1>1 DEF FramesOK
<1>4. StreamTypes' /\ ConnectionOK'
  BY <1>0, <1>2, <1>3 DEF StreamTypes, Answer, Connection, ConnectionOK, Streaming, SendReplay, SendLive
<1>5. FramesOK' /\ HeardOK' /\ StatusOK'
  BY <1>0, <1>2, <1>3 DEF FramesOK, HeardOK, StatusOK, UpTo, Covers
<1> QED
  BY <1>4, <1>5

LEMMA HandlerInv == IInv /\ (Subscribe \/ EndStream) => IInv'
<1> SUFFICES ASSUME IInv, Subscribe \/ EndStream PROVE IInv'
    OBVIOUS
<1> USE DEF IInv
<1>0. /\ UNCHANGED <<base, sequence, restarts, breaks, replay, queue, wire, loop, ask, last, snap, heard, informed>>
      /\ conn.at \in Streaming /\ conn.base = base /\ conn'.base = conn.base
      /\ conn' \in [at : {"live", "ended"}, base : Nat]
      /\ conn'.at = "ended" => queue = <<>> /\ conn.at = "overflown"
      /\ conn'.at = "live" => replay = <<>>
  BY DEF Subscribe, EndStream, ConnectionOK, Streaming, manager, bridge, StreamTypes, Answer, Connection
<1> QED
  BY <1>0 DEF StreamTypes, Answer, Connection, ConnectionOK, FramesOK, HeardOK, StatusOK, UpTo, Covers, Streaming

(* The connection is cut, by a restart of the manager or without one.      *)
LEMMA CutInv == IInv /\ (RestartManager \/ Break) => IInv'
<1> SUFFICES ASSUME IInv, RestartManager \/ Break PROVE IInv'
    OBVIOUS
<1> USE DEF IInv
<1>1. /\ \/ base' = base + sequence /\ sequence' = 0
         \/ base' = base /\ sequence' = sequence
      /\ restarts' \in Nat /\ breaks' \in Nat
      /\ replay' = <<>> /\ queue' = <<>> /\ wire' \in {wire, <<>>}
      /\ UNCHANGED <<loop, last, snap, heard, informed>>
      /\ base \in Nat /\ sequence \in Nat /\ last \in Nat /\ base' \in Nat
      /\ conn.base \in Nat /\ conn.base <= base /\ wire \in Seq(Nat)
  <2>1. base \in Nat /\ sequence \in Nat /\ last \in Nat /\ conn.base \in Nat /\ wire \in Seq(Nat)
    BY DEF StreamTypes, Connection
  <2>2. conn.base <= base
    BY DEF ConnectionOK
  <2>3. restarts' \in Nat /\ breaks' \in Nat
    BY DEF StreamTypes, RestartManager, Break
  <2> QED
    BY <2>1, <2>2, <2>3 DEF RestartManager, Break, Cut, published
<1>9. base' + sequence' = base + sequence /\ base <= base' /\ base' \in Nat /\ sequence' \in Nat
  <2>1. base \in Nat /\ sequence \in Nat
    BY <1>1
  <2>2. CASE base' = base + sequence /\ sequence' = 0
    BY <2>1, <2>2
  <2>3. CASE base' = base /\ sequence' = sequence
    BY <2>1, <2>3
  <2> QED
    BY <1>1, <2>2, <2>3
<1>2. /\ \/ conn' = conn /\ conn.at = "closed"
         \/ conn' = [conn EXCEPT !.at = "ended"] /\ conn.at # "closed"
      /\ conn'.base = conn.base
  BY DEF RestartManager, Break, Cut, StreamTypes, Answer, Connection
<1>3. \A w \in Asker : ask'[w] = ask[w] \/ ask'[w] = Refused
  BY DEF RestartManager, Break
<1>4. StreamTypes'
  <2>1. ask' \in [Asker -> Answer]
    BY NoAnswer DEF RestartManager, Break, StreamTypes
  <2>2. conn' \in Connection
    BY <1>2 DEF StreamTypes, Connection
  <2>3. restarts' \in Nat /\ breaks' \in Nat
    BY <1>1
  <2> QED
    <3>1. <<>> \in Seq(Nat) /\ 0 \in Nat
      OBVIOUS
    <3> QED
      BY <1>1, <2>1, <2>2, <2>3, <3>1 DEF StreamTypes
<1>5. ConnectionOK'
  <2>1. conn.at # "closed" => conn'.at = "ended"
    BY <1>2 DEF StreamTypes, Connection
  <2>2. CASE conn.at = "closed"
    BY <1>1, <1>2, <2>2 DEF ConnectionOK, Streaming
  <2>3. CASE conn.at # "closed"
    BY <1>1, <1>2, <2>1, <2>3 DEF ConnectionOK, Streaming
  <2> QED  BY <2>2, <2>3
<1>6. FramesOK'
  <2>1. \A i \in DOMAIN wire' : wire' = wire /\ conn.base + wire[i] <= base + sequence
    BY <1>1 DEF FramesOK
  <2>2. \/ \A i \in DOMAIN wire' : wire'[i] > 0
        \/ (conn'.at = "ended" /\ wire' = <<Resync>> /\ UpTo(Covers(snap))')
    <3>1. CASE wire' = <<>>
      BY <3>1
    <3>2. CASE wire' = wire
      BY <3>2, <1>1, <1>2 DEF FramesOK, StreamTypes, Connection, UpTo, Covers
    <3> QED
      BY <3>1, <3>2, <1>1
  <2> QED
    BY <1>1, <1>2, <2>1, <2>2 DEF FramesOK
<1>7. HeardOK'
  <2>1. conn'.at \notin {"closed", "asked"} => UpTo(conn.base + last)'
    <3>1. conn.at = "asked" => UpTo(conn.base + last)
      BY DEF ConnectionOK, HeardOK
    <3> QED
      BY <3>1, <1>1, <1>2 DEF HeardOK, UpTo, StreamTypes, Answer, Connection
  <2>2. loop = "status" /\ ask'["loop"].at = "answered" => ask'["loop"] = ask["loop"]
    BY <1>3 DEF Refused, NotAsked, Asker
  <2>3. UpTo(base + sequence) /\ UpTo(base + last)
    BY DEF HeardOK
  <2>4. \A h \in heard' : h <= base' + sequence' /\ h <= base' + last'
    <3>1. /\ heard' = heard /\ last' = last /\ heard \subseteq Nat
          /\ base \in Nat /\ sequence \in Nat /\ last \in Nat
      BY <1>1 DEF StreamTypes
    <3>2. \A h \in heard : h <= base + sequence /\ h <= base + last
      BY <2>3 DEF UpTo
    <3> HIDE DEF IInv
    <3>3. ASSUME NEW h \in heard PROVE h <= base' + sequence' /\ h <= base' + last
      <4>1. h \in Nat /\ h <= base + sequence /\ h <= base + last /\ last \in Nat /\ base \in Nat
        BY <3>1, <3>2
      <4>2. h <= base' + sequence'
        BY <4>1, <1>9
      <4>3. base' \in Nat /\ base <= base'
        BY <1>9
      <4>4. h <= base' + last
        BY <4>1, <4>3, Further, Zenon
      <4> QED
        BY <4>2, <4>4
    <3> QED
      BY <3>1, <3>3
  <2>5. conn'.at # "asked"
    BY <1>2 DEF StreamTypes, Answer, Connection
  <2> QED
    BY <1>1, <1>2, <2>1, <2>2, <2>4, <2>5 DEF HeardOK, UpTo, Covers
<1>8. StatusOK'
  <2>1. \A w \in Asker : Covers(ask[w]) \in Nat /\ ask[w].base \in Nat
                          /\ Covers(ask[w]) <= base + sequence /\ ask[w].base <= base
    BY DEF StreamTypes, Answer, Covers, StatusOK
  <2>2. \A w \in Asker : Covers(ask'[w]) <= base' + sequence' /\ ask'[w].base <= base'
    <3> SUFFICES ASSUME NEW w \in Asker
                 PROVE Covers(ask'[w]) <= base' + sequence' /\ ask'[w].base <= base'
      OBVIOUS
    <3>1. CASE ask'[w] = ask[w]
      <4>1. /\ Covers(ask[w]) \in Nat /\ ask[w].base \in Nat
            /\ Covers(ask[w]) <= base + sequence /\ ask[w].base <= base /\ base \in Nat
        BY <1>1, <2>1
      <4> HIDE DEF IInv
      <4>2. Covers(ask[w]) <= base' + sequence' /\ ask[w].base <= base'
        BY <1>9, <4>1
      <4> QED
        BY <3>1, <4>2
    <3>2. CASE ask'[w] = Refused
      <4>1. Covers(ask'[w]) = 0 /\ ask'[w].base = 0
        BY <3>2, NoAnswer
      <4> QED
        BY <1>9, <4>1
    <3> QED
      BY <1>3, <3>1, <3>2
  <2>3. snap'.base <= base'
    BY <1>1 DEF StatusOK, StreamTypes, Answer
  <2> QED
    BY <2>2, <2>3 DEF StatusOK, Covers
<1> QED
  BY <1>4, <1>5, <1>6, <1>7, <1>8

LEMMA AskFailsInv == ASSUME IInv, NEW w \in Asker, AskFails(w) PROVE IInv'
<1> USE DEF IInv
<1>1. /\ UNCHANGED <<base, sequence, restarts, conn, replay, queue, wire, loop, last, snap, heard, informed>>
      /\ ask' = [ask EXCEPT ![w] = Refused]
      /\ breaks' \in Nat /\ base \in Nat /\ sequence \in Nat
  BY DEF AskFails, stream, StreamTypes
<1>2. /\ ask' \in [Asker -> Answer]
      /\ \A v \in Asker : ask'[v] = ask[v] \/ ask'[v] = Refused
  BY <1>1, NoAnswer DEF StreamTypes
<1>3. StreamTypes'
  BY <1>1, <1>2 DEF StreamTypes
<1>4. ConnectionOK' /\ FramesOK'
  BY <1>1 DEF ConnectionOK, FramesOK, UpTo, Covers
<1>5. HeardOK'
  <2>1. ask'["loop"].at = "answered" => ask'["loop"] = ask["loop"]
    BY <1>2, NoAnswer DEF Asker
  <2> QED
    BY <1>1, <2>1 DEF HeardOK, UpTo, Covers
<1>6. StatusOK'
  <2>1. \A v \in Asker : Covers(ask[v]) <= base + sequence /\ ask[v].base <= base
    BY DEF StatusOK
  <2>2. \A v \in Asker : Covers(ask'[v]) <= base + sequence /\ ask'[v].base <= base
    BY <1>1, <1>2, <2>1, NoAnswer
  <2> QED
    BY <1>1, <2>2 DEF StatusOK, Covers
<1> QED
  BY <1>3, <1>4, <1>5, <1>6

LEMMA ReadStatusInv == ASSUME IInv, NEW w \in Asker, ReadStatus(w) PROVE IInv'
<1> USE DEF IInv
<1>1. /\ UNCHANGED <<base, sequence, restarts, breaks, conn, replay, queue, wire, loop, last, snap, heard, informed>>
      /\ ask' = [ask EXCEPT ![w] = [at |-> "answered", base |-> base, sequence |-> sequence]]
      /\ base \in Nat /\ sequence \in Nat
  BY DEF ReadStatus, manager, stream, StreamTypes, Answer, Connection
<1>2. StreamTypes'
  BY <1>1 DEF StreamTypes, Answer, Connection
<1>3. ConnectionOK' /\ FramesOK'
  BY <1>1 DEF ConnectionOK, FramesOK, UpTo, Covers
<1>4. \A v \in Asker : ask'[v] = ask[v] \/ (ask'[v].base = base /\ ask'[v].sequence = sequence)
  BY <1>1 DEF StreamTypes, Answer, Connection
<1>5. HeardOK' /\ StatusOK'
  BY <1>1, <1>4 DEF HeardOK, StatusOK, UpTo, Covers, Asker
<1> QED
  BY <1>2, <1>3, <1>5

(* Steps of the bridge that only change what it waits for.                 *)
LEMMA WaitingInv ==
  IInv /\ (LoopFails \/ StreamEnds \/ BackoffEnds \/ AskForPoll \/ PollAnswered) => IInv'
<1> SUFFICES ASSUME IInv, LoopFails \/ StreamEnds \/ BackoffEnds \/ AskForPoll \/ PollAnswered
             PROVE IInv'
    OBVIOUS
<1> USE DEF IInv
<1>1. UNCHANGED <<base, sequence, restarts, breaks, replay, queue, wire, last, snap, heard>>
  BY DEF LoopFails, StreamEnds, BackoffEnds, AskForPoll, PollAnswered, manager, stream
<1>2. \/ ask' = ask
      \/ \E w \in Asker, s \in {NotAsked, Pending} : ask' = [ask EXCEPT ![w] = s]
  BY DEF LoopFails, StreamEnds, BackoffEnds, AskForPoll, PollAnswered, AskAgain, Asker
<1>3. /\ ask' \in [Asker -> Answer]
      /\ \A w \in Asker : ask'[w] = ask[w] \/ ask'[w] \in {NotAsked, Pending}
  BY <1>2, NoAnswer DEF StreamTypes
<1>4. /\ \/ loop' = "backoff" /\ conn' = Closed /\ wire = <<>> /\ conn.at \notin Streaming
         \/ loop' = "status" /\ conn' = conn /\ loop = "backoff" /\ ask'["loop"] = Pending
         \/ loop' = loop /\ conn' = conn
  <2>1. CASE LoopFails
    BY <2>1 DEF LoopFails, BackOff, ConnectionOK, Streaming
  <2>2. CASE StreamEnds
    BY <2>2 DEF StreamEnds, BackOff, Streaming
  <2>3. CASE BackoffEnds
    BY <2>3 DEF BackoffEnds, AskAgain, stream, StreamTypes, Asker
  <2>4. CASE AskForPoll \/ PollAnswered
    BY <2>4 DEF AskForPoll, PollAnswered, stream
  <2> QED
    BY <2>1, <2>2, <2>3, <2>4
<1>10. informed' \in Nat
  <2>1. Covers(ask["poll"]) \in Nat
    BY DEF StreamTypes, Answer, Covers, Asker
  <2> QED
    BY <2>1 DEF LoopFails, StreamEnds, BackoffEnds, AskForPoll, PollAnswered, PublishStatus, StreamTypes
<1>5. StreamTypes'
  BY <1>1, <1>3, <1>4, <1>10 DEF StreamTypes, Connection, Closed
<1>6. ConnectionOK'
  BY <1>1, <1>4 DEF ConnectionOK, Closed, Streaming, StreamTypes, Answer, Connection
<1>7. FramesOK'
  BY <1>1, <1>4 DEF FramesOK, Closed, UpTo, Covers, StreamTypes, Answer, Connection
<1>8. HeardOK'
  <2>1. loop' = "status" /\ ask'["loop"].at = "answered" => loop = "status" /\ ask'["loop"] = ask["loop"]
    BY <1>3, <1>4, NoAnswer DEF Asker
  <2> QED
    BY <1>1, <1>4, <2>1 DEF HeardOK, UpTo, Covers, Closed
<1>9. StatusOK'
  <2>1. \A w \in Asker : Covers(ask[w]) <= base + sequence /\ ask[w].base <= base
    BY DEF StatusOK
  <2>2. \A w \in Asker : Covers(ask'[w]) <= base + sequence /\ ask'[w].base <= base
    <3> SUFFICES ASSUME NEW w \in Asker
                 PROVE Covers(ask'[w]) <= base + sequence /\ ask'[w].base <= base
      OBVIOUS
    <3>1. base \in Nat /\ sequence \in Nat
      BY DEF StreamTypes
    <3>2. CASE ask'[w] = ask[w]
      BY <3>2, <2>1
    <3>3. CASE ask'[w] \in {NotAsked, Pending}
      <4>1. Covers(ask'[w]) = 0 /\ ask'[w].base = 0
        BY <3>3, NoAnswer
      <4> QED
        BY <3>1, <4>1
    <3> QED
      BY <1>3, <3>2, <3>3
  <2> QED
    BY <1>1, <2>2 DEF StatusOK, Covers
<1> QED
  BY <1>5, <1>6, <1>7, <1>8, <1>9

LEMMA LoopResyncsInv == IInv /\ LoopResyncs => IInv'
<1> SUFFICES ASSUME IInv, LoopResyncs PROVE IInv'
    OBVIOUS
<1> USE DEF IInv
<1>1. /\ UNCHANGED <<base, sequence, restarts, breaks, replay, queue, wire, last, heard>>
      /\ loop = "status" /\ ask["loop"].at = "answered"
      /\ snap' = ask["loop"] /\ loop' = "stream" /\ conn' = [at |-> "asked", base |-> base]
      /\ ask' = [ask EXCEPT !["loop"] = NotAsked]
      /\ informed' \in Nat
      /\ base \in Nat /\ sequence \in Nat
  BY DEF LoopResyncs, PublishStatus, Covers, manager, StreamTypes, Answer, Connection, Asker
<1>2. wire = <<>> /\ replay = <<>> /\ queue = <<>>
  BY <1>1 DEF ConnectionOK
<1>3. \A w \in Asker : ask'[w] = ask[w] \/ ask'[w] = NotAsked
  BY <1>1 DEF StreamTypes, Answer, Connection
<1>4. ask'["loop"] = NotAsked
  BY <1>1 DEF StreamTypes, Answer, Connection, Asker
<1>5. StreamTypes'
  BY <1>1, <1>2 DEF StreamTypes, Answer, Connection, NotAsked, Asker
<1>6. ConnectionOK' /\ FramesOK'
  BY <1>1, <1>2 DEF ConnectionOK, FramesOK, Streaming
<1>7. HeardOK'
  BY <1>1, <1>4 DEF HeardOK, UpTo, Covers, NotAsked
<1>8. StatusOK'
  <2>1. Covers(NotAsked) = 0 /\ NotAsked.base = 0
    BY DEF Covers, NotAsked
  <2> QED
    BY <1>1, <1>3, <2>1 DEF StatusOK, Covers, Asker
<1> QED
  BY <1>5, <1>6, <1>7, <1>8

(* What is known of a frame the bridge reads.                              *)
LEMMA FrameRead ==
  ASSUME IInv, NEW id, Arrived(id)
  PROVE  /\ id \in Nat /\ Tail(wire) \in Seq(Nat)
         /\ conn.base + id <= base + sequence
         /\ conn.base # base => conn.base + id <= base
         /\ \A i \in DOMAIN Tail(wire) : /\ conn.base + Tail(wire)[i] <= base + sequence
                                         /\ conn.base # base => conn.base + Tail(wire)[i] <= base
         /\ id = Resync => UpTo(Covers(snap))
         /\ id # Resync => id > 0 /\ \A i \in DOMAIN Tail(wire) : Tail(wire)[i] > 0
         /\ conn.at \notin {"closed", "asked"}
<1>1. wire \in Seq(Nat) /\ wire # <<>> /\ id = wire[1] /\ 1 \in DOMAIN wire
  BY DEF IInv, StreamTypes, Answer, Connection, Arrived
<1>2. /\ Tail(wire) \in Seq(Nat)
      /\ \A i \in DOMAIN Tail(wire) : i + 1 \in DOMAIN wire /\ Tail(wire)[i] = wire[i + 1]
  BY <1>1
<1>3. id \in Nat
  BY <1>1
<1>4. conn.at \notin {"closed", "asked"}
  BY <1>1 DEF IInv, ConnectionOK
<1>5. /\ \A i \in DOMAIN wire : conn.base + wire[i] <= base + sequence
      /\ \A i \in DOMAIN wire : conn.base # base => conn.base + wire[i] <= base
  BY DEF IInv, FramesOK
<1>8. \/ \A i \in DOMAIN wire : wire[i] > 0
      \/ wire = <<0>> /\ UpTo(Covers(snap))
  BY DEF IInv, FramesOK, Resync
<1>6. id = Resync => UpTo(Covers(snap))
  <2>1. CASE \A i \in DOMAIN wire : wire[i] > 0
    <3>1. id > 0
      BY <1>1, <2>1
    <3> QED
      BY <3>1, <1>3 DEF Resync
  <2> QED
    BY <1>8, <2>1
<1>7. id # Resync => \A i \in DOMAIN wire : wire[i] > 0
  BY <1>1, <1>8 DEF Resync
<1> QED
  BY <1>1, <1>2, <1>3, <1>4, <1>5, <1>6, <1>7

LEMMA ApplyFrameInv == ASSUME IInv, NEW id, ApplyFrame(id) PROVE IInv'
<1> USE DEF IInv
<1>0. Arrived(id) /\ id # Resync
  BY DEF ApplyFrame
<1>1. /\ id \in Nat /\ id > 0 /\ Tail(wire) \in Seq(Nat)
      /\ conn.base + id <= base + sequence
      /\ conn.base # base => conn.base + id <= base
      /\ \A i \in DOMAIN Tail(wire) : /\ conn.base + Tail(wire)[i] <= base + sequence
                                      /\ conn.base # base => conn.base + Tail(wire)[i] <= base
                                      /\ Tail(wire)[i] > 0
      /\ conn.at \notin {"closed", "asked"} /\ loop = "stream"
  BY <1>0, FrameRead DEF Arrived
<1>2. /\ UNCHANGED <<base, sequence, restarts, breaks, conn, replay, queue, loop, ask, snap, informed>>
      /\ wire' = Tail(wire)
      /\ base \in Nat /\ sequence \in Nat /\ conn.base \in Nat /\ conn.base <= base /\ last \in Nat
      /\ heard \subseteq Nat
  BY DEF ApplyFrame, manager, StreamTypes, Answer, Connection, ConnectionOK
<1>3. \/ id > last /\ last' = id /\ heard' = heard \cup {conn.base + id}
      \/ last' = last /\ heard' = heard
  BY DEF ApplyFrame, HearIt, Number
<1>10. heard' \subseteq Nat /\ last' \in Nat
  <2>1. conn.base + id \in Nat
    BY <1>1, <1>2
  <2> QED
    BY <1>1, <1>2, <1>3, <2>1
<1>4. StreamTypes'
  BY <1>1, <1>2, <1>10 DEF StreamTypes
<1>5. ConnectionOK' /\ StatusOK'
  BY <1>1, <1>2 DEF ConnectionOK, Streaming, StatusOK, Covers
<1>6. FramesOK'
  <2>1. /\ \A i \in DOMAIN wire' : conn'.base + wire'[i] <= base' + sequence'
        /\ \A i \in DOMAIN wire' : conn'.base # base' => conn'.base + wire'[i] <= base'
        /\ \A i \in DOMAIN wire' : wire'[i] > 0
    <3>1. conn'.base = conn.base /\ base' = base /\ sequence' = sequence
      BY <1>2
    <3>3. wire' = Tail(wire)
      BY <1>2
    <3>2. \A i \in DOMAIN wire' : /\ conn.base + wire'[i] <= base + sequence
                                  /\ conn.base # base => conn.base + wire'[i] <= base
                                  /\ wire'[i] > 0
      BY <1>1, <3>3, Zenon
    <3> QED
      BY <3>1, <3>2
  <2>2. /\ \A i \in DOMAIN replay : replay[i] \in 1..sequence
        /\ \A i \in DOMAIN queue : queue[i] \in 1..sequence
    BY DEF FramesOK
  <2> QED
    BY <1>2, <2>1, <2>2 DEF FramesOK
<1>7. HeardOK'
  <2>1. UpTo(base + sequence) /\ UpTo(base + last) /\ UpTo(conn.base + last)
    BY <1>1 DEF HeardOK
  <2>2. \A h \in heard' : h <= base + sequence /\ h <= base + last' /\ h <= conn.base + last'
    <3>1. CASE last' = last /\ heard' = heard
      BY <3>1, <2>1 DEF UpTo
    <3>2. CASE id > last /\ last' = id /\ heard' = heard \cup {conn.base + id}
      <4>1. conn.base + id <= base + id
        BY <1>1, <1>2
      <4>2. ASSUME NEW h \in heard PROVE h <= base + sequence /\ h <= base + id /\ h <= conn.base + id
        <5>1. h \in Nat /\ h <= base + sequence /\ h <= base + last /\ h <= conn.base + last
          BY <1>2, <2>1 DEF UpTo
        <5> QED
          BY <5>1, <3>2, <1>1, <1>2
      <4>3. conn.base + id <= base + sequence
        BY <1>1
      <4>4. last' = id /\ heard' = heard \cup {conn.base + id} /\ conn.base + id <= conn.base + id
        BY <3>2, <1>1, <1>2
      <4> HIDE DEF IInv
      <4> QED
        BY <4>1, <4>2, <4>3, <4>4
    <3> QED
      BY <1>3, <3>1, <3>2
  <2> QED
    BY <1>1, <1>2, <2>2 DEF HeardOK, UpTo
<1> QED
  BY <1>4, <1>5, <1>6, <1>7

LEMMA ResyncRequiredInv == ASSUME IInv, NEW id, ResyncRequired(id) PROVE IInv'
<1> USE DEF IInv
<1>0. Arrived(id) /\ id = Resync
  BY DEF ResyncRequired
<1>1. UpTo(Covers(snap)) /\ conn.at \notin {"closed", "asked"}
  BY <1>0, FrameRead
<1>2. /\ UNCHANGED <<base, sequence, restarts, breaks, replay, queue, snap, heard, informed>>
      /\ last' = snap.sequence /\ loop' = "status" /\ conn' = Closed /\ wire' = <<>>
      /\ ask' = [ask EXCEPT !["loop"] = Pending]
      /\ snap.sequence \in Nat /\ snap.base \in Nat /\ base \in Nat /\ snap.base <= base /\ heard \subseteq Nat
  BY DEF ResyncRequired, AskAgain, manager, StreamTypes, Answer, Connection, StatusOK
<1>3. conn.at = "ended" /\ replay = <<>> /\ queue = <<>>
  <2>1. wire # <<>> /\ wire \in Seq(Nat) /\ wire[1] = 0
    BY <1>0 DEF Arrived, Resync, StreamTypes, Answer, Connection
  <2>2. conn.at = "ended"
    BY <2>1 DEF FramesOK
  <2> QED
    BY <2>2 DEF ConnectionOK
<1>4. StreamTypes'
  <2>1. ask' \in [Asker -> Answer] /\ Closed \in Connection
    BY <1>2, NoAnswer DEF StreamTypes, Closed, Connection, Asker
  <2>2. <<>> \in Seq(Nat)
    OBVIOUS
  <2> QED
    BY <1>2, <2>1, <2>2 DEF StreamTypes
<1>5. ConnectionOK' /\ FramesOK'
  BY <1>2, <1>3 DEF ConnectionOK, FramesOK, Closed, Streaming
<1>6. \A w \in Asker : ask'[w] = ask[w] \/ ask'[w] = Pending
  BY <1>2 DEF StreamTypes, Answer, Connection
<1>7. HeardOK'
  <2>1. UpTo(base + sequence) /\ UpTo(base + snap.sequence)
    BY <1>1, <1>2 DEF HeardOK, UpTo, Covers
  <2>2. ask'["loop"].at # "answered"
    BY <1>2 DEF StreamTypes, Answer, Connection, Pending, Asker
  <2> QED
    BY <1>2, <2>1, <2>2 DEF HeardOK, UpTo, Closed
<1>8. StatusOK'
  <2>1. \A w \in Asker : Covers(ask[w]) <= base + sequence /\ ask[w].base <= base
    BY DEF StatusOK
  <2>2. \A w \in Asker : Covers(ask'[w]) <= base + sequence /\ ask'[w].base <= base
    BY <1>2, <1>6, <2>1, NoAnswer DEF StreamTypes
  <2> QED
    BY <1>2, <2>2 DEF StatusOK, Covers
<1> QED
  BY <1>4, <1>5, <1>7, <1>8

LEMMA NextInv == IInv /\ [Next]_vars => IInv'
<1> SUFFICES ASSUME IInv, [Next]_vars PROVE IInv'
    OBVIOUS
<1>1. CASE Manager
  BY <1>1, PublishInv, CutInv DEF Manager
<1>2. CASE Handler
  BY <1>2, AnswerEventsInv, SendInv, HandlerInv, ReadStatusInv DEF Handler
<1>3. CASE Loop
  BY <1>3, LoopResyncsInv, WaitingInv, ApplyFrameInv, ResyncRequiredInv DEF Loop, Frame
<1>4. CASE Poll
  BY <1>4, WaitingInv DEF Poll
<1>6. CASE Network
  BY <1>6, CutInv, AskFailsInv DEF Network
<1>5. CASE UNCHANGED vars
  BY <1>5 DEF vars, manager, stream, bridge, IInv, StreamTypes, ConnectionOK, FramesOK, HeardOK, StatusOK, UpTo, Covers
<1> QED
  BY <1>1, <1>2, <1>3, <1>4, <1>5, <1>6 DEF Next

LEMMA Invariance == Spec => []IInv
<1> QED
  BY InitInv, NextInv, PTL DEF Spec

(* A status passed on informs of events that have been published.          *)
LEMMA InformStep ==
  ASSUME IInv, NEW w \in Asker, PublishStatus(ask[w]), UNCHANGED <<base, sequence, heard>>
  PROVE  Feed!FeedNext \/ UNCHANGED Feed!feed
<1>1. /\ Covers(ask[w]) \in Nat /\ informed \in Nat /\ published \in Nat
      /\ Covers(ask[w]) <= published /\ published' = published
  BY DEF IInv, StreamTypes, Answer, Covers, StatusOK, published
<1>2. CASE informed' = informed
  BY <1>1, <1>2 DEF Feed!feed
<1>3. CASE Covers(ask[w]) > informed /\ informed' = Covers(ask[w])
  <2>1. Covers(ask[w]) \in 1..published
    BY <1>1, <1>3
  <2>2. Feed!Inform(Covers(ask[w]))
    BY <1>1, <1>3, <2>1 DEF Feed!Inform
  <2> QED
    BY <2>1, <2>2 DEF Feed!FeedNext
<1> QED
  BY <1>2, <1>3 DEF PublishStatus

(* A frame heard is the next of the feed; one dropped is none of it.       *)
LEMMA HearStep ==
  ASSUME IInv, NEW id, ApplyFrame(id)
  PROVE  Feed!FeedNext \/ UNCHANGED Feed!feed
<1>1. Arrived(id) /\ id # Resync /\ UNCHANGED <<base, sequence, informed>>
  BY DEF ApplyFrame, manager
<1>2. /\ id \in Nat /\ id > 0 /\ conn.base + id <= base + sequence /\ conn.at \notin {"closed", "asked"}
  BY <1>1, FrameRead
<1>3. /\ base \in Nat /\ sequence \in Nat /\ conn.base \in Nat /\ last \in Nat /\ heard \subseteq Nat
      /\ UpTo(conn.base + last)
  BY <1>2 DEF IInv, StreamTypes, Connection, HeardOK
<1>4. published' = published
  BY <1>1 DEF published
<1>5. CASE UNCHANGED heard
  BY <1>1, <1>4, <1>5 DEF Feed!feed
<1>6. CASE id > last /\ heard' = heard \cup {conn.base + id}
  <2>1. conn.base + id \in 1..published
    BY <1>2, <1>3 DEF published
  <2>2. \A h \in heard : h < conn.base + id
    BY <1>2, <1>3, <1>6 DEF UpTo
  <2>3. Feed!Hear(conn.base + id)
    BY <1>1, <1>4, <1>6, <2>1, <2>2 DEF Feed!Hear
  <2> QED
    BY <2>1, <2>3 DEF Feed!FeedNext
<1> QED
  BY <1>5, <1>6 DEF ApplyFrame, HearIt, Number

(* Whatever connections, queues and managers do, core-api hears the events *)
(* in the order of their publication and none of them twice, and no status *)
(* tells of an event that was not published: EventBroker, GET /events and  *)
(* the bridge's loop implement the feed.                                   *)
THEOREM FeedSafetyImplemented == Spec => Feed!FeedSafety
<1>1. Init => Feed!FeedInit
  BY BoundsAssumption DEF Init, Feed!FeedInit, published
<1>2. IInv /\ [Next]_vars => [Feed!FeedNext]_(Feed!feed)
  <2> SUFFICES ASSUME IInv, [Next]_vars PROVE Feed!FeedNext \/ UNCHANGED Feed!feed
      OBVIOUS
  <2>1. CASE Publish
    <3>1. published' = published + 1
      BY <2>1 DEF Publish, published, IInv, StreamTypes
    <3>2. Feed!PublishNext
      BY <2>1, <3>1 DEF Publish, Feed!PublishNext, bridge
    <3> QED
      BY <3>2 DEF Feed!FeedNext
  <2>2. CASE RestartManager
    <3>1. published' = published
      BY <2>2 DEF RestartManager, published, IInv, StreamTypes
    <3> QED
      BY <2>2, <3>1 DEF RestartManager, Cut, Feed!feed
  <2>3. CASE LoopResyncs
    BY <2>3, InformStep DEF LoopResyncs, manager, Asker
  <2>4. CASE PollAnswered
    BY <2>4, InformStep DEF PollAnswered, manager, Asker
  <2>5. ASSUME NEW id, ApplyFrame(id) PROVE Feed!FeedNext \/ UNCHANGED Feed!feed
    BY <2>5, HearStep
  <2>6. CASE Handler \/ LoopFails \/ StreamEnds \/ BackoffEnds \/ AskForPoll \/ UNCHANGED vars
    BY <2>6 DEF Handler, AnswerEvents, SendReplay, Subscribe, SendLive, EndStream, ReadStatus, LoopFails,
                StreamEnds, BackoffEnds, AskForPoll, vars, manager, bridge, Feed!feed, published
  <2>7. ASSUME NEW id, ResyncRequired(id) PROVE UNCHANGED Feed!feed
    BY <2>7 DEF ResyncRequired, manager, Feed!feed, published
  <2>8. CASE Network
    BY <2>8 DEF Network, Break, AskFails, Cut, Feed!feed, published
  <2> QED
    BY <2>1, <2>2, <2>3, <2>4, <2>5, <2>6, <2>7, <2>8 DEF Next, Manager, Loop, Frame, Poll
<1> QED
  BY <1>1, <1>2, Invariance, PTL DEF Spec, Feed!FeedSafety

(* On connecting, the bridge never passes on a status older than an event  *)
(* it has already dispatched: runLoop reads the status when the stream it  *)
(* heard that event on has ended.                                          *)
THEOREM LoopStatusFresh == Spec => LoopNeverStale
<1>1. IInv /\ [Next]_vars => [snap' # snap => \A n \in heard : n <= Covers(snap')]_vars
  <2> SUFFICES ASSUME IInv, Next, snap' # snap PROVE \A n \in heard : n <= Covers(snap')
      OBVIOUS
  <2>1. LoopResyncs
    BY DEF Next, Manager, Handler, Loop, Poll, Frame, Publish, RestartManager, AnswerEvents, SendReplay,
           Subscribe, SendLive, EndStream, ReadStatus, LoopFails, StreamEnds, BackoffEnds, ApplyFrame,
           ResyncRequired, AskForPoll, PollAnswered, Network, Break, AskFails, Cut, bridge
  <2> QED
    BY <2>1 DEF LoopResyncs, IInv, HeardOK, UpTo
<1> QED
  BY <1>1, Invariance, PTL DEF Spec, LoopNeverStale

=============================================================================
