-------------------------------- MODULE Channel --------------------------------
(***************************************************************************)
(* One toggleable channel, meeting or streaming: the ChannelExecutor       *)
(* (channels/machine.ts) with the relay it drives, the consumers the       *)
(* pipeline manager runs for it and the events it hears of them. The two   *)
(* channels share no state but the queue, so one of them is modelled.      *)
(*                                                                         *)
(* A step of the serial queue is one action. What awaits in between is an  *)
(* attempt to launch a consumer, numbered by launches, or a disable under  *)
(* way. The consumer of attempt n is called n.                             *)
(***************************************************************************)
EXTENDS RelayConfig, Sequences, FiniteSets

CONSTANTS
  RestartLimit,   \* automatic restarts in a window, 3
  MaxLaunches,    \* bound on attempts
  MaxLectures,    \* bound on lectures
  MaxDisturbances \* bound on lost events, failed calls, edits of targets, hasty disables

ASSUME ChannelAssumption ==
  /\ {RestartLimit, MaxDisturbances} \subseteq Nat
  /\ {MaxLaunches, MaxLectures} \subseteq Nat \ {0}

VARIABLES
  channel,      \* which of the two
  record,       \* the RuntimeRecord
  launches,     \* attempts made
  attempt,      \* where each attempt waits
  consumer,     \* the process of each attempt
  events,       \* events on their way to core-api
  disabling,    \* disables accepted and not finished
  lecture,      \* the last lecture and whether it is on
  open,         \* open activations in the row of each lecture
  irregular,    \* what has happened that the machine does not provide for
  disturbances

control == <<record, launches, attempt, disabling>>
world == <<channel, consumer, events, lecture, disturbances>>
vars == <<relay, control, world, open, irregular>>

Attempts == 1..MaxLaunches
Lectures == 1..MaxLectures
Off == [state |-> "off", consumer |-> 0, session |-> 0,
        disableRequested |-> FALSE, restarts |-> 0]

Init ==
  /\ RelayInit
  /\ channel \in {"meeting", "streaming"}
  /\ record = Off
  /\ launches = 0 /\ attempt = [n \in Attempts |-> "none"]
  /\ consumer = [n \in Attempts |-> "none"]
  /\ events = <<>> /\ disabling = {}
  /\ lecture = [last |-> 0, on |-> FALSE]
  /\ open = [s \in Lectures |-> 0]
  /\ irregular = {} /\ disturbances = 0

Pending(kind) == {i \in 1..Len(events) : events[i].kind = kind}

(* The bound on attempts: every exit on its way may need one.              *)
Room == launches < MaxLaunches /\ launches + Cardinality(Pending("exited")) < MaxLaunches

NoteOverlap ==
  irregular' = IF reloads = {} THEN irregular ELSE irregular \cup {"overlap"}

Disturbance == disturbances < MaxDisturbances /\ disturbances' = disturbances + 1
Irregularity(kind) == Disturbance /\ irregular' = irregular \cup {kind}
Fault == Irregularity("fault")

----------------------------------------------------------------------------
(* Commands of the panel. Accepted only for the owner of a lecture.        *)

(* The targets are activated before enable returns, up to the first await. *)
Enable ==
  /\ lecture.on /\ record.state = "off" /\ Room
  /\ launches' = launches + 1
  /\ record' = [record EXCEPT !.state = IF channel = "streaming" THEN "preflight" ELSE "starting",
                              !.session = lecture.last, !.disableRequested = FALSE,
                              !.restarts = 0]
  /\ \/ /\ channel = "meeting"
        /\ attempt' = [attempt EXCEPT ![launches'] = "calling"]
        /\ UNCHANGED <<relay, irregular>>
     \/ /\ channel = "streaming"     \* no targets are configured
        /\ attempt' = [attempt EXCEPT ![launches'] = "refused"]
        /\ UNCHANGED <<relay, irregular>>
     \/ /\ channel = "streaming"
        /\ attempt' = [attempt EXCEPT ![launches'] = "preflight"]
        /\ Activate(launches')
        /\ NoteOverlap
  /\ UNCHANGED <<disabling, world, open>>

(* A disable that never calls the pipeline manager. *)
DisableWithoutStop ==
  /\ lecture.on /\ record.state # "off"
  /\ IF record.state \in {"preflight", "starting"} THEN Irregularity("hasty")
     ELSE UNCHANGED <<irregular, disturbances>>
  /\ \/ /\ record.state = "failed"
        /\ record' = [record EXCEPT !.state = "off", !.consumer = 0, !.session = 0]
        /\ UNCHANGED disabling
     \/ /\ record.state = "preflight"
        /\ record' = [record EXCEPT !.state = "off", !.session = 0]
        /\ UNCHANGED disabling
     \/ /\ record.state \in {"starting", "on", "stopping"}
        /\ record' = [record EXCEPT !.state = "stopping", !.disableRequested = TRUE]
        /\ disabling' = disabling \cup {[consumer |-> record.consumer,
                                             at |-> "finish"]}
  /\ UNCHANGED <<relay, launches, attempt, channel, consumer, events, lecture, open>>

(* A disable in preflight or while starting leaves the attempt under way.  *)
Disable ==
  /\ lecture.on /\ record.state # "off"
  /\ IF record.state \in {"preflight", "starting"} THEN Irregularity("hasty")
     ELSE UNCHANGED <<irregular, disturbances>>
  /\ \/ /\ record.state = "failed"
        /\ record' = [record EXCEPT !.state = "off", !.consumer = 0, !.session = 0]
        /\ UNCHANGED disabling
     \/ /\ record.state = "preflight"
        /\ record' = [record EXCEPT !.state = "off", !.session = 0]
        /\ UNCHANGED disabling
     \/ /\ record.state \in {"starting", "on", "stopping"}
        /\ record' = [record EXCEPT !.state = "stopping", !.disableRequested = TRUE]
        /\ disabling' = disabling \cup {[consumer |-> record.consumer,
                            at |-> IF record.consumer = 0 THEN "finish" ELSE "call"]}
  /\ UNCHANGED <<relay, launches, attempt, channel, consumer, events, lecture, open>>

----------------------------------------------------------------------------
(* An attempt: preflight, the call of the pipeline manager, the race for   *)
(* the confirmation.                                                       *)

(* A preflight that does not await the relay. *)
PreflightUnawaited(n) ==
  /\ attempt[n] = "preflight"
  /\ IF record.disableRequested \/ record.state # "preflight"
       THEN attempt' = [attempt EXCEPT ![n] = "done"] /\ UNCHANGED record
       ELSE /\ attempt' = [attempt EXCEPT ![n] = "calling"]
            /\ record' = [record EXCEPT !.state = "starting"]
  /\ UNCHANGED <<relay, launches, disabling, world, open, irregular>>

PreflightPasses(n) ==
  /\ attempt[n] = "preflight"
  /\ ~ \E r \in reloads : r.op = "activate" /\ r.n = n
  /\ IF record.disableRequested \/ record.state # "preflight"
       THEN attempt' = [attempt EXCEPT ![n] = "done"] /\ UNCHANGED record
       ELSE /\ attempt' = [attempt EXCEPT ![n] = "calling"]
            /\ record' = [record EXCEPT !.state = "starting"]
  /\ UNCHANGED <<relay, launches, disabling, world, open, irregular>>

FailChannel == record' = [record EXCEPT !.consumer = 0, !.state = "failed"]

AttemptFails(n) ==
  /\ attempt[n] = "refused"
  /\ attempt' = [attempt EXCEPT ![n] = "done"]
  /\ FailChannel
  /\ UNCHANGED <<relay, launches, disabling, world, open, irregular>>

(* The answer of the manager: the race is armed only now.                  *)
Launched(n) ==
  /\ attempt[n] = "called"
  /\ attempt' = [attempt EXCEPT ![n] = "racing"]
  /\ record' = [record EXCEPT !.consumer = n]
  /\ UNCHANGED <<relay, launches, disabling, world, open, irregular>>

(* A race that ends when the process does, and not by the clock. *)
RaceWithoutTimer(n) ==
  /\ attempt[n] = "racing" /\ consumer[n] = "down"
  /\ attempt' = [attempt EXCEPT ![n] = "timedout"]
  /\ FailChannel
  /\ UNCHANGED <<relay, launches, disabling, world, open, irregular>>

RaceTimesOut(n) ==
  /\ attempt[n] = "racing"
  /\ attempt' = [attempt EXCEPT ![n] = "timedout"]
  /\ FailChannel
  /\ UNCHANGED <<relay, launches, disabling, world, open, irregular>>

(* The backoff has passed: launched whatever the state is by then, or not  *)
(* when the configuration is no longer valid.                              *)
Relaunch(n) ==
  /\ attempt[n] = "backoff"
  /\ \E next \in {"calling", "refused"} : attempt' = [attempt EXCEPT ![n] = next]
  /\ UNCHANGED <<relay, launches, record, disabling, world, open, irregular>>

----------------------------------------------------------------------------
(* Events, heard in the order in which they were published.                *)

ConfirmOn(n) ==
  /\ attempt' = [attempt EXCEPT ![n] = "done"]
  /\ record' = [record EXCEPT !.state = "on"]
  /\ open' = IF record.session = 0 THEN open ELSE [open EXCEPT ![record.session] = @ + 1]
  /\ UNCHANGED launches

(* The window of the budget has passed, or not, since the first restart    *)
(* (the bound on attempts: when there is one left).                        *)
Exited(n) ==
  \E used \in {record.restarts} \cup (IF launches < MaxLaunches THEN {0} ELSE {}) :
    IF used >= RestartLimit
      THEN FailChannel /\ UNCHANGED <<launches, attempt>>
      ELSE /\ launches < MaxLaunches /\ launches' = launches + 1
           /\ attempt' = [attempt EXCEPT ![launches'] = "backoff"]
           /\ record' = [record EXCEPT !.state = "starting", !.consumer = 0,
                                       !.restarts = used + 1]

Concerns(e) ==
  IF e.kind = "running" THEN attempt[e.n] = "racing"
  ELSE record.state = "on" /\ record.consumer = e.n

HearEvent ==
  /\ events # <<>> /\ events' = Tail(events)
  /\ LET e == Head(events)
     IN IF ~ Concerns(e) THEN UNCHANGED <<record, launches, attempt, open>>
        ELSE IF e.kind = "running" THEN ConfirmOn(e.n)
        ELSE Exited(e.n) /\ UNCHANGED open
  /\ UNCHANGED <<relay, disabling, channel, consumer, lecture, disturbances, irregular>>

(* The gap of the event stream: see PmEventStream.                         *)
LoseEvent ==
  /\ events # <<>> /\ events' = Tail(events)
  /\ Fault
  /\ UNCHANGED <<relay, control, channel, consumer, lecture, open>>

----------------------------------------------------------------------------
(* finishDisable. The manager answers when it has stopped the consumer, or *)
(* knows it no longer; what the wait for `exited' then hears decides       *)
(* nothing.                                                                *)

StopAnswered(d) ==
  /\ d.at = "call"
  /\ disabling' = (disabling \ {d}) \cup {[d EXCEPT !.at = "finish"]}
  /\ consumer' = IF consumer[d.consumer] = "up" THEN [consumer EXCEPT ![d.consumer] = "down"]
                 ELSE consumer
  /\ UNCHANGED <<relay, record, launches, attempt, channel, events, lecture, disturbances, open, irregular>>

StopFails(d) ==
  /\ d.at = "call"
  /\ disabling' = (disabling \ {d}) \cup {[d EXCEPT !.at = "finish"]}
  /\ Fault
  /\ UNCHANGED <<relay, record, launches, attempt, channel, consumer, events, lecture, open>>

(* A finish that looks at the state only. *)
FinishRegardless(d) ==
  /\ d.at = "finish"
  /\ disabling' = disabling \ {d}
  /\ IF record.state = "off"
       THEN UNCHANGED <<relay, record, open, irregular>>
       ELSE /\ IF channel = "streaming" THEN Deactivate(launches) /\ NoteOverlap
               ELSE UNCHANGED <<relay, irregular>>
            /\ open' = IF record.session = 0 THEN open ELSE [open EXCEPT ![record.session] = 0]
            /\ record' = [record EXCEPT !.state = "off", !.consumer = 0, !.session = 0,
                                        !.disableRequested = FALSE]
  /\ UNCHANGED <<launches, attempt, world>>

(* Nothing when another consumer, or none, has taken its place.            *)
FinishDisable(d) ==
  /\ d.at = "finish"
  /\ disabling' = disabling \ {d}
  /\ IF record.consumer # d.consumer
       THEN UNCHANGED <<relay, record, open, irregular>>
       ELSE /\ IF channel = "streaming" THEN Deactivate(launches) /\ NoteOverlap
               ELSE UNCHANGED <<relay, irregular>>
            /\ open' = IF record.session = 0 THEN open ELSE [open EXCEPT ![record.session] = 0]
            /\ record' = [record EXCEPT !.state = "off", !.consumer = 0, !.session = 0,
                                        !.disableRequested = FALSE]
  /\ UNCHANGED <<launches, attempt, world>>

----------------------------------------------------------------------------
(* The pipeline manager and the helper.                                    *)

(* The consumer is confirmed and `running' published before the answer.    *)
ConsumerStarts(n) ==
  /\ attempt[n] = "calling"
  /\ attempt' = [attempt EXCEPT ![n] = "called"]
  /\ consumer' = [consumer EXCEPT ![n] = "up"]
  /\ events' = Append(events, [kind |-> "running", n |-> n])
  /\ UNCHANGED <<relay, record, launches, disabling, channel, lecture, disturbances, open, irregular>>

ConsumerRefused(n) ==
  /\ attempt[n] = "calling"
  /\ attempt' = [attempt EXCEPT ![n] = "refused"]
  /\ UNCHANGED <<relay, record, launches, disabling, world, open, irregular>>

AnswerLost(n) ==
  /\ attempt[n] = "called"
  /\ attempt' = [attempt EXCEPT ![n] = "refused"]
  /\ Fault
  /\ UNCHANGED <<relay, record, launches, disabling, channel, consumer, events, lecture, open>>

ConsumerExits(n) ==
  /\ consumer[n] = "up" /\ (Room \/ record.restarts >= RestartLimit)
  /\ consumer' = [consumer EXCEPT ![n] = "down"]
  /\ events' = Append(events, [kind |-> "exited", n |-> n])
  /\ UNCHANGED <<relay, control, channel, lecture, disturbances, open, irregular>>

Edit ==
  /\ EditTargets
  /\ Disturbance
  /\ IF configured THEN NoteOverlap ELSE UNCHANGED irregular
  /\ UNCHANGED <<control, channel, consumer, events, lecture, open>>

Applies(r) == HelperApplies(r) /\ UNCHANGED <<control, world, open, irregular>>
Answered(r) == ReloadAnswered(r) /\ UNCHANGED <<control, world, open, irregular>>

(* A failed activation fails the attempt; any other is only logged.        *)
Fails(r) ==
  /\ ReloadFails(r)
  /\ Fault
  /\ attempt' = IF r.op = "activate" THEN [attempt EXCEPT ![r.n] = "refused"] ELSE attempt
  /\ UNCHANGED <<record, launches, disabling, channel, consumer, events, lecture, open>>

(* The executor of the lecture session: it never calls this one.           *)
LectureStarts ==
  /\ ~ lecture.on /\ lecture.last < MaxLectures
  /\ lecture' = [last |-> lecture.last + 1, on |-> TRUE]
  /\ UNCHANGED <<relay, control, channel, consumer, events, disturbances, open, irregular>>

LectureEnds ==
  /\ lecture.on
  /\ lecture' = [lecture EXCEPT !.on = FALSE]
  /\ UNCHANGED <<relay, control, channel, consumer, events, disturbances, open, irregular>>

AttemptStep(n) ==
  \/ PreflightPasses(n) \/ AttemptFails(n) \/ Launched(n) \/ RaceTimesOut(n) \/ Relaunch(n)
  \/ ConsumerStarts(n) \/ ConsumerRefused(n) \/ AnswerLost(n)

Disables == [consumer : 0..MaxLaunches, at : {"call", "finish"}]
DisableStep(d) == StopAnswered(d) \/ StopFails(d) \/ FinishDisable(d)
ReloadStep(r) == Applies(r) \/ Answered(r) \/ Fails(r)

Next ==
  \/ Enable \/ Disable
  \/ \E n \in Attempts : AttemptStep(n) \/ ConsumerExits(n)
  \/ HearEvent \/ LoseEvent
  \/ \E d \in disabling : DisableStep(d)
  \/ \E r \in reloads : ReloadStep(r)
  \/ Edit \/ LectureStarts \/ LectureEnds

Spec == Init /\ [][Next]_vars

(* Every call is answered or times out, timers fire, the queue is served.  *)
(* Nobody has to press a button, nor does a consumer have to exit.         *)
Fairness ==
  /\ \A n \in Attempts : WF_vars(AttemptStep(n))
  /\ \A d \in Disables : WF_vars(d \in disabling /\ DisableStep(d))
  /\ WF_vars(\E r \in reloads : ReloadStep(r))
  /\ WF_vars(HearEvent)

FairSpec == Spec /\ Fairness
----------------------------------------------------------------------------

TypeOK ==
  /\ channel \in {"meeting", "streaming"}
  /\ record \in [state : {"off", "preflight", "starting", "on", "stopping", "failed"},
                 consumer : 0..MaxLaunches, session : 0..MaxLectures,
                 disableRequested : BOOLEAN, restarts : 0..RestartLimit]
  /\ launches \in 0..MaxLaunches
  /\ attempt \in [Attempts -> {"none", "preflight", "backoff", "calling", "called", "refused",
                              "racing", "timedout", "done"}]
  /\ consumer \in [Attempts -> {"none", "up", "down"}]
  /\ events \in Seq([kind : {"running", "exited"}, n : Attempts])
  /\ disabling \subseteq Disables
  /\ lecture \in [last : 0..MaxLectures, on : BOOLEAN]
  /\ open \in [Lectures -> Nat]
  /\ irregular \subseteq {"hasty", "overlap", "fault"}
  /\ disturbances \in 0..MaxDisturbances
  /\ configured \in BOOLEAN
  /\ edition \in 0..MaxEdits
  /\ {lastDigest, pushed} \subseteq 0..Never
  /\ reloads \subseteq [op : {"activate", "deactivate", "refresh"}, n : Nat,
                       at : {"sent", "applied"}, digest : 0..(MaxEdits + 1)]

Under(phases) == {n \in Attempts : attempt[n] \in phases}
UnderWay == Under({"preflight", "backoff", "calling", "called", "refused", "racing"})

(* As long as nobody disables a channel that is still coming up, the state *)
(* shown says where the one attempt under way is, and that there is none   *)
(* in any other state; a channel that is on has a consumer, the last one   *)
(* launched. (enable accepts only off; every failure forgets the attempt.) *)
StateTellsAttempt ==
  "hasty" \notin irregular =>
    /\ UnderWay = IF record.state \in {"preflight", "starting"} THEN {launches} ELSE {}
    /\ record.state \in {"on", "stopping"} => record.consumer = launches
    /\ record.state \in {"off", "failed", "preflight"} => record.consumer = 0

(* Nobody else runs: a consumer that is up is the one of the attempt under *)
(* way or of a channel that is on or stopping, or was given up unconfirmed *)
(* by the race. Holds while no call or event is lost and nobody disables a *)
(* channel that is still coming up.                                        *)
OthersGivenUp ==
  irregular \subseteq {"overlap"} =>
    \A n \in Attempts : consumer[n] = "up" =>
      \/ attempt[n] = "timedout"
      \/ n \in UnderWay
      \/ record.consumer = n /\ record.state \in {"on", "stopping"}

Refreshing == \E r \in reloads : r.op = "refresh"
Pushing == configured /\ (Refreshing \/ pushed = Digest(TRUE, edition))

(* INV-ST-2: the push targets are active before a consumer is launched and *)
(* as long as it runs, with the targets as they were edited last once the  *)
(* relay is reloaded. (The digest is compared before the await.)           *)
PushedWhileLive ==
  channel = "streaming" /\ irregular = {} =>
    (record.state \in {"starting", "on", "stopping"} => Pushing)

(* A channel that is changing comes to rest: on, off or failed.            *)
ComesToRest ==
  record.state \in {"preflight", "starting", "stopping"}
    ~> record.state \in {"off", "on", "failed"}

(* machine.ts:276 has the targets activated before the consumer connects;  *)
(* INV-ST-2 of docs/design/state-machines.md. The code compares a digest   *)
(* that an unfinished deactivation is about to replace.                    *)
TargetsBeforeConnect ==
  channel = "streaming" /\ "fault" \notin irregular /\ "hasty" \notin irregular
    /\ record.state = "on" /\ reloads = {} => pushed # Empty
=============================================================================
