-------------------------- MODULE RecordingSession --------------------------
(***************************************************************************)
(* The lecture session of core-api: the executor that takes the panel's    *)
(* commands (recording/executor.ts), the state machine that writes the     *)
(* database (recording/machine.ts), the recovery pass of a restart         *)
(* (recording/boot-recovery.ts) and the record consumers of the pipeline   *)
(* manager they drive over HTTP and an event stream (consumers/record.py). *)
(*                                                                         *)
(* One action is one run of the event loop of core-api, up to the point    *)
(* where nothing is left to do without new input, except that a work item  *)
(* made of several database transactions is one action per transaction:    *)
(* `turn' is what the item still has to write, and a crash may come first. *)
(* A refused command, and one accepted as a repetition, changes nothing    *)
(* and has no action; the owner check and the guards on storage, volume,   *)
(* provisioning and channel only decide whether the command is refused.    *)
(***************************************************************************)
EXTENDS Naturals, Sequences

CONSTANTS
  Sessions,      \* identifiers of lecture sessions
  Consumers,     \* identifiers of record consumers, in the order the pipeline manager lists them
  NoConsumer,    \* no entry in the map of active consumers
  MaxCrashes     \* bound on crashes of core-api and of the device

ASSUME ConsumersAssumption == Consumers \subseteq Nat
ASSUME NoConsumerAssumption == NoConsumer \notin Consumers
ASSUME MaxCrashesAssumption == MaxCrashes \in Nat

VARIABLES
  up,          \* core-api is running
  passed,      \* this run of core-api has made its boot recovery pass
  turn,        \* the transactions the current work item still has to make
  state,       \* lecture_sessions.state, "none" for a row not yet written
  recording,   \* recordings.state of the session's recording
  segments,    \* recording_segments by index, with the consumer each was opened for
  active,      \* activeConsumerId, in the memory of core-api
  launch,      \* the start call and the confirm race of a session
  wait,        \* the stop call and the EOS race of a pause and of a stop
  cons,        \* the record consumers in the pipeline manager
  target,      \* the session and segment number whose file a consumer writes
  events,      \* events on their way from the pipeline manager to core-api
  crashes

memory == <<passed, turn, active, launch, wait>>
database == <<state, recording, segments>>
pm == <<cons, target>>
vars == <<up, memory, database, pm, events, crashes>>

----------------------------------------------------------------------------
NonTerminal == {"starting", "recording", "paused", "stopping", "finalizing"}
Terminal == {"completed", "error"}
SegmentState == {"capturing", "finalized", "truncated"}
Kinds == {"pause", "stop"}
ConsumerState == {"free", "launching", "running", "stopping", "stopped", "failed", "dead"}
Settled == {"eos", "timeout"}

AnyConsumer == Consumers \cup {NoConsumer}
Segment == [state : SegmentState, source : Consumers]
Launch == [phase : {"none", "calling", "racing"}, con : AnyConsumer]
Wait == [phase : {"none", "calling", "racing"} \cup Settled, con : AnyConsumer]
Turn == [todo : {"nothing"}, session : {"nobody"}]
        \cup [todo : {"finalize", "complete", "recover"}, session : Sessions]
Event == [kind : {"running", "eos"}, con : Consumers]

Idle == [phase |-> "none", con |-> NoConsumer]
NoTurn == [todo |-> "nothing", session |-> "nobody"]
Todo(what, s) == [todo |-> what, session |-> s]

Init ==
  /\ up = TRUE
  /\ passed = FALSE
  /\ turn = NoTurn
  /\ state = [s \in Sessions |-> "none"]
  /\ recording = [s \in Sessions |-> "none"]
  /\ segments = [s \in Sessions |-> <<>>]
  /\ active = [s \in Sessions |-> NoConsumer]
  /\ launch = [s \in Sessions |-> Idle]
  /\ wait = [k \in Kinds |-> [s \in Sessions |-> Idle]]
  /\ cons = [c \in Consumers |-> "free"]
  /\ target = [c \in Consumers |-> <<>>]
  /\ events = {}
  /\ crashes = 0

----------------------------------------------------------------------------
(* The event loop is at rest: no work item is under way and no settled     *)
(* race has its continuation still queued.                                 *)
Quiet == /\ up
         /\ turn = NoTurn
         /\ \A k \in Kinds, s \in Sessions : wait[k][s].phase \notin Settled

(* A schema without the partial unique index. *)
NoIndexAdmits(s) == s \in Sessions

(* The unique index one_active_session lets a row be non-terminal only if  *)
(* every other row is not; a transaction that would break it is undone.    *)
IndexAdmits(s) == \A t \in Sessions \ {s} : state[t] \notin NonTerminal

OpenIn(q) == {i \in DOMAIN q : q[i].state = "capturing"}
Open(s) == OpenIn(segments[s])
HasOpen(s) == Open(s) # {}
HasSegments(s) == segments[s] # <<>>

(* A closing that writes a word the column does not know. *)
ClosedWithReason(q, how) ==
  [i \in DOMAIN q |-> IF q[i].state = "capturing" THEN [q[i] EXCEPT !.state = "closed"] ELSE q[i]]

(* closeSegment: the segment ends finalized after an EOS, else truncated.  *)
Closed(q, how) ==
  [i \in DOMAIN q |-> IF q[i].state = "capturing" THEN [q[i] EXCEPT !.state = how] ELSE q[i]]

CloseOpen(s, how) == segments' = [segments EXCEPT ![s] = Closed(@, how)]

(* A start call that names the latest segment instead of the next one. *)
RequestLatest(s) ==
  \E c \in Consumers :
    /\ cons[c] = "free"
    /\ \A d \in Consumers : cons[d] = "free" => c <= d
    /\ cons' = [cons EXCEPT ![c] = "launching"]
    /\ target' = [target EXCEPT ![c] = <<s, IF HasSegments(s) THEN Len(segments[s]) ELSE 1>>]
    /\ launch' = [launch EXCEPT ![s] = [phase |-> "calling", con |-> c]]

(* A start call to the pipeline manager: it makes the next consumer, which *)
(* writes the file of the session's next segment.                          *)
Request(s) ==
  \E c \in Consumers :
    /\ cons[c] = "free"
    /\ \A d \in Consumers : cons[d] = "free" => c <= d
    /\ cons' = [cons EXCEPT ![c] = "launching"]
    /\ target' = [target EXCEPT ![c] = <<s, Len(segments[s]) + 1>>]
    /\ launch' = [launch EXCEPT ![s] = [phase |-> "calling", con |-> c]]

(* A stop call to the pipeline manager; without an active consumer there   *)
(* is nobody to call, and the segment closes at once as not graceful.      *)
AwaitEos(k, s) ==
  wait' = [wait EXCEPT ![k][s] =
    [phase |-> IF active[s] = NoConsumer THEN "timeout" ELSE "calling", con |-> active[s]]]

SetState(s, new) == state' = [state EXCEPT ![s] = new]
SetActive(s, c) == active' = [active EXCEPT ![s] = c]
EndLaunch(s) == launch' = [launch EXCEPT ![s] = Idle]
EndWait(k, s) == wait' = [wait EXCEPT ![k][s] = Idle]

----------------------------------------------------------------------------
(* Commands of the panel.                                                  *)

DoStart(s) ==
  /\ Quiet
  /\ state[s] = "none"
  /\ \A t \in Sessions : state[t] \notin NonTerminal
  /\ SetState(s, "starting")
  /\ recording' = [recording EXCEPT ![s] = "capturing"]
  /\ Request(s)
  /\ UNCHANGED <<up, passed, turn, segments, active, wait, events, crashes>>

DoPause(s) ==
  /\ Quiet
  /\ state[s] = "recording"
  /\ wait["pause"][s].phase = "none"
  /\ AwaitEos("pause", s)
  /\ UNCHANGED <<up, passed, turn, active, launch, database, pm, events, crashes>>

DoResume(s) ==
  /\ Quiet
  /\ state[s] = "paused"
  /\ SetState(s, "starting")
  /\ Request(s)
  /\ UNCHANGED <<up, passed, turn, recording, segments, active, wait, events, crashes>>

DoStop(s) ==
  /\ Quiet
  /\ wait["stop"][s].phase = "none"
  /\ SetState(s, "stopping")
  /\ \/ /\ state[s] = "recording"
        /\ AwaitEos("stop", s)
        /\ UNCHANGED turn
     \/ /\ state[s] = "paused"
        /\ turn' = Todo("finalize", s)
        /\ UNCHANGED wait
  /\ UNCHANGED <<up, passed, recording, segments, active, launch, pm, events, crashes>>

----------------------------------------------------------------------------
(* The outcome of a start call and of its confirm race.                    *)

(* machine.confirmRecording, then the consumer is remembered.              *)
ConfirmStart(s) ==
  /\ EndLaunch(s)
  /\ IF IndexAdmits(s)
       THEN /\ SetState(s, "recording")
            /\ segments' = [segments EXCEPT ![s] =
                 Append(@, [state |-> "capturing", source |-> launch[s].con])]
            /\ SetActive(s, launch[s].con)
       ELSE UNCHANGED <<state, segments, active>>
  /\ UNCHANGED <<turn, recording>>

(* A failed start that ends in error whatever was captured before. *)
FailStartAlwaysError(s) ==
  /\ EndLaunch(s)
  /\ SetState(s, "error")
  /\ SetActive(s, NoConsumer)
  /\ UNCHANGED <<turn, recording, segments>>

(* machine.failStart: without a segment the session ends in error, with    *)
(* one it is finalized.                                                    *)
FailStart(s) ==
  /\ EndLaunch(s)
  /\ IF ~HasSegments(s)
       THEN SetState(s, "error") /\ SetActive(s, NoConsumer) /\ UNCHANGED turn
     ELSE IF IndexAdmits(s)
       THEN SetState(s, "stopping") /\ SetActive(s, NoConsumer) /\ turn' = Todo("finalize", s)
     ELSE UNCHANGED <<state, active, turn>>
  /\ UNCHANGED <<recording, segments>>

(* The pipeline manager accepted the start: armConfirmRace subscribes.     *)
LaunchReply(s) ==
  /\ Quiet
  /\ launch[s].phase = "calling"
  /\ cons[launch[s].con] \notin {"launching", "failed"}
  /\ launch' = [launch EXCEPT ![s].phase = "racing"]
  /\ UNCHANGED <<up, passed, turn, active, wait, database, pm, events, crashes>>

(* A refusal that is only logged. *)
LaunchRefusedLogged(s) ==
  /\ Quiet
  /\ launch[s].phase = "calling"
  /\ cons[launch[s].con] = "failed"
  /\ EndLaunch(s)
  /\ UNCHANGED <<up, passed, turn, active, wait, database, pm, events, crashes>>

LaunchRefused(s) ==
  /\ Quiet
  /\ launch[s].phase = "calling"
  /\ cons[launch[s].con] = "failed"
  /\ FailStart(s)
  /\ UNCHANGED <<up, passed, wait, pm, events, crashes>>

(* The call is lost, or its answer, although the consumer is started.      *)
LaunchLost(s) ==
  /\ Quiet
  /\ launch[s].phase = "calling"
  /\ cons[launch[s].con] # "failed"
  /\ FailStart(s)
  /\ UNCHANGED <<up, passed, wait, pm, events, crashes>>

ConfirmTimeout(s) ==
  /\ Quiet
  /\ launch[s].phase = "racing"
  /\ FailStart(s)
  /\ UNCHANGED <<up, passed, wait, pm, events, crashes>>

(* An event reaches the bus. Whoever has not subscribed yet misses it. An  *)
(* event the bridge loses while it reconnects is one never delivered.      *)
DeliverRunning(c) ==
  LET e == [kind |-> "running", con |-> c] IN
  /\ Quiet
  /\ e \in events
  /\ events' = events \ {e}
  /\ \/ \E s \in Sessions : launch[s] = [phase |-> "racing", con |-> c] /\ ConfirmStart(s)
     \/ /\ \A s \in Sessions : launch[s] # [phase |-> "racing", con |-> c]
        /\ UNCHANGED <<turn, launch, active, database>>
  /\ UNCHANGED <<up, passed, wait, pm, crashes>>

DeliverEos(c) ==
  LET e == [kind |-> "eos", con |-> c] IN
  /\ Quiet
  /\ e \in events
  /\ events' = events \ {e}
  /\ wait' = [k \in Kinds |-> [s \in Sessions |->
       IF wait[k][s] = [phase |-> "racing", con |-> c]
         THEN [phase |-> "eos", con |-> c] ELSE wait[k][s]]]
  /\ UNCHANGED <<up, passed, turn, active, launch, database, pm, crashes>>

----------------------------------------------------------------------------
(* The outcome of a stop call and of its EOS race (recovery.ts).           *)

StopReply(k, s) ==
  /\ Quiet
  /\ wait[k][s].phase = "calling"
  /\ cons[wait[k][s].con] \in {"stopped", "dead"}
  /\ wait' = [wait EXCEPT ![k][s].phase = "racing"]
  /\ UNCHANGED <<up, passed, turn, active, launch, database, pm, events, crashes>>

(* The call is rejected or lost, or its answer, while the consumer runs:   *)
(* the race begins all the same.                                           *)
StopLost(k, s) ==
  /\ Quiet
  /\ wait[k][s].phase = "calling"
  /\ cons[wait[k][s].con] \in {"running", "stopping"}
  /\ wait' = [wait EXCEPT ![k][s].phase = "racing"]
  /\ UNCHANGED <<up, passed, turn, active, launch, database, pm, events, crashes>>

(* A local timeout that only runs after an answer of a consumer stopped. *)
EosTimeoutIfStopped(k, s) ==
  /\ Quiet
  /\ wait[k][s].phase = "racing"
  /\ cons[wait[k][s].con] = "stopped"
  /\ wait' = [wait EXCEPT ![k][s].phase = "timeout"]
  /\ UNCHANGED <<up, passed, turn, active, launch, database, pm, events, crashes>>

EosTimeout(k, s) ==
  /\ Quiet
  /\ wait[k][s].phase = "racing"
  /\ wait' = [wait EXCEPT ![k][s].phase = "timeout"]
  /\ UNCHANGED <<up, passed, turn, active, launch, database, pm, events, crashes>>

(* machine.closeActiveSegment throws, and nothing is written, when no      *)
(* segment is open.                                                        *)
CloseActiveSegment(k, s, next) ==
  /\ CloseOpen(s, IF wait[k][s].phase = "eos" THEN "finalized" ELSE "truncated")
  /\ SetState(s, next)
  /\ SetActive(s, NoConsumer)

(* A closing that does not mind that no segment is open. *)
CanAlwaysClose(s) == IndexAdmits(s)

CanClose(s) == HasOpen(s) /\ IndexAdmits(s)

FinishPause(s) ==
  /\ up /\ turn = NoTurn
  /\ wait["pause"][s].phase \in Settled
  /\ EndWait("pause", s)
  /\ IF CanClose(s)
       THEN CloseActiveSegment("pause", s, "paused")
       ELSE UNCHANGED <<state, segments, active>>
  /\ UNCHANGED <<up, passed, turn, recording, launch, pm, events, crashes>>

FinishStop(s) ==
  /\ up /\ turn = NoTurn
  /\ wait["stop"][s].phase \in Settled
  /\ EndWait("stop", s)
  /\ IF CanClose(s)
       THEN CloseActiveSegment("stop", s, "finalizing") /\ turn' = Todo("complete", s)
       ELSE UNCHANGED <<state, segments, active, turn>>
  /\ UNCHANGED <<up, passed, recording, launch, pm, events, crashes>>

----------------------------------------------------------------------------
(* The later transactions of a work item.                                  *)

EnterFinalizing(s) ==
  /\ up /\ turn = Todo("finalize", s)
  /\ SetState(s, "finalizing")
  /\ turn' = Todo("complete", s)
  /\ UNCHANGED <<up, passed, active, launch, wait, recording, segments, pm, events, crashes>>

CompleteFinalized(s) ==
  /\ up /\ turn = Todo("complete", s)
  /\ turn' = NoTurn
  /\ IF HasSegments(s)
       THEN SetState(s, "completed") /\ UNCHANGED recording
       ELSE SetState(s, "error") /\ recording' = [recording EXCEPT ![s] = "failed"]
  /\ UNCHANGED <<up, passed, active, launch, wait, segments, pm, events, crashes>>

(* BR-2: the session goes back to starting and a new consumer is requested. *)
EnterRecoveryStarting(s) ==
  /\ up /\ turn = Todo("recover", s)
  /\ SetState(s, "starting")
  /\ turn' = NoTurn
  /\ Request(s)
  /\ UNCHANGED <<up, passed, active, wait, recording, segments, events, crashes>>

----------------------------------------------------------------------------
(* The record consumers of the pipeline manager.                           *)

(* An event is lost on a core-api that is down: the bridge starts again    *)
(* from the sequence number of the next status.                            *)
Publish(kind, c) == events' = IF up THEN events \cup {[kind |-> kind, con |-> c]} ELSE events

PmConfirm(c) ==
  /\ cons[c] = "launching"
  /\ cons' = [cons EXCEPT ![c] = "running"]
  /\ Publish("running", c)
  /\ UNCHANGED <<up, memory, database, target, crashes>>

PmReject(c) ==
  /\ cons[c] = "launching"
  /\ cons' = [cons EXCEPT ![c] = "failed"]
  /\ UNCHANGED <<up, memory, database, target, events, crashes>>

PmStopReceived(c) ==
  /\ cons[c] = "running"
  /\ \E k \in Kinds, s \in Sessions : wait[k][s] = [phase |-> "calling", con |-> c]
  /\ cons' = [cons EXCEPT ![c] = "stopping"]
  /\ UNCHANGED <<up, memory, database, target, events, crashes>>

(* _eos_stop publishes `eos', or `eos_timeout' to which core-api does not  *)
(* listen, before it answers the stop call.                                *)
PmStopDone(c) ==
  /\ cons[c] = "stopping"
  /\ cons' = [cons EXCEPT ![c] = "stopped"]
  /\ Publish("eos", c) \/ UNCHANGED events
  /\ UNCHANGED <<up, memory, database, target, crashes>>

(* An unexpected exit of the pipeline; core-api does not listen to it.     *)
PmExit(c) ==
  /\ cons[c] = "running"
  /\ cons' = [cons EXCEPT ![c] = "dead"]
  /\ UNCHANGED <<up, memory, database, target, events, crashes>>

----------------------------------------------------------------------------
(* Crash, power loss, restart and the boot recovery pass.                  *)

LoseMemory ==
  /\ up' = FALSE
  /\ passed' = FALSE
  /\ turn' = NoTurn
  /\ active' = [s \in Sessions |-> NoConsumer]
  /\ launch' = [s \in Sessions |-> Idle]
  /\ wait' = [k \in Kinds |-> [s \in Sessions |-> Idle]]
  /\ events' = {}

Crash ==
  /\ up /\ crashes < MaxCrashes
  /\ crashes' = crashes + 1
  /\ LoseMemory
  /\ UNCHANGED <<database, pm>>

PowerLoss ==
  /\ up /\ crashes < MaxCrashes
  /\ crashes' = crashes + 1
  /\ LoseMemory
  /\ cons' = [c \in Consumers |-> IF cons[c] \in {"launching", "running", "stopping"} THEN "dead" ELSE cons[c]]
  /\ UNCHANGED <<database, target>>

Restart ==
  /\ ~up
  /\ up' = TRUE
  /\ UNCHANGED <<memory, database, pm, events, crashes>>

(* The consumers the pipeline manager reports as running, in its order.    *)
LiveConsumers == {c \in Consumers : cons[c] = "running"}

BootUnchanged == UNCHANGED <<up, state, recording, launch, wait, pm, events, crashes>>

(* BR-1: whichever record consumer is live is taken for the session's.     *)
Adopt(s) ==
  /\ state[s] = "recording"
  /\ \E c \in LiveConsumers : (\A d \in LiveConsumers : c <= d) /\ SetActive(s, c)
  /\ UNCHANGED <<turn, segments>>

(* A recovery that leaves the crashed segment open. *)
RecoverRecordingOpen(s) ==
  /\ state[s] = "recording"
  /\ \E next \in {"recover", "finalize"} : turn' = Todo(next, s)
  /\ UNCHANGED <<segments, active>>

(* BR-2, BR-3, BR-8: no live consumer, or the pipeline manager has not     *)
(* answered within T-BOOT-RECOVERY and the status is taken as empty.       *)
RecoverRecording(s) ==
  /\ state[s] = "recording"
  /\ CloseOpen(s, "truncated")
  /\ \E next \in {"recover", "finalize"} : turn' = Todo(next, s)
  /\ UNCHANGED active

(* BR-4, BR-5, BR-8. *)
RecoverPaused(s) ==
  /\ state[s] = "paused"
  /\ turn' \in {NoTurn, Todo("finalize", s)}
  /\ UNCHANGED <<segments, active>>

(* BR-6: only a stopping session may have a segment to close. *)
RecoverTransient(s) ==
  /\ \/ state[s] = "starting" /\ UNCHANGED segments
     \/ state[s] = "stopping" /\ CloseOpen(s, "truncated")
  /\ turn' = Todo("finalize", s)
  /\ UNCHANGED active

(* BR-7. *)
RecoverFinalizing(s) ==
  /\ state[s] = "finalizing"
  /\ turn' = Todo("complete", s)
  /\ UNCHANGED <<segments, active>>

BootPass ==
  /\ Quiet
  /\ ~passed
  /\ passed' = TRUE
  /\ \/ /\ \A s \in Sessions : state[s] \notin NonTerminal
        /\ UNCHANGED <<turn, segments, active>>
     \/ \E s \in Sessions :
          Adopt(s) \/ RecoverRecording(s) \/ RecoverPaused(s)
            \/ RecoverTransient(s) \/ RecoverFinalizing(s)
  /\ BootUnchanged

----------------------------------------------------------------------------
SessionStep(s) ==
  \/ DoStart(s) \/ DoPause(s) \/ DoResume(s) \/ DoStop(s)
  \/ LaunchReply(s) \/ LaunchRefused(s) \/ LaunchLost(s) \/ ConfirmTimeout(s)
  \/ \E k \in Kinds : StopReply(k, s) \/ StopLost(k, s) \/ EosTimeout(k, s)
  \/ FinishPause(s) \/ FinishStop(s)
  \/ EnterFinalizing(s) \/ CompleteFinalized(s) \/ EnterRecoveryStarting(s)

ConsumerStep(c) ==
  \/ PmConfirm(c) \/ PmReject(c) \/ PmStopReceived(c) \/ PmStopDone(c) \/ PmExit(c)
  \/ DeliverRunning(c) \/ DeliverEos(c)

Next ==
  \/ \E s \in Sessions : SessionStep(s)
  \/ \E c \in Consumers : ConsumerStep(c)
  \/ Crash \/ PowerLoss \/ Restart \/ BootPass

Spec == Init /\ [][Next]_vars

(* What runs by itself: timers, replies, queued work and the restart by    *)
(* the service manager. Commands, failures and events carry no promise.    *)
Fairness ==
  /\ \A s \in Sessions :
       /\ WF_vars(LaunchReply(s)) /\ WF_vars(LaunchRefused(s)) /\ WF_vars(ConfirmTimeout(s))
       /\ \A k \in Kinds : WF_vars(StopReply(k, s)) /\ WF_vars(EosTimeout(k, s))
       /\ WF_vars(FinishPause(s)) /\ WF_vars(FinishStop(s))
       /\ WF_vars(EnterFinalizing(s)) /\ WF_vars(CompleteFinalized(s))
       /\ WF_vars(EnterRecoveryStarting(s))
  /\ \A c \in Consumers :
       /\ WF_vars(PmConfirm(c) \/ PmReject(c))
       /\ WF_vars(PmStopReceived(c)) /\ WF_vars(PmStopDone(c))
  /\ WF_vars(Restart) /\ WF_vars(BootPass)

FairSpec == Spec /\ Fairness
----------------------------------------------------------------------------
(* Every variable holds a value the program can store in it. *)
TypeOK ==
  /\ up \in BOOLEAN
  /\ passed \in BOOLEAN
  /\ turn \in Turn
  /\ state \in [Sessions -> {"none"} \cup NonTerminal \cup Terminal]
  /\ recording \in [Sessions -> {"none", "capturing", "failed"}]
  /\ segments \in [Sessions -> Seq(Segment)]
  /\ active \in [Sessions -> AnyConsumer]
  /\ launch \in [Sessions -> Launch]
  /\ wait \in [Kinds -> [Sessions -> Wait]]
  /\ cons \in [Consumers -> ConsumerState]
  /\ target \in [Consumers -> {<<>>} \cup (Sessions \X Nat)]
  /\ events \subseteq Event
  /\ crashes \in 0..MaxCrashes

(* INV-LS-1: at no time are two lectures under way, although a start call   *)
(* of an old lecture may be answered while a newer lecture runs.            *)
OneActiveSession ==
  \A s, t \in Sessions : state[s] \in NonTerminal /\ state[t] \in NonTerminal => s = t

(* SEG-1: a recording never has two open segments, and the open one is the  *)
(* last, whatever pauses, stops, late confirmations and restarts overlap.   *)
OneOpenSegment ==
  \A s \in Sessions : \A i \in Open(s) : i = Len(segments[s])

(* A segment is open only while the session records or is being stopped:    *)
(* no pause, failure or recovery leaves one behind.                         *)
OpenOnlyWhileCapturing ==
  \A s \in Sessions : HasOpen(s) => state[s] \in {"recording", "stopping"}

(* SM-R-4: a lecture that captured a segment never ends in error, and one   *)
(* that ends completed has captured one.                                    *)
OutcomeTellsCapture ==
  \A s \in Sessions :
    /\ state[s] = "error" => ~HasSegments(s)
    /\ state[s] = "completed" => HasSegments(s)

(* The database row of a segment is the segment whose file the consumer was *)
(* told to write: the number chosen when the start call is sent is still    *)
(* the next one when the confirmation arrives.                              *)
SegmentNamesItsFile ==
  \A s \in Sessions : \A i \in DOMAIN segments[s] :
    target[segments[s][i].source] = <<s, i>>

(* No two consumers are ever told to write the same file, across refused    *)
(* and timed-out starts, resumes and recoveries.                            *)
OutputsDisjoint ==
  \A c, d \in Consumers :
    cons[c] # "free" /\ cons[d] # "free" /\ target[c] = target[d] => c = d

(* What keeps the invariants above: the session of a work item in progress  *)
(* is under way and has nothing open; a session with a start call or a      *)
(* confirm race is starting, or was ended by the recovery pass meanwhile,   *)
(* and its consumer writes the next segment; no other consumer of a session *)
(* under way has a file beyond its last segment.                            *)
TurnOK ==
  turn # NoTurn =>
    /\ ~HasOpen(turn.session)
    /\ turn.todo = "finalize" => state[turn.session] \in NonTerminal
    /\ turn.todo = "complete" => state[turn.session] = "finalizing"
    /\ turn.todo = "recover" => state[turn.session] = "recording"

LaunchOK ==
  \A s \in Sessions : launch[s].phase # "none" =>
    /\ state[s] \in {"starting", "finalizing"} \cup Terminal
    /\ launch[s].con \in Consumers
    /\ cons[launch[s].con] # "free"
    /\ target[launch[s].con] = <<s, Len(segments[s]) + 1>>

TargetOK ==
  \A c \in Consumers :
    IF cons[c] = "free" THEN target[c] = <<>>
    ELSE \E s \in Sessions :
           \/ \E i \in 1..Len(segments[s]) : target[c] = <<s, i>>
           \/ /\ target[c] = <<s, Len(segments[s]) + 1>>
              /\ ~HasOpen(s)
              /\ state[s] \in {"starting", "stopping", "finalizing"} \cup Terminal

InProgressOK == TurnOK /\ LaunchOK /\ TargetOK

(* Only a start call the boot recovery pass has overtaken can bring back a  *)
(* lecture that had ended; no late pause, stop or timeout does.             *)
OnlyALaunchRevives ==
  [][\A s \in Sessions :
       state[s] \in Terminal /\ state'[s] \in NonTerminal => launch[s].phase # "none"]_vars

(* Every accepted start, resume or recovery is decided: the session does    *)
(* not stay in starting, even if the event that confirms it is lost.        *)
StartingResolves ==
  \A s \in Sessions : (state[s] = "starting") ~> (state[s] # "starting")

(* A session that is being stopped with a segment open does not stay so,    *)
(* with or without the EOS event, a live consumer or a crash.               *)
StoppingResolves ==
  \A s \in Sessions :
    (state[s] = "stopping" /\ HasOpen(s)) ~> (state[s] # "stopping" \/ ~HasOpen(s))

----------------------------------------------------------------------------
(* What the repository's documents say and the code does not keep.          *)

(* The diagram of state-machines.md section 1.1 leads from stopping to      *)
(* finalizing only: an accepted stop is not undone.                         *)
StopIsNotUndone ==
  [][\A s \in Sessions :
       state[s] = "stopping" => state'[s] \in {"stopping", "finalizing", "completed", "error"}]_vars

(* boot-recovery.ts, lines 73 to 75: the recovery pass never races a live   *)
(* command, so it runs with no start call or stop call under way.           *)
RecoveryNeverRaces ==
  [][~passed /\ passed' =>
       \A s \in Sessions :
         /\ launch[s].phase = "none"
         /\ \A k \in Kinds : wait[k][s].phase = "none"]_vars

(* R-08 and R-12: the EOS event of a consumer being stopped, delivered      *)
(* before any timeout, makes the pause or stop that waits for it graceful.  *)
EosIsHeard ==
  [][\A c \in Consumers :
       LET e == [kind |-> "eos", con |-> c] IN
       e \in events /\ e \notin events' /\ up' =>
         \A k \in Kinds, s \in Sessions :
           wait[k][s].phase \in {"calling", "racing"} /\ wait[k][s].con = c
             => wait'[k][s].phase = "eos"]_vars

(* R-06: a start that ends in error stops the consumer it had started.      *)
(* (Before the recovery pass only a failed start ends a lecture in error.)  *)
ErrorStopsConsumers ==
  \A s \in Sessions, c \in Consumers :
    (~passed /\ state[s] = "error" /\ target[c] = <<s, 1>> /\ cons[c] = "running")
      ~> (cons[c] # "running")
=============================================================================
