---------------------- MODULE RecordingSessionProofs ----------------------
(***************************************************************************)
(* For every set of sessions and of consumers and every bound on crashes:  *)
(* the safety invariants of RecordingSession, proved from one inductive    *)
(* invariant.                                                              *)
(***************************************************************************)
EXTENDS RecordingSession, TLAPS

USE ConsumersAssumption, NoConsumerAssumption, MaxCrashesAssumption

(* Closing keeps a sequence of segments, its length and the consumer of    *)
(* every segment, and leaves none open.                                    *)
LEMMA ClosedFacts ==
  ASSUME NEW q \in Seq(Segment), NEW how \in {"finalized", "truncated"}
  PROVE  /\ Closed(q, how) \in Seq(Segment)
         /\ Len(Closed(q, how)) = Len(q)
         /\ DOMAIN Closed(q, how) = DOMAIN q
         /\ \A i \in DOMAIN q : Closed(q, how)[i].source = q[i].source
         /\ OpenIn(Closed(q, how)) = {}
  <1> DEFINE r == Closed(q, how)
  <1>1. DOMAIN q = 1..Len(q) /\ Len(q) \in Nat
    OBVIOUS
  <1>2. \A i \in 1..Len(q) : q[i] \in Segment
    OBVIOUS
  <1>3. \A i \in 1..Len(q) : r[i] \in Segment /\ r[i].state # "capturing" /\ r[i].source = q[i].source
    BY <1>1, <1>2 DEF Closed, Segment, SegmentState
  <1>4. r = [i \in 1..Len(q) |-> r[i]]
    BY <1>1 DEF Closed
  <1>5. r \in [1..Len(q) -> Segment]
    BY <1>3, <1>4
  <1>6. r \in Seq(Segment) /\ Len(r) = Len(q) /\ DOMAIN r = 1..Len(q)
    BY <1>1, <1>5
  <1> QED
    BY <1>1, <1>3, <1>6 DEF OpenIn

(* Opening a segment appends it and leaves the others as they were.        *)
LEMMA AppendFacts ==
  ASSUME NEW q \in Seq(Segment), NEW e \in Segment
  PROVE  /\ Append(q, e) \in Seq(Segment)
         /\ Len(Append(q, e)) = Len(q) + 1
         /\ DOMAIN Append(q, e) = 1..(Len(q) + 1)
         /\ \A i \in DOMAIN q : Append(q, e)[i] = q[i]
         /\ Append(q, e)[Len(q) + 1] = e
  OBVIOUS

----------------------------------------------------------------------------
(* Type correctness, one lemma for each group of steps.                    *)

(* A start call keeps the types of the launch and of the consumers.        *)
LEMMA RequestTypes ==
  ASSUME TypeOK, NEW s \in Sessions, Request(s)
  PROVE  /\ launch' \in [Sessions -> Launch]
         /\ cons' \in [Consumers -> ConsumerState]
         /\ target' \in [Consumers -> {<<>>} \cup (Sessions \X Nat)]
  <1>1. PICK c \in Consumers :
          /\ cons' = [cons EXCEPT ![c] = "launching"]
          /\ target' = [target EXCEPT ![c] = <<s, Len(segments[s]) + 1>>]
          /\ launch' = [launch EXCEPT ![s] = [phase |-> "calling", con |-> c]]
    BY DEF Request
  <1>2. Len(segments[s]) + 1 \in Nat
    BY DEF TypeOK
  <1>3. [phase |-> "calling", con |-> c] \in Launch
    BY DEF Launch, AnyConsumer
  <1> QED
    BY <1>1, <1>2, <1>3 DEF TypeOK, ConsumerState

(* The wait of one pause or stop can be replaced by any wait.              *)
LEMMA WaitTypes ==
  ASSUME TypeOK, NEW k \in Kinds, NEW s \in Sessions, NEW w \in Wait
  PROVE  [wait EXCEPT ![k][s] = w] \in [Kinds -> [Sessions -> Wait]]
  BY DEF TypeOK

(* Commands keep the types.                                                *)
LEMMA CommandTypes ==
  ASSUME TypeOK, NEW s \in Sessions,
         DoStart(s) \/ DoPause(s) \/ DoResume(s) \/ DoStop(s)
  PROVE  TypeOK'
  <1> USE DEF SetState, NonTerminal, Terminal, database, pm
  <1>1. CASE DoStart(s)
    BY <1>1, RequestTypes DEF DoStart, TypeOK
  <1>2. CASE DoResume(s)
    BY <1>2, RequestTypes DEF DoResume, TypeOK
  <1>3. ASSUME NEW k \in Kinds, AwaitEos(k, s) PROVE wait' \in [Kinds -> [Sessions -> Wait]]
    <2>1. [phase |-> IF active[s] = NoConsumer THEN "timeout" ELSE "calling", con |-> active[s]] \in Wait
      BY DEF Wait, Settled, TypeOK
    <2> QED
      BY <1>3, <2>1, WaitTypes DEF AwaitEos
  <1>4. CASE DoPause(s)
    BY <1>3, <1>4 DEF DoPause, TypeOK, Kinds
  <1>5. CASE DoStop(s)
    <2>1. CASE state[s] = "recording" /\ AwaitEos("stop", s) /\ UNCHANGED turn
      BY <1>3, <1>5, <2>1 DEF DoStop, TypeOK, Kinds
    <2>2. CASE turn' = Todo("finalize", s) /\ UNCHANGED wait
      BY <1>5, <2>2 DEF DoStop, TypeOK, Todo, Turn
    <2> QED
      BY <1>5, <2>1, <2>2 DEF DoStop
  <1> QED
    BY <1>1, <1>2, <1>4, <1>5

(* The outcome of a start call keeps the types.                            *)
LEMMA LaunchTypes ==
  ASSUME TypeOK, NEW s \in Sessions,
         LaunchReply(s) \/ LaunchRefused(s) \/ LaunchLost(s) \/ ConfirmTimeout(s)
  PROVE  TypeOK'
  <1> USE DEF SetState, SetActive, EndLaunch, NonTerminal, Terminal, database, pm
  <1>1. CASE LaunchReply(s)
    BY <1>1 DEF LaunchReply, TypeOK, Launch
  <1>2. Idle \in Launch /\ Todo("finalize", s) \in Turn /\ NoConsumer \in AnyConsumer
    BY DEF Idle, Launch, AnyConsumer, Todo, Turn
  <1>3. ASSUME FailStart(s)
        PROVE  /\ turn' \in Turn
               /\ state' \in [Sessions -> {"none"} \cup NonTerminal \cup Terminal]
               /\ active' \in [Sessions -> AnyConsumer]
               /\ launch' \in [Sessions -> Launch]
               /\ recording' = recording /\ segments' = segments
    <2>1. launch' \in [Sessions -> Launch] /\ recording' = recording /\ segments' = segments
      BY <1>2, <1>3 DEF FailStart, TypeOK
    <2>2. state' = state \/ \E w \in {"error", "stopping"} : state' = [state EXCEPT ![s] = w]
      BY <1>3 DEF FailStart
    <2>3. active' = active \/ active' = [active EXCEPT ![s] = NoConsumer]
      BY <1>3 DEF FailStart
    <2>4. turn' = turn \/ turn' = Todo("finalize", s)
      BY <1>3 DEF FailStart
    <2>5. state' \in [Sessions -> {"none"} \cup NonTerminal \cup Terminal]
      BY <2>2 DEF TypeOK
    <2>6. active' \in [Sessions -> AnyConsumer]
      BY <1>2, <2>3 DEF TypeOK
    <2>7. turn' \in Turn
      BY <1>2, <2>4 DEF TypeOK
    <2> QED
      BY <2>1, <2>5, <2>6, <2>7
  <1>4. CASE LaunchRefused(s) \/ LaunchLost(s) \/ ConfirmTimeout(s)
    BY <1>3, <1>4 DEF LaunchRefused, LaunchLost, ConfirmTimeout, TypeOK
  <1> QED
    BY <1>1, <1>4

(* A delivered event keeps the types.                                      *)
LEMMA DeliveryTypes ==
  ASSUME TypeOK, NEW c \in Consumers, DeliverRunning(c) \/ DeliverEos(c)
  PROVE  TypeOK'
  <1> USE DEF database, pm
  <1>1. CASE DeliverRunning(c)
    <2>1. ASSUME NEW s \in Sessions, launch[s] = [phase |-> "racing", con |-> c], ConfirmStart(s)
          PROVE  /\ turn' = turn /\ recording' = recording
                 /\ launch' \in [Sessions -> Launch]
                 /\ active' \in [Sessions -> AnyConsumer]
                 /\ state' \in [Sessions -> {"none"} \cup NonTerminal \cup Terminal]
                 /\ segments' \in [Sessions -> Seq(Segment)]
      <3>1. Idle \in Launch
        BY DEF Idle, Launch, AnyConsumer
      <3>2. [state |-> "capturing", source |-> c] \in Segment
        BY DEF Segment, SegmentState
      <3>3. Append(segments[s], [state |-> "capturing", source |-> c]) \in Seq(Segment)
        BY <3>2, AppendFacts DEF TypeOK
      <3>4. CASE IndexAdmits(s)
        <4>1. /\ state' = [state EXCEPT ![s] = "recording"]
              /\ segments' = [segments EXCEPT ![s] = Append(segments[s], [state |-> "capturing", source |-> c])]
              /\ active' = [active EXCEPT ![s] = c]
              /\ launch' = [launch EXCEPT ![s] = Idle]
              /\ turn' = turn /\ recording' = recording
          BY <2>1, <3>4 DEF ConfirmStart, EndLaunch, SetState, SetActive
        <4> QED
          BY <3>1, <3>3, <4>1 DEF TypeOK, AnyConsumer, NonTerminal
      <3>5. CASE ~IndexAdmits(s)
        BY <2>1, <3>1, <3>5 DEF ConfirmStart, TypeOK, EndLaunch
      <3> QED
        BY <3>4, <3>5
    <2> QED
      BY <1>1, <2>1 DEF DeliverRunning, TypeOK
  <1>2. CASE DeliverEos(c)
    <2>1. [phase |-> "eos", con |-> c] \in Wait
      BY DEF Wait, Settled, AnyConsumer
    <2> QED
      BY <1>2, <2>1 DEF DeliverEos, TypeOK
  <1> QED
    BY <1>1, <1>2

(* The outcome of a stop call keeps the types.                             *)
LEMMA StopTypes ==
  ASSUME TypeOK, NEW s \in Sessions,
         \/ \E k \in Kinds : StopReply(k, s) \/ StopLost(k, s) \/ EosTimeout(k, s)
         \/ FinishPause(s) \/ FinishStop(s)
  PROVE  TypeOK'
  <1> USE DEF database, pm
  <1>1. ASSUME NEW k \in Kinds, NEW p \in {"racing", "timeout"},
               wait' = [wait EXCEPT ![k][s].phase = p]
        PROVE  wait' \in [Kinds -> [Sessions -> Wait]]
    <2>1. wait[k][s] \in Wait
      BY DEF TypeOK
    <2>2. [wait[k][s] EXCEPT !.phase = p] \in Wait
      BY <2>1 DEF Wait, Settled
    <2>3. wait' = [wait EXCEPT ![k][s] = [wait[k][s] EXCEPT !.phase = p]]
      BY <1>1 DEF TypeOK
    <2> QED
      BY <2>2, <2>3, WaitTypes
  <1>2. ASSUME NEW k \in Kinds, StopReply(k, s) \/ StopLost(k, s) PROVE TypeOK'
    BY <1>1, <1>2 DEF StopReply, StopLost, TypeOK
  <1>3. ASSUME NEW k \in Kinds, EosTimeout(k, s) PROVE TypeOK'
    BY <1>1, <1>3 DEF EosTimeout, TypeOK
  <1>4. ASSUME NEW k \in Kinds, EndWait(k, s) PROVE wait' \in [Kinds -> [Sessions -> Wait]]
    <2>1. Idle \in Wait
      BY DEF Idle, Wait, AnyConsumer
    <2> QED
      BY <1>4, <2>1, WaitTypes DEF EndWait
  <1>5. ASSUME NEW k \in Kinds, NEW next \in {"paused", "finalizing"}, CloseActiveSegment(k, s, next)
        PROVE  /\ segments' \in [Sessions -> Seq(Segment)]
               /\ state' \in [Sessions -> {"none"} \cup NonTerminal \cup Terminal]
               /\ active' \in [Sessions -> AnyConsumer]
    <2>1. \A how \in {"finalized", "truncated"} : Closed(segments[s], how) \in Seq(Segment)
      BY ClosedFacts DEF TypeOK
    <2> QED
      BY <1>5, <2>1 DEF CloseActiveSegment, CloseOpen, SetState, SetActive, TypeOK, NonTerminal, AnyConsumer
  <1>6. CASE FinishPause(s)
    BY <1>4, <1>5, <1>6 DEF FinishPause, TypeOK, Kinds
  <1>7. CASE FinishStop(s)
    BY <1>4, <1>5, <1>7 DEF FinishStop, TypeOK, Kinds, Todo, Turn
  <1> QED
    BY <1>2, <1>3, <1>6, <1>7

(* The later transactions of a work item keep the types.                   *)
LEMMA TurnTypes ==
  ASSUME TypeOK, NEW s \in Sessions,
         EnterFinalizing(s) \/ CompleteFinalized(s) \/ EnterRecoveryStarting(s)
  PROVE  TypeOK'
  <1> USE DEF SetState, NonTerminal, Terminal, database, pm
  <1>1. NoTurn \in Turn /\ Todo("complete", s) \in Turn
    BY DEF NoTurn, Todo, Turn
  <1>2. CASE EnterFinalizing(s)
    BY <1>1, <1>2 DEF EnterFinalizing, TypeOK
  <1>3. CASE CompleteFinalized(s)
    BY <1>1, <1>3 DEF CompleteFinalized, TypeOK
  <1>4. CASE EnterRecoveryStarting(s)
    BY <1>1, <1>4, RequestTypes DEF EnterRecoveryStarting, TypeOK
  <1> QED
    BY <1>2, <1>3, <1>4

(* The steps of the pipeline manager keep the types.                       *)
LEMMA ConsumerTypes ==
  ASSUME TypeOK, NEW c \in Consumers,
         PmConfirm(c) \/ PmReject(c) \/ PmStopReceived(c) \/ PmStopDone(c) \/ PmExit(c)
  PROVE  TypeOK'
  <1> USE DEF memory, database, ConsumerState
  <1>1. ASSUME NEW kind \in {"running", "eos"}, Publish(kind, c) PROVE events' \subseteq Event
    BY <1>1 DEF Publish, TypeOK, Event
  <1>2. CASE PmConfirm(c)
    BY <1>1, <1>2 DEF PmConfirm, TypeOK
  <1>3. CASE PmReject(c)
    BY <1>3 DEF PmReject, TypeOK
  <1>4. CASE PmStopReceived(c)
    BY <1>4 DEF PmStopReceived, TypeOK
  <1>5. CASE PmStopDone(c)
    BY <1>1, <1>5 DEF PmStopDone, TypeOK
  <1>6. CASE PmExit(c)
    BY <1>6 DEF PmExit, TypeOK
  <1> QED
    BY <1>2, <1>3, <1>4, <1>5, <1>6

(* Crash, power loss, restart and the recovery pass keep the types.        *)
LEMMA RecoveryTypes ==
  ASSUME TypeOK, Crash \/ PowerLoss \/ Restart \/ BootPass
  PROVE  TypeOK'
  <1> USE DEF memory, database, pm
  <1>1. ASSUME LoseMemory
        PROVE  /\ up' \in BOOLEAN /\ passed' \in BOOLEAN /\ turn' \in Turn /\ events' \subseteq Event
               /\ active' \in [Sessions -> AnyConsumer]
               /\ launch' \in [Sessions -> Launch]
               /\ wait' \in [Kinds -> [Sessions -> Wait]]
    BY <1>1 DEF LoseMemory, NoTurn, Turn, AnyConsumer, Idle, Launch, Wait
  <1>2. ASSUME crashes < MaxCrashes, crashes' = crashes + 1 PROVE crashes' \in 0..MaxCrashes
    BY <1>2 DEF TypeOK
  <1>3. CASE Crash
    BY <1>1, <1>2, <1>3 DEF Crash, TypeOK
  <1>4. CASE PowerLoss
    <2>1. cons' \in [Consumers -> ConsumerState]
      BY <1>4 DEF PowerLoss, TypeOK, ConsumerState
    <2> QED
      BY <1>1, <1>2, <1>4, <2>1 DEF PowerLoss, TypeOK
  <1>5. CASE Restart
    BY <1>5 DEF Restart, TypeOK
  <1>6. CASE BootPass
    <2>1. NoTurn \in Turn /\ \A what \in {"finalize", "complete", "recover"}, s \in Sessions : Todo(what, s) \in Turn
      BY DEF NoTurn, Todo, Turn
    <2>2. ASSUME NEW s \in Sessions, CloseOpen(s, "truncated") PROVE segments' \in [Sessions -> Seq(Segment)]
      <3>1. Closed(segments[s], "truncated") \in Seq(Segment)
        BY ClosedFacts DEF TypeOK
      <3> QED
        BY <2>2, <3>1 DEF CloseOpen, TypeOK
    <2>3. ASSUME NEW s \in Sessions,
                 Adopt(s) \/ RecoverRecording(s) \/ RecoverPaused(s) \/ RecoverTransient(s) \/ RecoverFinalizing(s)
          PROVE  /\ turn' \in Turn
                 /\ segments' \in [Sessions -> Seq(Segment)]
                 /\ active' \in [Sessions -> AnyConsumer]
      <3>1. CASE Adopt(s)
        BY <3>1 DEF Adopt, TypeOK, SetActive, LiveConsumers, AnyConsumer
      <3>2. CASE RecoverRecording(s)
        BY <2>1, <2>2, <3>2 DEF RecoverRecording, TypeOK
      <3>3. CASE RecoverPaused(s)
        BY <2>1, <3>3 DEF RecoverPaused, TypeOK
      <3>4. CASE RecoverTransient(s)
        BY <2>1, <2>2, <3>4 DEF RecoverTransient, TypeOK
      <3>5. CASE RecoverFinalizing(s)
        BY <2>1, <3>5 DEF RecoverFinalizing, TypeOK
      <3> QED
        BY <2>3, <3>1, <3>2, <3>3, <3>4, <3>5
    <2>4. passed' \in BOOLEAN /\ BootUnchanged
      BY <1>6 DEF BootPass
    <2>5. /\ turn' \in Turn
          /\ segments' \in [Sessions -> Seq(Segment)]
          /\ active' \in [Sessions -> AnyConsumer]
      BY <1>6, <2>3 DEF BootPass, TypeOK
    <2> QED
      BY <2>4, <2>5 DEF BootUnchanged, TypeOK
  <1> QED
    BY <1>3, <1>4, <1>5, <1>6

(* Every value the variables take is one their type allows.                *)
THEOREM TypeCorrect == Spec => []TypeOK
  <1>1. Init => TypeOK
    <2>1. Idle \in Launch /\ Idle \in Wait /\ NoTurn \in Turn /\ NoConsumer \in AnyConsumer
      BY DEF Idle, Launch, Wait, AnyConsumer, NoTurn, Turn
    <2>2. <<>> \in Seq(Segment) /\ 0 \in 0..MaxCrashes
      OBVIOUS
    <2> SUFFICES ASSUME Init PROVE TypeOK
      OBVIOUS
    <2>3. wait \in [Kinds -> [Sessions -> Wait]]
      BY <2>1 DEF Init
    <2>4. segments \in [Sessions -> Seq(Segment)]
      BY <2>2 DEF Init
    <2>5. launch \in [Sessions -> Launch] /\ active \in [Sessions -> AnyConsumer]
      BY <2>1 DEF Init
    <2>6. cons \in [Consumers -> ConsumerState] /\ target \in [Consumers -> {<<>>} \cup (Sessions \X Nat)]
      BY DEF Init, ConsumerState
    <2> QED
      BY <2>1, <2>2, <2>3, <2>4, <2>5, <2>6 DEF Init, TypeOK
  <1>2. TypeOK /\ [Next]_vars => TypeOK'
    <2> SUFFICES ASSUME TypeOK, [Next]_vars PROVE TypeOK'
      OBVIOUS
    <2>1. ASSUME NEW s \in Sessions, SessionStep(s) PROVE TypeOK'
      BY <2>1, CommandTypes, LaunchTypes, StopTypes, TurnTypes DEF SessionStep
    <2>2. ASSUME NEW c \in Consumers, ConsumerStep(c) PROVE TypeOK'
      BY <2>2, ConsumerTypes, DeliveryTypes DEF ConsumerStep
    <2>3. CASE UNCHANGED vars
      BY <2>3 DEF vars, memory, database, pm, TypeOK
    <2> QED
      BY <2>1, <2>2, <2>3, RecoveryTypes DEF Next
  <1> QED
    BY <1>1, <1>2, PTL DEF Spec

----------------------------------------------------------------------------
(* The safety invariants together with what keeps them.                    *)
SafetyInv ==
  /\ OneActiveSession
  /\ OneOpenSegment
  /\ OpenOnlyWhileCapturing
  /\ OutcomeTellsCapture
  /\ SegmentNamesItsFile
  /\ OutputsDisjoint
  /\ InProgressOK

(* Steps that touch neither the session rows nor the segments nor the      *)
(* files, and begin no start call, keep all but what concerns the work     *)
(* item; those that leave the work item alone too keep the invariants.     *)
LEMMA RowsFrame ==
  ASSUME SafetyInv,
         UNCHANGED <<state, segments, target>>,
         \A c \in Consumers : cons'[c] = "free" <=> cons[c] = "free",
         \A s \in Sessions : launch'[s].phase # "none" =>
           launch'[s].con = launch[s].con /\ launch[s].phase # "none"
  PROVE  /\ OneActiveSession' /\ OneOpenSegment' /\ OpenOnlyWhileCapturing' /\ OutcomeTellsCapture'
         /\ SegmentNamesItsFile' /\ OutputsDisjoint' /\ LaunchOK' /\ TargetOK'
  <1>1. OneActiveSession' /\ OneOpenSegment' /\ OpenOnlyWhileCapturing' /\ OutcomeTellsCapture'
    BY DEF SafetyInv, OneActiveSession, OneOpenSegment, OpenOnlyWhileCapturing, OutcomeTellsCapture,
           HasOpen, Open, HasSegments
  <1>2. SegmentNamesItsFile' /\ OutputsDisjoint'
    BY DEF SafetyInv, SegmentNamesItsFile, OutputsDisjoint
  <1>3. LaunchOK'
    BY DEF SafetyInv, InProgressOK, LaunchOK
  <1>4. TargetOK'
    BY DEF SafetyInv, InProgressOK, TargetOK, HasOpen, Open
  <1> QED
    BY <1>1, <1>2, <1>3, <1>4

LEMMA FrameSafe ==
  ASSUME SafetyInv,
         UNCHANGED <<turn, state, segments, target>>,
         \A c \in Consumers : cons'[c] = "free" <=> cons[c] = "free",
         \A s \in Sessions : launch'[s].phase # "none" =>
           launch'[s].con = launch[s].con /\ launch[s].phase # "none"
  PROVE  SafetyInv'
  <1>1. TurnOK'
    BY DEF SafetyInv, InProgressOK, TurnOK, HasOpen, Open
  <1> QED
    BY <1>1, RowsFrame DEF SafetyInv, InProgressOK

(* Steps that only write the row of one session keep what is said of the   *)
(* segments and files, provided the new state tolerates them.              *)
LEMMA SetStateSafe ==
  ASSUME TypeOK, SafetyInv, NEW s \in Sessions, NEW w \in NonTerminal \cup Terminal,
         SetState(s, w),
         UNCHANGED <<segments, cons, target>>,
         w \in NonTerminal => IndexAdmits(s),
         HasOpen(s) => w \in {"recording", "stopping"},
         w = "error" => ~HasSegments(s),
         w = "completed" => HasSegments(s),
         w \in {"paused", "recording"} => state[s] = w
  PROVE  /\ OneActiveSession' /\ OneOpenSegment' /\ OpenOnlyWhileCapturing' /\ OutcomeTellsCapture'
         /\ SegmentNamesItsFile' /\ OutputsDisjoint' /\ TargetOK'
  <1>1. \A t \in Sessions : state'[t] = IF t = s THEN w ELSE state[t]
    BY DEF SetState, TypeOK
  <1>2. OneActiveSession'
    BY <1>1 DEF SafetyInv, OneActiveSession, IndexAdmits
  <1>3. OneOpenSegment' /\ OpenOnlyWhileCapturing' /\ OutcomeTellsCapture'
    BY <1>1 DEF SafetyInv, OneOpenSegment, OpenOnlyWhileCapturing, OutcomeTellsCapture,
                HasOpen, Open, HasSegments, Terminal
  <1>4. SegmentNamesItsFile' /\ OutputsDisjoint'
    BY DEF SafetyInv, SegmentNamesItsFile, OutputsDisjoint
  <1>5. TargetOK'
    BY <1>1 DEF SafetyInv, InProgressOK, TargetOK, HasOpen, Open, NonTerminal, Terminal
  <1> QED
    BY <1>2, <1>3, <1>4, <1>5

(* What the types say of the segments of a session.                        *)
LEMMA SegmentTypes ==
  ASSUME TypeOK, NEW s \in Sessions
  PROVE  /\ segments[s] \in Seq(Segment)
         /\ Len(segments[s]) \in Nat
         /\ DOMAIN segments[s] = 1..Len(segments[s])
         /\ \A i \in DOMAIN segments[s] : segments[s][i] \in Segment /\ segments[s][i].source \in Consumers
  <1>1. segments[s] \in Seq(Segment)
    BY DEF TypeOK
  <1>2. \A i \in DOMAIN segments[s] : segments[s][i] \in Segment
    BY <1>1
  <1> QED
    BY <1>1, <1>2 DEF Segment

(* A start call names a file no consumer was given before: every file of a *)
(* session that may send one is that of a segment it already has.          *)
LEMMA RequestSafe ==
  ASSUME TypeOK, SafetyInv, NEW s \in Sessions,
         Request(s), SetState(s, "starting"), UNCHANGED segments,
         state[s] \in {"none", "paused", "recording"}, ~HasOpen(s), IndexAdmits(s)
  PROVE  /\ OneActiveSession' /\ OneOpenSegment' /\ OpenOnlyWhileCapturing' /\ OutcomeTellsCapture'
         /\ SegmentNamesItsFile' /\ OutputsDisjoint' /\ LaunchOK' /\ TargetOK'
  <1>1. PICK c \in Consumers :
          /\ cons[c] = "free"
          /\ cons' = [cons EXCEPT ![c] = "launching"]
          /\ target' = [target EXCEPT ![c] = <<s, Len(segments[s]) + 1>>]
          /\ launch' = [launch EXCEPT ![s] = [phase |-> "calling", con |-> c]]
    BY DEF Request
  <1>2. \A t \in Sessions : state'[t] = IF t = s THEN "starting" ELSE state[t]
    BY DEF SetState, TypeOK
  <1>3. \A d \in Consumers : /\ cons'[d] = IF d = c THEN "launching" ELSE cons[d]
                             /\ target'[d] = IF d = c THEN <<s, Len(segments[s]) + 1>> ELSE target[d]
    BY <1>1 DEF TypeOK
  <1>4. \A t \in Sessions : launch'[t] = IF t = s THEN [phase |-> "calling", con |-> c] ELSE launch[t]
    BY <1>1 DEF TypeOK
  <1>5. Len(segments[s]) \in Nat
    BY SegmentTypes
  <1>0. TargetOK
    BY DEF SafetyInv, InProgressOK
  <1>6. \A d \in Consumers : cons[d] # "free" => target[d] # <<s, Len(segments[s]) + 1>>
    <2> SUFFICES ASSUME NEW d \in Consumers, cons[d] # "free", target[d] = <<s, Len(segments[s]) + 1>>
                 PROVE  FALSE
      OBVIOUS
    <2>1. PICK t \in Sessions :
            \/ \E i \in 1..Len(segments[t]) : target[d] = <<t, i>>
            \/ /\ target[d] = <<t, Len(segments[t]) + 1>>
               /\ ~HasOpen(t)
               /\ state[t] \in {"starting", "stopping", "finalizing"} \cup Terminal
      BY <1>0 DEF TargetOK
    <2>2. t = s
      BY <2>1
    <2> QED
      BY <1>5, <2>1, <2>2 DEF Terminal
  <1>7. OneActiveSession'
    BY <1>2 DEF SafetyInv, OneActiveSession, IndexAdmits
  <1>8. OneOpenSegment' /\ OpenOnlyWhileCapturing' /\ OutcomeTellsCapture'
    BY <1>2 DEF SafetyInv, OneOpenSegment, OpenOnlyWhileCapturing, OutcomeTellsCapture,
                HasOpen, Open, HasSegments
  <1>9. SegmentNamesItsFile'
    <2>1. \A t \in Sessions : \A i \in DOMAIN segments[t] : segments[t][i].source \in Consumers \ {c}
      <3>1. target[c] = <<>>
        BY <1>1 DEF SafetyInv, InProgressOK, TargetOK
      <3>2. \A t \in Sessions : \A i \in DOMAIN segments[t] : segments[t][i].source \in Consumers
        BY SegmentTypes
      <3>3. \A t \in Sessions : \A i \in DOMAIN segments[t] : target[segments[t][i].source] = <<t, i>>
        BY DEF SafetyInv, SegmentNamesItsFile
      <3> SUFFICES ASSUME NEW t \in Sessions, NEW i \in DOMAIN segments[t], segments[t][i].source = c
                   PROVE  FALSE
        BY <3>2
      <3>4. <<t, i>> = <<>>
        BY <3>1, <3>3
      <3> QED
        BY <3>4
    <2> QED
      BY <1>3, <2>1 DEF SafetyInv, SegmentNamesItsFile
  <1>10. OutputsDisjoint'
    BY <1>3, <1>6 DEF SafetyInv, OutputsDisjoint
  <1>11. LaunchOK'
    <2> SUFFICES ASSUME NEW t \in Sessions, launch'[t].phase # "none"
                 PROVE  /\ state'[t] \in {"starting", "finalizing"} \cup Terminal
                        /\ launch'[t].con \in Consumers
                        /\ cons'[launch'[t].con] # "free"
                        /\ target'[launch'[t].con] = <<t, Len(segments[t]) + 1>>
      BY DEF LaunchOK
    <2>1. CASE t = s
      BY <1>2, <1>3, <1>4, <2>1
    <2>2. CASE t # s
      <3>1. /\ launch[t].con \in Consumers
            /\ cons[launch[t].con] # "free"
            /\ target[launch[t].con] = <<t, Len(segments[t]) + 1>>
            /\ state[t] \in {"starting", "finalizing"} \cup Terminal
        BY <1>4, <2>2 DEF SafetyInv, InProgressOK, LaunchOK
      <3> QED
        BY <1>1, <1>2, <1>3, <1>4, <2>2, <3>1
    <2> QED
      BY <2>1, <2>2
  <1>12. TargetOK'
    <2>1. TargetOK
      BY DEF SafetyInv, InProgressOK
    <2>2. \A t \in Sessions : ~HasOpen(t)' <=> ~HasOpen(t)
      BY DEF HasOpen, Open
    <2> SUFFICES ASSUME NEW d \in Consumers
                 PROVE  IF cons'[d] = "free" THEN target'[d] = <<>>
                        ELSE \E t \in Sessions :
                               \/ \E i \in 1..Len(segments[t]) : target'[d] = <<t, i>>
                               \/ /\ target'[d] = <<t, Len(segments[t]) + 1>>
                                  /\ ~HasOpen(t)
                                  /\ state'[t] \in {"starting", "stopping", "finalizing"} \cup Terminal
      BY <2>2 DEF TargetOK
    <2>3. CASE d = c
      BY <1>2, <1>3, <2>3
    <2>4. CASE d # c
      BY <1>2, <1>3, <2>1, <2>4 DEF TargetOK
    <2> QED
      BY <2>3, <2>4
  <1> QED
    BY <1>7, <1>8, <1>9, <1>10, <1>11, <1>12

(* A confirmation opens the segment whose file the consumer was given.     *)
LEMMA ConfirmSafe ==
  ASSUME TypeOK, SafetyInv, NEW s \in Sessions, turn = NoTurn,
         launch[s].phase # "none", ConfirmStart(s), UNCHANGED pm
  PROVE  SafetyInv'
  <1> USE DEF pm
  <1>1. \A t \in Sessions : launch'[t] = IF t = s THEN Idle ELSE launch[t]
    BY DEF ConfirmStart, EndLaunch, TypeOK
  <1>2. CASE ~IndexAdmits(s)
    <2>1. UNCHANGED <<turn, state, segments, target, cons>>
      BY <1>2 DEF ConfirmStart
    <2> QED
      BY <1>1, <2>1, FrameSafe DEF Idle
  <1>3. CASE IndexAdmits(s)
    <2> DEFINE c == launch[s].con
               q == segments[s]
               e == [state |-> "capturing", source |-> c]
    <2>1. /\ state' = [state EXCEPT ![s] = "recording"]
          /\ segments' = [segments EXCEPT ![s] = Append(q, e)]
          /\ turn' = turn
      BY <1>3 DEF ConfirmStart, SetState
    <2>2. c \in Consumers /\ ~HasOpen(s) /\ target[c] = <<s, Len(q) + 1>> /\ cons[c] # "free"
      BY DEF SafetyInv, InProgressOK, LaunchOK, OpenOnlyWhileCapturing, Terminal
    <2>3. /\ q \in Seq(Segment) /\ Len(q) \in Nat /\ DOMAIN q = 1..Len(q)
          /\ Len(Append(q, e)) = Len(q) + 1
          /\ DOMAIN Append(q, e) = 1..(Len(q) + 1)
          /\ \A i \in DOMAIN q : Append(q, e)[i] = q[i]
          /\ Append(q, e)[Len(q) + 1] = e
      <3>1. e \in Segment /\ q \in Seq(Segment)
        BY <2>2 DEF Segment, SegmentState, TypeOK
      <3> HIDE DEF e, q
      <3> QED
        BY <3>1, AppendFacts
    <2>4. \A t \in Sessions : /\ state'[t] = IF t = s THEN "recording" ELSE state[t]
                              /\ segments'[t] = IF t = s THEN Append(q, e) ELSE segments[t]
      BY <2>1 DEF TypeOK
    <2>5. \A t \in Sessions : Open(t)' = IF t = s THEN {Len(q) + 1} ELSE Open(t)
      <3>1. \A i \in 1..Len(q) : q[i].state # "capturing"
        BY <2>2, <2>3 DEF HasOpen, Open, OpenIn
      <3>2. OpenIn(Append(q, e)) = {Len(q) + 1}
        <4> HIDE DEF q
        <4> QED
          BY <2>3, <3>1 DEF OpenIn
      <3> HIDE DEF q, e
      <3> QED
        BY <2>4, <3>2 DEF Open
    <2> HIDE DEF q, e
    <2>6. OneActiveSession'
      BY <1>3, <2>4 DEF SafetyInv, OneActiveSession, IndexAdmits
    <2>7. OneOpenSegment'
      <3> SUFFICES ASSUME NEW t \in Sessions, NEW i \in Open(t)' PROVE i = Len(segments'[t])
        BY DEF OneOpenSegment
      <3>1. CASE t = s
        <4>1. i = Len(q) + 1 /\ segments'[t] = Append(q, e)
          BY <2>4, <2>5, <3>1
        <4> QED
          BY <2>3, <4>1
      <3>2. CASE t # s
        <4>1. i \in Open(t) /\ segments'[t] = segments[t]
          BY <2>4, <2>5, <3>2
        <4> QED
          BY <4>1 DEF SafetyInv, OneOpenSegment
      <3> QED
        BY <3>1, <3>2
    <2>14. OpenOnlyWhileCapturing'
      BY <2>4, <2>5 DEF SafetyInv, OpenOnlyWhileCapturing, HasOpen
    <2>8. OutcomeTellsCapture'
      BY <2>4 DEF SafetyInv, OutcomeTellsCapture, HasSegments
    <2>9. SegmentNamesItsFile'
      <3> SUFFICES ASSUME NEW t \in Sessions, NEW i \in DOMAIN segments'[t]
                   PROVE  target[segments'[t][i].source] = <<t, i>>
        BY DEF SegmentNamesItsFile
      <3>1. \A u \in Sessions : \A j \in DOMAIN segments[u] : target[segments[u][j].source] = <<u, j>>
        BY DEF SafetyInv, SegmentNamesItsFile
      <3>2. CASE t # s
        <4>1. segments'[t] = segments[t]
          BY <2>4, <3>2
        <4> QED
          BY <3>1, <4>1
      <3>3. CASE t = s
        <4>1. segments'[t] = Append(q, e) /\ segments[s] = q
          BY <2>4, <3>3 DEF q
        <4>2. i \in 1..(Len(q) + 1)
          BY <2>3, <4>1
        <4>3. CASE i \in 1..Len(q)
          <5>1. Append(q, e)[i] = q[i] /\ i \in DOMAIN q
            BY <2>3, <4>3
          <5>2. target[q[i].source] = <<s, i>>
            BY <3>1, <4>1, <5>1
          <5> QED
            BY <3>3, <4>1, <5>1, <5>2
        <4>4. CASE i = Len(q) + 1
          <5>1. segments'[t][i] = e /\ e.source = c
            BY <2>3, <4>1, <4>4 DEF e
          <5> QED
            BY <2>2, <3>3, <4>4, <5>1
        <4> QED
          BY <2>3, <4>2, <4>3, <4>4
      <3> QED
        BY <3>2, <3>3
    <2>10. OutputsDisjoint'
      BY DEF SafetyInv, OutputsDisjoint
    <2>11. TurnOK'
      BY <2>1 DEF TurnOK
    <2>12. LaunchOK'
      <3> SUFFICES ASSUME NEW t \in Sessions, launch'[t].phase # "none"
                   PROVE  /\ state'[t] \in {"starting", "finalizing"} \cup Terminal
                          /\ launch'[t].con \in Consumers
                          /\ cons[launch'[t].con] # "free"
                          /\ target[launch'[t].con] = <<t, Len(segments'[t]) + 1>>
        BY DEF LaunchOK
      <3>1. t # s
        BY <1>1 DEF Idle
      <3> QED
        BY <1>1, <2>4, <3>1 DEF SafetyInv, InProgressOK, LaunchOK
    <2>13. TargetOK'
      <3> SUFFICES ASSUME NEW d \in Consumers, cons[d] # "free"
                   PROVE  \E t \in Sessions :
                            \/ \E i \in 1..Len(segments'[t]) : target[d] = <<t, i>>
                            \/ /\ target[d] = <<t, Len(segments'[t]) + 1>>
                               /\ Open(t)' = {}
                               /\ state'[t] \in {"starting", "stopping", "finalizing"} \cup Terminal
        BY DEF TargetOK, SafetyInv, InProgressOK, HasOpen
      <3>1. PICK t \in Sessions :
              \/ \E i \in 1..Len(segments[t]) : target[d] = <<t, i>>
              \/ /\ target[d] = <<t, Len(segments[t]) + 1>>
                 /\ Open(t) = {}
                 /\ state[t] \in {"starting", "stopping", "finalizing"} \cup Terminal
        BY DEF SafetyInv, InProgressOK, TargetOK, HasOpen
      <3>2. CASE t = s
        <4>1. segments'[s] = Append(q, e) /\ segments[s] = q /\ Len(Append(q, e)) = Len(q) + 1
          BY <2>3, <2>4 DEF q
        <4>2. PICK i \in 1..(Len(q) + 1) : target[d] = <<s, i>>
          BY <2>3, <3>1, <3>2, <4>1
        <4> QED
          BY <4>1, <4>2
      <3>3. CASE t # s
        BY <2>4, <2>5, <3>1, <3>3
      <3> QED
        BY <3>2, <3>3
    <2> QED
      BY <2>6, <2>7, <2>8, <2>9, <2>10, <2>11, <2>12, <2>13, <2>14 DEF SafetyInv, InProgressOK
  <1> QED
    BY <1>2, <1>3

(* What keeps the launches when one session's row is written.              *)
LEMMA LaunchStaysOK ==
  ASSUME TypeOK, SafetyInv, NEW s \in Sessions, NEW w \in NonTerminal \cup Terminal,
         SetState(s, w), UNCHANGED <<segments, cons, target>>,
         \A t \in Sessions : launch'[t].phase # "none" =>
           launch'[t].con = launch[t].con /\ launch[t].phase # "none",
         launch'[s].phase # "none" => w \in {"starting", "finalizing"} \cup Terminal
  PROVE  LaunchOK'
  <1>1. \A t \in Sessions : state'[t] = IF t = s THEN w ELSE state[t]
    BY DEF SetState, TypeOK
  <1> QED
    BY <1>1 DEF SafetyInv, InProgressOK, LaunchOK

(* A failed start ends in error only without a segment.                    *)
LEMMA FailStartSafe ==
  ASSUME TypeOK, SafetyInv, NEW s \in Sessions, turn = NoTurn,
         launch[s].phase # "none", FailStart(s), UNCHANGED pm
  PROVE  SafetyInv'
  <1> USE DEF pm
  <1>1. \A t \in Sessions : launch'[t] = IF t = s THEN Idle ELSE launch[t]
    BY DEF FailStart, EndLaunch, TypeOK
  <1>2. segments' = segments /\ cons' = cons /\ target' = target
    BY DEF FailStart
  <1>3. ~HasOpen(s)
    BY DEF SafetyInv, InProgressOK, LaunchOK, OpenOnlyWhileCapturing, Terminal
  <1>4. CASE state' = state /\ turn' = turn
    BY <1>1, <1>2, <1>4, FrameSafe DEF Idle
  <1>5. CASE ~HasSegments(s) /\ SetState(s, "error") /\ turn' = turn
    <2>1. /\ OneActiveSession' /\ OneOpenSegment' /\ OpenOnlyWhileCapturing' /\ OutcomeTellsCapture'
          /\ SegmentNamesItsFile' /\ OutputsDisjoint' /\ TargetOK'
      BY <1>2, <1>3, <1>5, SetStateSafe DEF Terminal, NonTerminal
    <2>2. LaunchOK'
      BY <1>1, <1>2, <1>5, LaunchStaysOK DEF Idle, Terminal
    <2>3. TurnOK'
      BY <1>5 DEF TurnOK
    <2> QED
      BY <2>1, <2>2, <2>3 DEF SafetyInv, InProgressOK
  <1>6. CASE HasSegments(s) /\ IndexAdmits(s) /\ SetState(s, "stopping") /\ turn' = Todo("finalize", s)
    <2>1. /\ OneActiveSession' /\ OneOpenSegment' /\ OpenOnlyWhileCapturing' /\ OutcomeTellsCapture'
          /\ SegmentNamesItsFile' /\ OutputsDisjoint' /\ TargetOK'
      BY <1>2, <1>3, <1>6, SetStateSafe DEF Terminal, NonTerminal
    <2>2. LaunchOK'
      BY <1>1, <1>2, <1>6, LaunchStaysOK DEF Idle, NonTerminal
    <2>3. TurnOK'
      BY <1>2, <1>3, <1>6 DEF TurnOK, Todo, SetState, TypeOK, HasOpen, Open, NonTerminal
    <2> QED
      BY <2>1, <2>2, <2>3 DEF SafetyInv, InProgressOK
  <1> QED
    BY <1>4, <1>5, <1>6 DEF FailStart

(* Closing the open segment of a session leaves it none, and its length,   *)
(* its files and the other sessions as they were.                          *)
LEMMA CloseEffect ==
  ASSUME TypeOK, NEW s \in Sessions, NEW how \in {"finalized", "truncated"}, CloseOpen(s, how)
  PROVE  \A t \in Sessions :
           /\ Len(segments'[t]) = Len(segments[t])
           /\ DOMAIN segments'[t] = DOMAIN segments[t]
           /\ \A i \in DOMAIN segments[t] : segments'[t][i].source = segments[t][i].source
           /\ Open(t)' = IF t = s THEN {} ELSE Open(t)
           /\ HasSegments(t)' = HasSegments(t)
  <1>1. \A t \in Sessions : segments'[t] = IF t = s THEN Closed(segments[s], how) ELSE segments[t]
    BY DEF CloseOpen, TypeOK
  <1> SUFFICES ASSUME NEW t \in Sessions
               PROVE  /\ Len(segments'[t]) = Len(segments[t])
                      /\ DOMAIN segments'[t] = DOMAIN segments[t]
                      /\ \A i \in DOMAIN segments[t] : segments'[t][i].source = segments[t][i].source
                      /\ Open(t)' = IF t = s THEN {} ELSE Open(t)
                      /\ HasSegments(t)' = HasSegments(t)
    OBVIOUS
  <1>2. CASE t # s
    BY <1>1, <1>2 DEF Open, HasSegments
  <1>3. CASE t = s
    <2> DEFINE q == segments[s]
               r == Closed(q, how)
    <2>1. q \in Seq(Segment)
      BY SegmentTypes
    <2>2. /\ r \in Seq(Segment) /\ Len(r) = Len(q) /\ DOMAIN r = DOMAIN q
          /\ \A i \in DOMAIN q : r[i].source = q[i].source
          /\ OpenIn(r) = {}
      <3> HIDE DEF q
      <3> QED
        BY <2>1, ClosedFacts
    <2>3. (r # <<>>) <=> (q # <<>>)
      <3> HIDE DEF q, r
      <3> QED
        BY <2>1, <2>2
    <2>4. segments'[t] = r /\ segments[t] = q
      BY <1>1, <1>3
    <2> HIDE DEF q, r
    <2> QED
      BY <1>3, <2>2, <2>3, <2>4 DEF Open, HasSegments
  <1> QED
    BY <1>2, <1>3

(* Closing a segment is safe, alone or together with the next state.       *)
LEMMA ClosingSafe ==
  ASSUME TypeOK, SafetyInv, NEW s \in Sessions, NEW how \in {"finalized", "truncated"},
         CloseOpen(s, how), UNCHANGED <<launch, cons, target>>,
         \/ state' = state
         \/ /\ HasOpen(s) /\ IndexAdmits(s)
            /\ \E w \in {"paused", "finalizing"} : SetState(s, w)
  PROVE  /\ OneActiveSession' /\ OneOpenSegment' /\ OpenOnlyWhileCapturing' /\ OutcomeTellsCapture'
         /\ SegmentNamesItsFile' /\ OutputsDisjoint' /\ LaunchOK' /\ TargetOK'
  <1>1. \A t \in Sessions :
          /\ Len(segments'[t]) = Len(segments[t])
          /\ DOMAIN segments'[t] = DOMAIN segments[t]
          /\ \A i \in DOMAIN segments[t] : segments'[t][i].source = segments[t][i].source
          /\ Open(t)' = IF t = s THEN {} ELSE Open(t)
          /\ HasSegments(t)' = HasSegments(t)
    BY CloseEffect
  <1>2. \A t \in Sessions : t # s => state'[t] = state[t]
    BY DEF SetState, TypeOK
  <1>3. \/ state'[s] = state[s]
        \/ HasOpen(s) /\ IndexAdmits(s) /\ state'[s] \in {"paused", "finalizing"}
    BY DEF SetState, TypeOK
  <1>4. OneActiveSession'
    BY <1>2, <1>3 DEF SafetyInv, OneActiveSession, IndexAdmits
  <1>5. OneOpenSegment'
    BY <1>1 DEF SafetyInv, OneOpenSegment
  <1>6. OpenOnlyWhileCapturing'
    BY <1>1, <1>2 DEF SafetyInv, OpenOnlyWhileCapturing, HasOpen
  <1>7. OutcomeTellsCapture'
    <2>1. \A t \in Sessions : state'[t] \in {"completed", "error"} => state'[t] = state[t]
      BY <1>2, <1>3
    <2> QED
      BY <1>1, <2>1 DEF SafetyInv, OutcomeTellsCapture
  <1>8. SegmentNamesItsFile'
    <2> SUFFICES ASSUME NEW t \in Sessions, NEW i \in DOMAIN segments'[t]
                 PROVE  target[segments'[t][i].source] = <<t, i>>
      BY DEF SegmentNamesItsFile
    <2>1. i \in DOMAIN segments[t] /\ segments'[t][i].source = segments[t][i].source
      BY <1>1
    <2>2. target[segments[t][i].source] = <<t, i>>
      BY <2>1 DEF SafetyInv, SegmentNamesItsFile
    <2> QED
      BY <2>1, <2>2
  <1>9. OutputsDisjoint'
    BY DEF SafetyInv, OutputsDisjoint
  <1>10. LaunchOK'
    <2>1. launch[s].phase # "none" => state'[s] = state[s]
      BY <1>3 DEF SafetyInv, InProgressOK, LaunchOK, OpenOnlyWhileCapturing, Terminal
    <2> SUFFICES ASSUME NEW t \in Sessions, launch[t].phase # "none"
                 PROVE  /\ state'[t] \in {"starting", "finalizing"} \cup Terminal
                        /\ launch[t].con \in Consumers
                        /\ cons[launch[t].con] # "free"
                        /\ target[launch[t].con] = <<t, Len(segments'[t]) + 1>>
      BY DEF LaunchOK
    <2>2. state'[t] = state[t] /\ Len(segments'[t]) = Len(segments[t])
      BY <1>1, <1>2, <2>1
    <2> QED
      BY <2>2 DEF SafetyInv, InProgressOK, LaunchOK
  <1>11. TargetOK'
    <2> SUFFICES ASSUME NEW d \in Consumers, cons[d] # "free"
                 PROVE  \E t \in Sessions :
                          \/ \E i \in 1..Len(segments'[t]) : target[d] = <<t, i>>
                          \/ /\ target[d] = <<t, Len(segments'[t]) + 1>>
                             /\ Open(t)' = {}
                             /\ state'[t] \in {"starting", "stopping", "finalizing"} \cup Terminal
      BY DEF TargetOK, SafetyInv, InProgressOK, HasOpen
    <2>1. PICK t \in Sessions :
            \/ \E i \in 1..Len(segments[t]) : target[d] = <<t, i>>
            \/ /\ target[d] = <<t, Len(segments[t]) + 1>>
               /\ Open(t) = {}
               /\ state[t] \in {"starting", "stopping", "finalizing"} \cup Terminal
      BY DEF SafetyInv, InProgressOK, TargetOK, HasOpen
    <2>2. Len(segments'[t]) = Len(segments[t]) /\ (Open(t) = {} => Open(t)' = {} /\ state'[t] = state[t])
      BY <1>1, <1>2, <1>3 DEF HasOpen
    <2> QED
      BY <2>1, <2>2
  <1> QED
    BY <1>4, <1>5, <1>6, <1>7, <1>8, <1>9, <1>10, <1>11

(* A late pause or stop closes what is open, or changes nothing.           *)
LEMMA FinishSafe ==
  ASSUME TypeOK, SafetyInv, NEW s \in Sessions, FinishPause(s) \/ FinishStop(s)
  PROVE  SafetyInv'
  <1> USE DEF pm
  <1>1. turn = NoTurn /\ UNCHANGED <<launch, cons, target>>
    BY DEF FinishPause, FinishStop
  <1>2. CASE ~CanClose(s)
    <2>1. UNCHANGED <<turn, state, segments, launch, cons, target>>
      BY <1>2 DEF FinishPause, FinishStop
    <2> QED
      BY <2>1, FrameSafe
  <1>3. CASE CanClose(s)
    <2>1. PICK how \in {"finalized", "truncated"}, w \in {"paused", "finalizing"} :
            /\ segments' = [segments EXCEPT ![s] = Closed(segments[s], how)]
            /\ state' = [state EXCEPT ![s] = w]
            /\ turn' = turn \/ (turn' = Todo("complete", s) /\ w = "finalizing")
      <3>1. CASE FinishPause(s)
        <4>1. CloseActiveSegment("pause", s, "paused") /\ turn' = turn
          BY <1>3, <3>1 DEF FinishPause
        <4>2. PICK how \in {"finalized", "truncated"} :
                segments' = [segments EXCEPT ![s] = Closed(segments[s], how)]
          BY <4>1 DEF CloseActiveSegment, CloseOpen
        <4> QED
          BY <4>1, <4>2 DEF CloseActiveSegment, SetState
      <3>2. CASE FinishStop(s)
        <4>1. CloseActiveSegment("stop", s, "finalizing") /\ turn' = Todo("complete", s)
          BY <1>3, <3>2 DEF FinishStop
        <4>2. PICK how \in {"finalized", "truncated"} :
                segments' = [segments EXCEPT ![s] = Closed(segments[s], how)]
          BY <4>1 DEF CloseActiveSegment, CloseOpen
        <4> QED
          BY <4>1, <4>2 DEF CloseActiveSegment, SetState
      <3> QED
        BY <3>1, <3>2
    <2>5. CloseOpen(s, how) /\ SetState(s, w)
      BY <2>1 DEF CloseOpen, SetState
    <2>2. /\ OneActiveSession' /\ OneOpenSegment' /\ OpenOnlyWhileCapturing' /\ OutcomeTellsCapture'
          /\ SegmentNamesItsFile' /\ OutputsDisjoint' /\ LaunchOK' /\ TargetOK'
      BY <1>1, <1>3, <2>5, ClosingSafe DEF CanClose
    <2>3. Open(s)' = {} /\ state'[s] = w
      BY <2>5, CloseEffect DEF SetState, TypeOK
    <2>4. TurnOK'
      <3>1. CASE turn' = turn
        BY <1>1, <3>1 DEF TurnOK
      <3>2. CASE turn' = Todo("complete", s) /\ w = "finalizing"
        <4>1. turn'.todo = "complete" /\ turn'.session = s
          BY <3>2 DEF Todo
        <4> QED
          BY <2>3, <3>2, <4>1 DEF TurnOK, HasOpen
      <3> QED
        BY <2>1, <3>1, <3>2
    <2> QED
      BY <2>2, <2>4 DEF SafetyInv, InProgressOK
  <1> QED
    BY <1>2, <1>3

(* Commands are safe.                                                      *)
LEMMA CommandSafe ==
  ASSUME TypeOK, SafetyInv, NEW s \in Sessions,
         DoStart(s) \/ DoPause(s) \/ DoResume(s) \/ DoStop(s)
  PROVE  SafetyInv'
  <1> USE DEF database, pm
  <1>1. turn = NoTurn
    BY DEF DoStart, DoPause, DoResume, DoStop, Quiet
  <1>2. CASE DoStart(s) \/ DoResume(s)
    <2>1. state[s] \in {"none", "paused"} /\ IndexAdmits(s)
      BY <1>2 DEF DoStart, DoResume, IndexAdmits, SafetyInv, OneActiveSession, NonTerminal
    <2>2. ~HasOpen(s)
      BY <2>1 DEF SafetyInv, OpenOnlyWhileCapturing
    <2>3. Request(s) /\ SetState(s, "starting") /\ segments' = segments /\ turn' = turn
      BY <1>2 DEF DoStart, DoResume
    <2>4. TurnOK'
      BY <1>1, <2>3 DEF TurnOK
    <2> QED
      BY <2>1, <2>2, <2>3, <2>4, RequestSafe DEF SafetyInv, InProgressOK
  <1>3. CASE DoPause(s)
    BY <1>3, FrameSafe DEF DoPause
  <1>4. CASE DoStop(s)
    <2>1. /\ SetState(s, "stopping") /\ UNCHANGED <<segments, launch, cons, target>>
          /\ state[s] \in {"recording", "paused"}
          /\ turn' = turn \/ (state[s] = "paused" /\ turn' = Todo("finalize", s))
      BY <1>4 DEF DoStop
    <2>2. IndexAdmits(s)
      BY <2>1 DEF IndexAdmits, SafetyInv, OneActiveSession, NonTerminal
    <2>3. /\ OneActiveSession' /\ OneOpenSegment' /\ OpenOnlyWhileCapturing' /\ OutcomeTellsCapture'
          /\ SegmentNamesItsFile' /\ OutputsDisjoint' /\ TargetOK'
      BY <2>1, <2>2, SetStateSafe DEF NonTerminal
    <2>4. LaunchOK'
      <3>1. launch[s].phase = "none"
        BY <2>1 DEF SafetyInv, InProgressOK, LaunchOK, Terminal
      <3> QED
        BY <2>1, <3>1, LaunchStaysOK DEF NonTerminal
    <2>5. TurnOK'
      <3>1. CASE turn' = turn
        BY <1>1, <3>1 DEF TurnOK
      <3>2. CASE state[s] = "paused" /\ turn' = Todo("finalize", s)
        <4>1. turn'.todo = "finalize" /\ turn'.session = s /\ state'[s] = "stopping"
          BY <2>1, <3>2 DEF Todo, SetState, TypeOK
        <4>2. Open(s)' = {}
          BY <2>1, <3>2 DEF SafetyInv, OpenOnlyWhileCapturing, HasOpen, Open
        <4> QED
          BY <4>1, <4>2 DEF TurnOK, HasOpen, NonTerminal
      <3> QED
        BY <2>1, <3>1, <3>2
    <2> QED
      BY <2>3, <2>4, <2>5 DEF SafetyInv, InProgressOK
  <1> QED
    BY <1>2, <1>3, <1>4

(* The outcomes of start and stop calls are safe.                          *)
LEMMA OutcomeSafe ==
  ASSUME TypeOK, SafetyInv, NEW s \in Sessions,
         \/ LaunchReply(s) \/ LaunchRefused(s) \/ LaunchLost(s) \/ ConfirmTimeout(s)
         \/ \E k \in Kinds : StopReply(k, s) \/ StopLost(k, s) \/ EosTimeout(k, s)
  PROVE  SafetyInv'
  <1> USE DEF database, pm
  <1>1. CASE LaunchReply(s)
    <2>1. \A t \in Sessions : launch'[t].phase # "none" =>
            launch'[t].con = launch[t].con /\ launch[t].phase # "none"
      <3> SUFFICES ASSUME NEW t \in Sessions
                   PROVE  launch'[t].phase # "none" =>
                            launch'[t].con = launch[t].con /\ launch[t].phase # "none"
        OBVIOUS
      <3>1. CASE t = s
        <4>1. launch[s].phase = "calling" /\ launch'[s] = [launch[s] EXCEPT !.phase = "racing"]
          BY <1>1 DEF LaunchReply, TypeOK
        <4>2. launch[s] \in Launch
          BY DEF TypeOK
        <4> QED
          BY <3>1, <4>1, <4>2 DEF Launch
      <3>2. CASE t # s
        BY <1>1, <3>2 DEF LaunchReply, TypeOK
      <3> QED
        BY <3>1, <3>2
    <2> QED
      BY <1>1, <2>1, FrameSafe DEF LaunchReply
  <1>2. CASE LaunchRefused(s) \/ LaunchLost(s) \/ ConfirmTimeout(s)
    BY <1>2, FailStartSafe DEF LaunchRefused, LaunchLost, ConfirmTimeout, Quiet
  <1>3. ASSUME NEW k \in Kinds, StopReply(k, s) \/ StopLost(k, s) \/ EosTimeout(k, s) PROVE SafetyInv'
    BY <1>3, FrameSafe DEF StopReply, StopLost, EosTimeout
  <1> QED
    BY <1>1, <1>2, <1>3

(* The later transactions of a work item are safe.                         *)
LEMMA TurnSafe ==
  ASSUME TypeOK, SafetyInv, NEW s \in Sessions,
         EnterFinalizing(s) \/ CompleteFinalized(s) \/ EnterRecoveryStarting(s)
  PROVE  SafetyInv'
  <1> USE DEF pm
  <1>1. turn # NoTurn /\ turn.session = s
    BY DEF EnterFinalizing, CompleteFinalized, EnterRecoveryStarting, Todo, NoTurn
  <1>2. ~HasOpen(s)
    BY <1>1 DEF SafetyInv, InProgressOK, TurnOK
  <1>3. CASE EnterFinalizing(s)
    <2>1. turn.todo = "finalize" /\ SetState(s, "finalizing") /\ UNCHANGED <<segments, launch, cons, target>>
      BY <1>3 DEF EnterFinalizing, Todo
    <2>2. state[s] \in NonTerminal
      BY <1>1, <2>1 DEF SafetyInv, InProgressOK, TurnOK
    <2>3. IndexAdmits(s)
      BY <2>2 DEF IndexAdmits, SafetyInv, OneActiveSession
    <2>4. /\ OneActiveSession' /\ OneOpenSegment' /\ OpenOnlyWhileCapturing' /\ OutcomeTellsCapture'
          /\ SegmentNamesItsFile' /\ OutputsDisjoint' /\ TargetOK'
      BY <1>2, <2>1, <2>3, SetStateSafe DEF NonTerminal
    <2>5. LaunchOK'
      BY <2>1, LaunchStaysOK DEF NonTerminal
    <2>6. TurnOK'
      <3>1. turn'.todo = "complete" /\ turn'.session = s /\ state'[s] = "finalizing" /\ Open(s)' = Open(s)
        BY <1>3, <2>1 DEF EnterFinalizing, Todo, SetState, TypeOK, Open
      <3> QED
        BY <1>2, <3>1 DEF TurnOK, HasOpen
    <2> QED
      BY <2>4, <2>5, <2>6 DEF SafetyInv, InProgressOK
  <1>4. CASE CompleteFinalized(s)
    <2>1. PICK w \in {"completed", "error"} :
            /\ SetState(s, w)
            /\ w = "error" <=> ~HasSegments(s)
      BY <1>4 DEF CompleteFinalized
    <2>2. turn' = NoTurn /\ UNCHANGED <<segments, launch, cons, target>>
      BY <1>4 DEF CompleteFinalized
    <2>3. /\ OneActiveSession' /\ OneOpenSegment' /\ OpenOnlyWhileCapturing' /\ OutcomeTellsCapture'
          /\ SegmentNamesItsFile' /\ OutputsDisjoint' /\ TargetOK'
      BY <1>2, <2>1, <2>2, SetStateSafe DEF NonTerminal, Terminal
    <2>4. LaunchOK'
      BY <2>1, <2>2, LaunchStaysOK DEF Terminal
    <2>5. TurnOK'
      BY <2>2 DEF TurnOK
    <2> QED
      BY <2>3, <2>4, <2>5 DEF SafetyInv, InProgressOK
  <1>5. CASE EnterRecoveryStarting(s)
    <2>1. turn.todo = "recover" /\ SetState(s, "starting") /\ turn' = NoTurn /\ Request(s) /\ UNCHANGED segments
      BY <1>5 DEF EnterRecoveryStarting, Todo
    <2>2. state[s] = "recording"
      BY <1>1, <2>1 DEF SafetyInv, InProgressOK, TurnOK
    <2>3. IndexAdmits(s)
      BY <2>2 DEF IndexAdmits, SafetyInv, OneActiveSession, NonTerminal
    <2>4. TurnOK'
      BY <2>1 DEF TurnOK
    <2> QED
      BY <1>2, <2>1, <2>2, <2>3, <2>4, RequestSafe DEF SafetyInv, InProgressOK
  <1> QED
    BY <1>3, <1>4, <1>5

(* The steps of the pipeline manager and the delivery of events are safe.  *)
LEMMA ConsumerSafe ==
  ASSUME TypeOK, SafetyInv, NEW c \in Consumers, ConsumerStep(c)
  PROVE  SafetyInv'
  <1> USE DEF memory, database, pm
  <1>1. ASSUME NEW old \in ConsumerState \ {"free"}, NEW new \in ConsumerState \ {"free"},
               cons[c] = old, cons' = [cons EXCEPT ![c] = new],
               UNCHANGED <<turn, state, segments, target, launch>>
        PROVE  SafetyInv'
    <2>1. \A d \in Consumers : cons'[d] = "free" <=> cons[d] = "free"
      BY <1>1 DEF TypeOK
    <2> QED
      BY <1>1, <2>1, FrameSafe
  <1>2. CASE PmConfirm(c)
    BY <1>1, <1>2 DEF PmConfirm, ConsumerState
  <1>3. CASE PmReject(c)
    BY <1>1, <1>3 DEF PmReject, ConsumerState
  <1>4. CASE PmStopReceived(c)
    BY <1>1, <1>4 DEF PmStopReceived, ConsumerState
  <1>5. CASE PmStopDone(c)
    BY <1>1, <1>5 DEF PmStopDone, ConsumerState
  <1>6. CASE PmExit(c)
    BY <1>1, <1>6 DEF PmExit, ConsumerState
  <1>7. CASE DeliverRunning(c)
    <2>1. ASSUME NEW s \in Sessions, launch[s] = [phase |-> "racing", con |-> c], ConfirmStart(s)
          PROVE  SafetyInv'
      BY <1>7, <2>1, ConfirmSafe DEF DeliverRunning, Quiet
    <2>2. CASE UNCHANGED <<turn, launch, active, database>>
      BY <1>7, <2>2, FrameSafe DEF DeliverRunning
    <2> QED
      BY <1>7, <2>1, <2>2 DEF DeliverRunning
  <1>8. CASE DeliverEos(c)
    BY <1>8, FrameSafe DEF DeliverEos
  <1> QED
    BY <1>2, <1>3, <1>4, <1>5, <1>6, <1>7, <1>8 DEF ConsumerStep

(* A crash and a power loss are safe: what they forget is only memory.     *)
LEMMA CrashSafe ==
  ASSUME TypeOK, SafetyInv, Crash \/ PowerLoss
  PROVE  SafetyInv'
  <1> USE DEF database, pm
  <1>1. /\ UNCHANGED <<state, segments, target>>
        /\ turn' = NoTurn
        /\ \A s \in Sessions : launch'[s] = Idle
        /\ \A c \in Consumers : cons'[c] = "free" <=> cons[c] = "free"
    BY DEF Crash, PowerLoss, LoseMemory, TypeOK
  <1>2. TurnOK'
    BY <1>1 DEF TurnOK
  <1> QED
    BY <1>1, <1>2, RowsFrame DEF Idle, SafetyInv, InProgressOK

(* The recovery pass is safe: it closes the open segment or finds none.    *)
LEMMA BootSafe ==
  ASSUME TypeOK, SafetyInv, BootPass
  PROVE  SafetyInv'
  <1> USE DEF pm
  <1>1. turn = NoTurn /\ UNCHANGED <<state, launch, cons, target>>
    BY DEF BootPass, BootUnchanged, Quiet
  <1>2. CASE UNCHANGED <<turn, segments>>
    BY <1>1, <1>2, FrameSafe
  <1>3. ASSUME NEW s \in Sessions, UNCHANGED segments, ~HasOpen(s),
               NEW what \in {"finalize", "complete", "recover"}, turn' = Todo(what, s),
               what = "finalize" => state[s] \in NonTerminal,
               what = "complete" => state[s] = "finalizing",
               what = "recover" => state[s] = "recording"
        PROVE  SafetyInv'
    <2>1. turn'.todo = what /\ turn'.session = s
      BY <1>3 DEF Todo
    <2>2. TurnOK'
      BY <1>1, <1>3, <2>1 DEF TurnOK, HasOpen, Open
    <2> QED
      BY <1>1, <1>3, <2>2, RowsFrame DEF SafetyInv, InProgressOK
  <1>4. ASSUME NEW s \in Sessions, CloseOpen(s, "truncated"),
               NEW what \in {"finalize", "recover"}, turn' = Todo(what, s),
               what = "finalize" => state[s] \in NonTerminal,
               what = "recover" => state[s] = "recording"
        PROVE  SafetyInv'
    <2>1. turn'.todo = what /\ turn'.session = s
      BY <1>4 DEF Todo
    <2>2. Open(s)' = {}
      BY <1>4, CloseEffect
    <2>3. TurnOK'
      BY <1>1, <1>4, <2>1, <2>2 DEF TurnOK, HasOpen
    <2>4. /\ OneActiveSession' /\ OneOpenSegment' /\ OpenOnlyWhileCapturing' /\ OutcomeTellsCapture'
          /\ SegmentNamesItsFile' /\ OutputsDisjoint' /\ LaunchOK' /\ TargetOK'
      BY <1>1, <1>4, ClosingSafe
    <2> QED
      BY <2>3, <2>4 DEF SafetyInv, InProgressOK
  <1>5. ASSUME NEW s \in Sessions,
               Adopt(s) \/ RecoverRecording(s) \/ RecoverPaused(s) \/ RecoverTransient(s) \/ RecoverFinalizing(s)
        PROVE  SafetyInv'
    <2>1. CASE Adopt(s)
      BY <1>2, <2>1 DEF Adopt
    <2>2. CASE RecoverRecording(s)
      BY <1>4, <2>2 DEF RecoverRecording, NonTerminal
    <2>3. CASE RecoverPaused(s)
      <3>1. ~HasOpen(s)
        BY <2>3 DEF RecoverPaused, SafetyInv, OpenOnlyWhileCapturing
      <3> QED
        BY <1>1, <1>2, <1>3, <2>3, <3>1 DEF RecoverPaused, NonTerminal
    <2>4. CASE RecoverTransient(s)
      <3>1. CASE state[s] = "starting" /\ UNCHANGED segments
        <4>1. ~HasOpen(s)
          BY <3>1 DEF SafetyInv, OpenOnlyWhileCapturing
        <4> QED
          BY <1>3, <2>4, <3>1, <4>1 DEF RecoverTransient, NonTerminal
      <3>2. CASE state[s] = "stopping" /\ CloseOpen(s, "truncated")
        BY <1>4, <2>4, <3>2 DEF RecoverTransient, NonTerminal
      <3> QED
        BY <2>4, <3>1, <3>2 DEF RecoverTransient
    <2>5. CASE RecoverFinalizing(s)
      <3>1. ~HasOpen(s)
        BY <2>5 DEF RecoverFinalizing, SafetyInv, OpenOnlyWhileCapturing
      <3> QED
        BY <1>3, <2>5, <3>1 DEF RecoverFinalizing
    <2> QED
      BY <1>5, <2>1, <2>2, <2>3, <2>4, <2>5
  <1> QED
    BY <1>2, <1>5 DEF BootPass

----------------------------------------------------------------------------
(* The inductive invariant holds at the start and after every step.        *)
LEMMA InitSafe == Init => SafetyInv
  <1> SUFFICES ASSUME Init PROVE SafetyInv
    OBVIOUS
  <1>1. \A s \in Sessions : state[s] = "none" /\ segments[s] = <<>> /\ launch[s] = Idle
    BY DEF Init
  <1>2. \A s \in Sessions : DOMAIN segments[s] = {} /\ ~HasOpen(s) /\ ~HasSegments(s)
    <2>1. DOMAIN <<>> = {} /\ OpenIn(<<>>) = {}
      BY DEF OpenIn
    <2> QED
      BY <1>1, <2>1 DEF HasOpen, Open, HasSegments
  <1>3. OneActiveSession /\ OneOpenSegment /\ OpenOnlyWhileCapturing /\ OutcomeTellsCapture
    BY <1>1, <1>2 DEF OneActiveSession, OneOpenSegment, OpenOnlyWhileCapturing, OutcomeTellsCapture,
       NonTerminal, HasOpen
  <1>4. SegmentNamesItsFile
    BY <1>2 DEF SegmentNamesItsFile
  <1>5. OutputsDisjoint /\ TargetOK
    BY DEF Init, OutputsDisjoint, TargetOK
  <1>6. TurnOK /\ LaunchOK
    BY <1>1 DEF Init, TurnOK, LaunchOK, Idle
  <1> QED
    BY <1>3, <1>4, <1>5, <1>6 DEF SafetyInv, InProgressOK

LEMMA StepSafe == TypeOK /\ SafetyInv /\ [Next]_vars => SafetyInv'
  <1> SUFFICES ASSUME TypeOK, SafetyInv, [Next]_vars PROVE SafetyInv'
    OBVIOUS
  <1>1. ASSUME NEW s \in Sessions, SessionStep(s) PROVE SafetyInv'
    BY <1>1, CommandSafe, OutcomeSafe, FinishSafe, TurnSafe DEF SessionStep
  <1>2. ASSUME NEW c \in Consumers, ConsumerStep(c) PROVE SafetyInv'
    BY <1>2, ConsumerSafe
  <1>3. CASE Restart \/ UNCHANGED vars
    BY <1>3, FrameSafe DEF Restart, vars, memory, database, pm
  <1> QED
    BY <1>1, <1>2, <1>3, CrashSafe, BootSafe DEF Next

(* Every safety invariant of the lecture session, whatever the number of   *)
(* lectures, consumers and crashes.                                        *)
THEOREM Safety == Spec => []SafetyInv
  <1>1. Spec => []TypeOK
    BY TypeCorrect
  <1> QED
    BY <1>1, InitSafe, StepSafe, PTL DEF Spec

(* At most one lecture is under way (INV-LS-1).                            *)
THEOREM SingleLecture == Spec => []OneActiveSession
  <1>1. SafetyInv => OneActiveSession
    BY DEF SafetyInv
  <1> QED
    BY <1>1, Safety, PTL

(* A recording has at most one open segment, its last, and it is open only *)
(* while the lecture records or is being stopped.                          *)
THEOREM SingleOpenSegment == Spec => [](OneOpenSegment /\ OpenOnlyWhileCapturing)
  <1>1. SafetyInv => OneOpenSegment /\ OpenOnlyWhileCapturing
    BY DEF SafetyInv
  <1> QED
    BY <1>1, Safety, PTL

(* The outcome of a lecture tells whether anything was captured (SM-R-4).  *)
THEOREM HonestOutcome == Spec => []OutcomeTellsCapture
  <1>1. SafetyInv => OutcomeTellsCapture
    BY DEF SafetyInv
  <1> QED
    BY <1>1, Safety, PTL

(* The row of a segment names the file its consumer writes, and no two     *)
(* consumers write the same file.                                          *)
THEOREM FilesAgree == Spec => [](SegmentNamesItsFile /\ OutputsDisjoint)
  <1>1. SafetyInv => SegmentNamesItsFile /\ OutputsDisjoint
    BY DEF SafetyInv
  <1> QED
    BY <1>1, Safety, PTL

(* What is in progress agrees with the rows of the database.               *)
THEOREM ProgressConsistent == Spec => []InProgressOK
  <1>1. SafetyInv => InProgressOK
    BY DEF SafetyInv
  <1> QED
    BY <1>1, Safety, PTL

(* A lecture that has ended comes back only by the answer to a start call  *)
(* that was still under way when it ended.                                 *)
THEOREM EndedStaysEnded == Spec => OnlyALaunchRevives
  <1> DEFINE Revives(s) == state[s] \in Terminal /\ state'[s] \in NonTerminal
  <1>1. TypeOK /\ SafetyInv /\ [Next]_vars
          => [\A s \in Sessions : Revives(s) => launch[s].phase # "none"]_vars
    <2> SUFFICES ASSUME TypeOK, SafetyInv, Next, NEW s \in Sessions, Revives(s)
                 PROVE  launch[s].phase # "none"
      OBVIOUS
    <2> USE DEF SetState, NonTerminal, Terminal
    <2>1. state[s] \in {"completed", "error"} /\ ~HasOpen(s)
      BY DEF SafetyInv, OpenOnlyWhileCapturing
    <2>3. ASSUME NEW t \in Sessions, SessionStep(t) PROVE launch[s].phase # "none"
      <3>1. CASE DoStart(t) \/ DoPause(t) \/ DoResume(t) \/ DoStop(t)
        BY <2>1, <3>1 DEF DoStart, DoPause, DoResume, DoStop, TypeOK, database
      <3>2. CASE LaunchRefused(t) \/ LaunchLost(t) \/ ConfirmTimeout(t)
        <4>1. t = s
          BY <2>1, <3>2 DEF LaunchRefused, LaunchLost, ConfirmTimeout, FailStart, TypeOK
        <4> QED
          BY <3>2, <4>1 DEF LaunchRefused, LaunchLost, ConfirmTimeout
      <3>3. CASE \/ LaunchReply(t)
                 \/ \E k \in Kinds : StopReply(k, t) \/ StopLost(k, t) \/ EosTimeout(k, t)
        BY <3>3 DEF LaunchReply, StopReply, StopLost, EosTimeout, database
      <3>4. CASE FinishPause(t) \/ FinishStop(t)
        <4>1. HasOpen(t) /\ t = s
          BY <2>1, <3>4 DEF FinishPause, FinishStop, CanClose, CloseActiveSegment, TypeOK
        <4> QED
          BY <2>1, <4>1
      <3>5. CASE EnterFinalizing(t)
        <4>1. turn.todo = "finalize" /\ turn.session = t /\ turn # NoTurn
          BY <3>5 DEF EnterFinalizing, Todo, NoTurn
        <4>2. t = s
          BY <3>5 DEF EnterFinalizing, TypeOK
        <4> QED
          BY <2>1, <4>1, <4>2 DEF SafetyInv, InProgressOK, TurnOK
      <3>6. CASE CompleteFinalized(t)
        BY <2>1, <3>6 DEF CompleteFinalized, TypeOK
      <3>7. CASE EnterRecoveryStarting(t)
        <4>1. turn.todo = "recover" /\ turn.session = t /\ turn # NoTurn
          BY <3>7 DEF EnterRecoveryStarting, Todo, NoTurn
        <4>2. t = s
          BY <3>7 DEF EnterRecoveryStarting, TypeOK
        <4> QED
          BY <2>1, <4>1, <4>2 DEF SafetyInv, InProgressOK, TurnOK
      <3> QED
        BY <2>3, <3>1, <3>2, <3>3, <3>4, <3>5, <3>6, <3>7 DEF SessionStep
    <2>4. ASSUME NEW c \in Consumers, DeliverRunning(c) PROVE launch[s].phase # "none"
      <3>1. PICK t \in Sessions : launch[t] = [phase |-> "racing", con |-> c] /\ ConfirmStart(t)
        BY <2>4 DEF DeliverRunning, database
      <3>2. t = s
        BY <3>1 DEF ConfirmStart, TypeOK
      <3> QED
        BY <3>1, <3>2
    <2>5. state' # state
      OBVIOUS
    <2>6. ASSUME NEW c \in Consumers, ConsumerStep(c) PROVE DeliverRunning(c)
      BY <2>5, <2>6 DEF ConsumerStep, PmConfirm, PmReject, PmStopReceived, PmStopDone, PmExit, DeliverEos, database
    <2> QED
      BY <2>3, <2>4, <2>5, <2>6 DEF Next, Crash, PowerLoss, Restart, BootPass, BootUnchanged, database
  <1>2. Spec => []TypeOK
    BY TypeCorrect
  <1> QED
    BY <1>1, <1>2, Safety, PTL DEF Spec, OnlyALaunchRevives
=============================================================================
